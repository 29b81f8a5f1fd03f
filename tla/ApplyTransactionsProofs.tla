---------------------- MODULE ApplyTransactionsProofs ----------------------
(***************************************************************************)
(* For any accounts, transactions, prior ledgers and orders: every         *)
(* transaction ends up in exactly one place, the transactions of an        *)
(* account enter the ledger in sequence, no coin appears or is lost, the   *)
(* passes stop only when there is nothing left to do, and the transaction  *)
(* that is next in line of an account that can pay is applied.             *)
(***************************************************************************)
EXTENDS ApplyTransactions, FiniteSetTheorems, TLAPS

Entries == [id : Tx, claimed : BOOLEAN]
Fields == {"bal", "seq", "coins", "feePool", "inflationSeq", "txs"}

\* The part of the type of a ledger that the proofs need.
Shape(L) == DOMAIN L = Fields /\ L.seq \in [Accounts -> Nat] /\ L.txs \in Seq(Entries)

\* M is L after transaction id, for its fee only if c.
Advanced(L, M, id, c) ==
  LET t == Body[id]
  IN  /\ L.seq[t.account] = t.seq
      /\ M.seq[t.account] = IF t.type = "merge" /\ ~c THEN 0 ELSE t.seq + 1
      /\ \A a \in Accounts \ {t.account} :
           M.seq[a] = L.seq[a] \/ (L.seq[a] = 0 /\ M.seq[a] = 1)
Grown(L, M, id, c) ==
  M.txs = Append(L.txs, [id |-> id, claimed |-> c]) /\ Advanced(L, M, id, c)

\* A transaction that passes the checks has its account's sequence number.
LEMMA CheckPasses ==
  ASSUME NEW L, Shape(L), NEW t \in Bodies, Check(L, t) = "tes"
  PROVE  L.seq[t.account] = t.seq
<1>1. CheckSeq(L, t) = "tes"
  BY DEF Check
<1>2. L.seq[t.account] \in Nat /\ t.seq \in Nat
  BY DEF Shape, Bodies
<1> QED BY <1>1, <1>2 DEF CheckSeq

\* The checks return one of the classes of results.
LEMMA CheckResult ==
  ASSUME NEW L, NEW t
  PROVE  Check(L, t) # "applied"
<1>1. CheckSeq(L, t) # "applied"
  BY DEF CheckSeq
<1>2. PayFee(L, t) # "applied" /\ CheckSig(t) # "applied"
  BY DEF PayFee, CheckSig
<1>3. PrecheckAgainstLedger(L, t) # "applied"
  BY DEF PrecheckAgainstLedger, PrecheckMerge, PrecheckInflation
<1> QED BY <1>1, <1>2, <1>3 DEF Check

\* Sequence number and fee are charged to the account alone.
LEMMA ChargedEffect ==
  ASSUME NEW L, Shape(L), NEW t \in Bodies
  PROVE  /\ Shape(Charged(L, t)) /\ Charged(L, t).txs = L.txs
         /\ Charged(L, t).seq = [L.seq EXCEPT ![t.account] = t.seq + 1]
<1>1. "seq" \in DOMAIN L /\ "txs" \in DOMAIN L /\ "bal" \in DOMAIN L
  BY DEF Shape, Fields
<1>2. t.account \in Accounts /\ t.seq + 1 \in Nat
  BY DEF Bodies
<1>3. /\ DOMAIN Charged(L, t) = DOMAIN L /\ Charged(L, t).txs = L.txs
      /\ Charged(L, t).seq = [L.seq EXCEPT ![t.account] = t.seq + 1]
  BY <1>1 DEF Charged
<1> QED BY <1>2, <1>3 DEF Shape

\* What a transactor leaves when it succeeds, before the ledger records it.
LEMMA TransactorEffect ==
  ASSUME NEW L, Shape(L), NEW id \in Tx
  PROVE  LET r == TransactorApply(L, Body[id])
         IN  /\ r.ter # "applied"
             /\ r.ter = "tes" => /\ Shape(r.ledger) /\ r.ledger.txs = L.txs
                                 /\ Advanced(L, r.ledger, id, FALSE)
<1> DEFINE t == Body[id]
           r == TransactorApply(L, t)
           C == Charged(L, t)
<1>0. t \in Bodies
  BY BodyAssumption
<1>1. t.account \in Accounts /\ t.seq \in Nat /\ t.seq # 0 /\ t.dst \in Accounts
      /\ t.type \in {"pay", "merge", "inflate"}
  BY <1>0 DEF Bodies
<1>2. /\ Shape(C) /\ C.txs = L.txs /\ C.seq = [L.seq EXCEPT ![t.account] = t.seq + 1]
  BY <1>0, ChargedEffect
<1>c. /\ "seq" \in DOMAIN C /\ "txs" \in DOMAIN C /\ "bal" \in DOMAIN C
      /\ "coins" \in DOMAIN C /\ "feePool" \in DOMAIN C /\ "inflationSeq" \in DOMAIN C
  BY <1>2 DEF Shape, Fields
<1> HIDE DEF t, C
<1>3. CASE Check(L, t) # "tes"
  BY Zenon, <1>3, CheckResult DEF TransactorApply, Outcome, t
<1>4. ASSUME Check(L, t) = "tes" PROVE L.seq[t.account] = t.seq
  BY <1>0, <1>4, CheckPasses
<1>5. CASE Check(L, t) = "tes" /\ t.type = "pay"
  <2>1. r = DoPayment(L, t)
    BY <1>5 DEF TransactorApply
  <2> DEFINE M == [C EXCEPT
            !.bal = [C.bal EXCEPT ![t.account] = @ - t.amount,
                                  ![t.dst] = @ + t.amount],
            !.seq[t.dst] = IF @ = 0 THEN 1 ELSE @]
  <2>2. \/ r.ter \in {"tem", "tec"}
        \/ r.ter = "tes" /\ r.ledger = M /\ t.dst # t.account
    BY <2>1 DEF DoPayment, Outcome, C
  <2>3. /\ DOMAIN M = DOMAIN C /\ M.txs = C.txs
        /\ M.seq = [C.seq EXCEPT ![t.dst] = IF @ = 0 THEN 1 ELSE @]
    BY Zenon, <1>c
  <2> HIDE DEF M
  <2>4. ASSUME t.dst # t.account
        PROVE  Shape(M) /\ M.txs = L.txs /\ Advanced(L, M, id, FALSE)
    <3>1. M.seq \in [Accounts -> Nat]
      BY SMTT(60), <1>1, <1>2, <2>3 DEF Shape
    <3>2. M.seq[t.account] = t.seq + 1
      BY <1>1, <1>2, <2>3, <2>4 DEF Shape
    <3>3. \A a \in Accounts \ {t.account} :
             M.seq[a] = L.seq[a] \/ (L.seq[a] = 0 /\ M.seq[a] = 1)
      BY SMTT(60), <1>1, <1>2, <2>3 DEF Shape
    <3>4. L.seq[t.account] = t.seq
      BY <1>4, <1>5
    <3> QED BY <1>2, <1>5, <2>3, <3>1, <3>2, <3>3, <3>4 DEF Shape, Advanced, t
  <2> QED BY Zenon, <2>2, <2>4 DEF t
<1>6. CASE Check(L, t) = "tes" /\ t.type = "merge"
  <2> DEFINE M == [C EXCEPT
            !.bal = [C.bal EXCEPT ![t.dst] = @ + (L.bal[t.account] - t.fee),
                                  ![t.account] = 0],
            !.seq[t.account] = 0]
  <2>1. r.ter = "tes" /\ r.ledger = M
    BY <1>6 DEF TransactorApply, DoMerge, Outcome, C
  <2>2. DOMAIN M = DOMAIN C /\ M.txs = C.txs /\ M.seq = [C.seq EXCEPT ![t.account] = 0]
    BY <1>c
  <2> HIDE DEF M
  <2>3. Shape(M) /\ M.txs = L.txs /\ Advanced(L, M, id, FALSE)
    BY SMTT(60), <1>1, <1>2, <1>4, <1>6, <2>2 DEF Shape, Advanced, t
  <2> QED BY Zenon, <2>1, <2>3 DEF t
<1>7. CASE Check(L, t) = "tes" /\ t.type = "inflate"
  <2>1. r = DoInflation(L, t)
    BY <1>7 DEF TransactorApply
  <2> DEFINE share == [a \in Accounts |->
                  IF a \in Winners(L, Votes(L)) /\ Exists(L, a)
                  THEN (((L.coins * Rate[1]) \div Rate[2] + L.feePool) * Votes(L)[a])
                       \div SumFunctionOnSet(Votes(L), Winners(L, Votes(L)))
                  ELSE 0]
             B(f) == [a \in Accounts |-> f[a] + share[a]]
             K(n) == n + SumFunction(share)
  <2>2. r = Outcome("tes", [C EXCEPT !.bal = B(@), !.coins = K(@), !.feePool = 0,
                                     !.inflationSeq = @ + 1])
    BY <2>1 DEF DoInflation, C
  <2> HIDE DEF B, K, share
  <2>3. /\ r.ter = "tes"
        /\ r.ledger = [C EXCEPT !.bal = B(@), !.coins = K(@), !.feePool = 0,
                                !.inflationSeq = @ + 1]
    BY <2>2 DEF Outcome
  <2>4. /\ DOMAIN r.ledger = DOMAIN C /\ r.ledger.txs = C.txs /\ r.ledger.seq = C.seq
    BY <1>c, <2>3
  <2> QED BY SMTT(60), <1>1, <1>2, <1>4, <1>7, <2>3, <2>4 DEF Shape, Advanced, t
<1> QED BY Zenon, <1>1, <1>3, <1>5, <1>6, <1>7 DEF t

\* The engine applies a transaction, fully or for its fee, or leaves the ledger
\* as it was.
LEMMA EngineEffect ==
  ASSUME NEW L, Shape(L), NEW id \in Tx, NEW retry \in BOOLEAN
  PROVE  LET r == EngineApply(L, id, retry)
         IN  \/ /\ r.ter = "applied" /\ Shape(r.ledger)
                /\ \E c \in BOOLEAN : Grown(L, r.ledger, id, c)
             \/ r.ter # "applied" /\ r.ledger = L
<1> DEFINE t == Body[id]
           r == EngineApply(L, id, retry)
           d == TransactorApply(L, t)
<1>0. t \in Bodies
  BY BodyAssumption
<1>1. ASSUME NEW M, Shape(M), M.txs = L.txs, NEW c \in BOOLEAN, Advanced(L, M, id, c)
      PROVE  Shape(Commit(M, id, c)) /\ Grown(L, Commit(M, id, c), id, c)
  <2>1. "seq" \in DOMAIN M /\ "txs" \in DOMAIN M
    BY <1>1 DEF Shape, Fields
  <2>2. /\ DOMAIN Commit(M, id, c) = DOMAIN M /\ Commit(M, id, c).seq = M.seq
        /\ Commit(M, id, c).txs = Append(M.txs, [id |-> id, claimed |-> c])
    BY <2>1 DEF Commit
  <2>3. [id |-> id, claimed |-> c] \in Entries
    BY DEF Entries
  <2>4. Shape(Commit(M, id, c))
    BY <1>1, <2>2, <2>3 DEF Shape
  <2> QED BY <1>1, <2>2, <2>4 DEF Grown, Advanced
<1>2. /\ d.ter # "applied"
      /\ d.ter = "tes" => /\ Shape(d.ledger) /\ d.ledger.txs = L.txs
                          /\ Advanced(L, d.ledger, id, FALSE)
  BY Zenon, TransactorEffect
<1> HIDE DEF d
<1>3. CASE d.ter = "tes"
  <2>1. r.ter = "applied" /\ r.ledger = Commit(d.ledger, id, FALSE)
    BY <1>3 DEF EngineApply, Outcome, d
  <2> QED BY Zenon, <1>1, <1>2, <1>3, <2>1
<1>4. CASE d.ter = "tec" /\ retry = FALSE
  <2>1. r = ClaimFee(L, id)
    BY <1>4 DEF EngineApply, d
  <2>2. \/ r.ter \in {"ter", "tef"} /\ r.ledger = L
        \/ /\ r.ter = "applied" /\ r.ledger = Commit(Charged(L, t), id, TRUE)
           /\ ~(L.seq[t.account] < t.seq) /\ ~(L.seq[t.account] > t.seq)
    <3>1. CASE \/ ~Exists(L, t.account) \/ L.seq[t.account] < t.seq
               \/ L.seq[t.account] > t.seq \/ L.bal[t.account] < t.fee
      <4>1. r = Outcome("ter", L) \/ r = Outcome("tef", L)
        <5>1. CASE ~Exists(L, t.account) \/ L.seq[t.account] < t.seq
          BY Zenon, <2>1, <5>1 DEF ClaimFee
        <5>2. CASE /\ Exists(L, t.account) /\ ~(L.seq[t.account] < t.seq)
                   /\ L.seq[t.account] > t.seq
          BY <2>1, <5>2 DEF ClaimFee
        <5>3. CASE /\ Exists(L, t.account) /\ ~(L.seq[t.account] < t.seq)
                   /\ ~(L.seq[t.account] > t.seq) /\ L.bal[t.account] < t.fee
          BY <2>1, <5>3 DEF ClaimFee
        <5> HIDE DEF r, t
        <5> QED BY <3>1, <5>1, <5>2, <5>3, Zenon
      <4>2. r.ter \in {"ter", "tef"} /\ r.ledger = L
        BY <4>1 DEF Outcome
      <4> QED BY Zenon, <4>2
    <3>2. CASE /\ Exists(L, t.account) /\ ~(L.seq[t.account] < t.seq)
               /\ ~(L.seq[t.account] > t.seq) /\ ~(L.bal[t.account] < t.fee)
      BY SMTT(60), <2>1, <3>2 DEF ClaimFee, Outcome
    <3> QED BY Zenon, <3>1, <3>2
  <2>3. L.seq[t.account] \in Nat /\ t.seq \in Nat /\ t.account \in Accounts
    BY <1>0 DEF Shape, Bodies
  <2>4. Shape(Charged(L, t)) /\ Charged(L, t).txs = L.txs
        /\ Charged(L, t).seq = [L.seq EXCEPT ![t.account] = t.seq + 1]
    BY <1>0, ChargedEffect
  <2>5. ASSUME L.seq[t.account] = t.seq PROVE Advanced(L, Charged(L, t), id, TRUE)
    BY <2>3, <2>4, <2>5 DEF Advanced, Shape
  <2>6. CASE r.ter \in {"ter", "tef"} /\ r.ledger = L
    BY <2>6
  <2>7. CASE r.ter = "applied" /\ r.ledger = Commit(Charged(L, t), id, TRUE)
             /\ L.seq[t.account] = t.seq
    BY Zenon, <1>1, <2>4, <2>5, <2>7
  <2>8. ASSUME ~(L.seq[t.account] < t.seq), ~(L.seq[t.account] > t.seq)
        PROVE  L.seq[t.account] = t.seq
    BY <2>3, <2>8
  <2> HIDE DEF r, t
  <2> QED BY <2>2, <2>6, <2>7, <2>8, Zenon
<1>5. CASE d.ter # "tes" /\ ~(d.ter = "tec" /\ retry = FALSE)
  BY <1>2, <1>5 DEF EngineApply, Outcome, d
<1> QED BY Zenon, <1>3, <1>4, <1>5

-----------------------------------------------------------------------------
(* Disposition. *)

Ids(L) == {L.txs[i].id : i \in DOMAIN L.txs}
Once(L) == \A i, j \in DOMAIN L.txs : L.txs[i].id = L.txs[j].id => i = j
Rest == {todo[i] : i \in DOMAIN todo}

\* What both passes do with a transaction they try.
Tried(id, retry) ==
  LET r == EngineApply(ledger, id, retry)
      v == Verdict(r.ter)
  IN  /\ ledger' = r.ledger
      /\ failed' = IF v = "fail" THEN failed \cup {id} ELSE failed
      /\ txns' = IF v = "retry" THEN txns ELSE txns \ {id}

\* Every transaction is in one place and at most once in the ledger.
OnePlace ==
  /\ set = Ids(ledger) \cup failed \cup txns
  /\ Ids(ledger) \cap failed = {} /\ Ids(ledger) \cap txns = {}
  /\ failed \cap txns = {} /\ Once(ledger)

\* In the first pass the transactions still to be applied are those put aside
\* and those not reached yet, and none is reached twice.
FirstPassInv ==
  /\ todo \in Seq(set) /\ IsInjective(todo)
  /\ txns = retriable \cup Rest /\ retriable \cap Rest = {}

DispInv ==
  /\ Shape(ledger) /\ set \subseteq Tx /\ certainRetry \in BOOLEAN
  /\ pass \in Nat \cup {-1} /\ OnePlace
  /\ pass = -1 => FirstPassInv
  /\ pass # -1 => txns = retriable

\* A transaction added to the ledger.
LEMMA AppendIds ==
  ASSUME NEW L, Shape(L), NEW M, Shape(M), NEW id \in Tx, NEW c \in BOOLEAN,
         M.txs = Append(L.txs, [id |-> id, claimed |-> c])
  PROVE  Ids(M) = Ids(L) \cup {id} /\ (Once(L) /\ id \notin Ids(L) => Once(M))
<1> DEFINE n == Len(L.txs)
           e == [id |-> id, claimed |-> c]
<1>1. n \in Nat /\ DOMAIN L.txs = 1 .. n /\ DOMAIN M.txs = 1 .. n + 1
      /\ \A i \in 1 .. n + 1 : M.txs[i] = IF i = n + 1 THEN e ELSE L.txs[i]
  <2>1. L.txs \in Seq(Entries) /\ e \in Entries
    BY DEF Shape, Entries
  <2> QED BY <2>1
<1>2. e.id = id
  OBVIOUS
<1> HIDE DEF n, e
<1>3. Ids(M) \subseteq Ids(L) \cup {id}
  BY SMTT(60), <1>1, <1>2 DEF Ids
<1>4. Ids(L) \subseteq Ids(M)
  BY <1>1 DEF Ids
<1>5. id \in Ids(M)
  BY <1>1, <1>2 DEF Ids
<1>6. ASSUME Once(L), id \notin Ids(L), NEW i \in DOMAIN M.txs, NEW j \in DOMAIN M.txs,
             M.txs[i].id = M.txs[j].id
      PROVE  i = j
  <2>1. \A k \in 1 .. n : L.txs[k].id # id
    BY <1>1, <1>6 DEF Ids
  <2>2. CASE i = n + 1 /\ j = n + 1
    BY <2>2
  <2>3. CASE i \in 1 .. n /\ j \in 1 .. n
    BY SMTT(60), <1>1, <1>6, <2>3 DEF Once
  <2>4. CASE i \in 1 .. n /\ j = n + 1
    BY <1>1, <1>2, <1>6, <2>1, <2>4
  <2>5. CASE i = n + 1 /\ j \in 1 .. n
    BY <1>1, <1>2, <1>6, <2>1, <2>5
  <2> QED BY <1>1, <2>2, <2>3, <2>4, <2>5
<1>7. Once(L) /\ id \notin Ids(L) => Once(M)
  BY <1>6 DEF Once
<1> QED BY <1>3, <1>4, <1>5, <1>7

\* A tried transaction stays, fails or enters the ledger.
LEMMA TriedMoves ==
  ASSUME NEW id \in txns, NEW retry \in BOOLEAN, Shape(ledger), set \subseteq Tx,
         OnePlace, Tried(id, retry), set' = set
  PROVE  Shape(ledger') /\ OnePlace'
<1> DEFINE r == EngineApply(ledger, id, retry)
<1>0. id \in Tx /\ id \notin Ids(ledger) /\ id \notin failed
  BY DEF OnePlace
<1>1. \/ /\ r.ter = "applied" /\ Shape(r.ledger)
         /\ \E c \in BOOLEAN : Grown(ledger, r.ledger, id, c)
      \/ r.ter # "applied" /\ r.ledger = ledger
  BY <1>0, EngineEffect
<1>2. CASE r.ter = "applied" /\ Shape(r.ledger)
           /\ \E c \in BOOLEAN : Grown(ledger, r.ledger, id, c)
  <2>1. ledger' = r.ledger /\ failed' = failed /\ txns' = txns \ {id}
    BY <1>2 DEF Tried, Verdict
  <2>2. Ids(r.ledger) = Ids(ledger) \cup {id} /\ Once(r.ledger)
    BY SMTT(60), <1>0, <1>2, AppendIds DEF Grown, OnePlace
  <2>3. Ids(ledger)' = Ids(ledger) \cup {id} /\ Once(ledger)'
    BY Zenon, <2>1, <2>2 DEF Ids, Once
  <2> QED BY <1>0, <1>2, <2>1, <2>3 DEF OnePlace
<1>3. CASE r.ter # "applied" /\ r.ledger = ledger
  <2>1. /\ ledger' = ledger
        /\ \/ failed' = failed /\ txns' = txns
           \/ failed' = failed \cup {id} /\ txns' = txns \ {id}
    BY <1>3 DEF Tried, Verdict
  <2> QED BY <1>0, <2>1 DEF OnePlace, Ids, Once
<1> QED BY <1>1, <1>2, <1>3

\* A prior ledger is a ledger without transactions.
LEMMA PriorShape ==
  ASSUME NEW L \in PriorLedgers
  PROVE  Shape(L) /\ L.txs = <<>>
<1>1. L \in Ledgers /\ L.txs = <<>>
  BY PriorAssumption
<1> QED BY <1>1 DEF Ledgers, Shape, Fields, Entries

\* A sequence of Injection(1 .. Cardinality(S), S) has every element of S once.
LEMMA SetSeqs ==
  ASSUME NEW S, IsFiniteSet(S), NEW s \in Injection(1 .. Cardinality(S), S)
  PROVE  s \in Seq(S) /\ IsInjective(s) /\ {s[i] : i \in DOMAIN s} = S
<1> DEFINE n == Cardinality(S)
<1>2. n \in Nat
  BY FS_CardinalityType
<1>3. IsFiniteSet(1 .. n) /\ Cardinality(1 .. n) = n
  BY <1>2, FS_Interval
<1>4. s \in [1 .. n -> S] /\ \A i, j \in 1 .. n : i # j => s[i] # s[j]
  BY DEF Injection, IsInjective
<1> HIDE DEF n
<1>5. s \in Injection(1 .. n, S)
  BY <1>4 DEF Injection, IsInjective
<1>6. s \in Surjection(1 .. n, S)
  <2>1. Cardinality(1 .. n) = Cardinality(S) <=> s \in Surjection(1 .. n, S)
    BY <1>5, FS_Injection
  <2> QED BY <1>3, <2>1 DEF n
<1>7. {s[i] : i \in DOMAIN s} = S
  BY <1>4, <1>6 DEF Surjection
<1>8. s \in Seq(S)
  BY <1>2, <1>4
<1> QED BY <1>5, <1>7, <1>8 DEF Injection

\* The invariant of the places holds at first.
LEMMA InitDisp == Init => DispInv
<1> SUFFICES ASSUME Init PROVE DispInv
  OBVIOUS
<1>1. Shape(ledger) /\ ledger.txs = <<>>
  BY PriorShape DEF Init
<1>2. Ids(ledger) = {} /\ Once(ledger)
  BY <1>1 DEF Ids, Once
<1>3. set \in SUBSET Tx /\ hashOrder \in Injection(1 .. Cardinality(set), set)
  BY DEF Init
<1>4. todo \in Seq(set) /\ IsInjective(todo) /\ Rest = set
  BY <1>3, SetSeqs, TxAssumption, FS_Subset DEF Init, Rest
<1>5. OnePlace
  BY <1>2 DEF Init, OnePlace
<1>6. FirstPassInv
  BY <1>4 DEF Init, FirstPassInv
<1> QED BY <1>1, <1>3, <1>5, <1>6 DEF Init, DispInv

\* The first pass takes the head of what it has not reached.
LEMMA NextTodo ==
  ASSUME FirstPassInv, todo # <<>>, todo' = Tail(todo)
  PROVE  /\ Head(todo) \in Rest /\ todo' \in Seq(set)
         /\ IsInjective(todo') /\ Rest' = Rest \ {Head(todo)}
<1> DEFINE n == Len(todo)
<1>1. todo \in Seq(set) /\ n \in Nat \ {0} /\ DOMAIN todo = 1 .. n
  BY DEF FirstPassInv
<1>2. Head(todo) = todo[1] /\ todo' \in Seq(set) /\ DOMAIN todo' = 1 .. n - 1
      /\ \A i \in 1 .. n - 1 : todo'[i] = todo[i + 1]
  BY <1>1
<1> HIDE DEF n
<1>3. \A i, j \in 1 .. n : todo[i] = todo[j] => i = j
  BY <1>1 DEF FirstPassInv, IsInjective
<1>4. Head(todo) \in Rest
  BY <1>1, <1>2 DEF Rest
<1>5. IsInjective(todo')
  <2> SUFFICES ASSUME NEW i \in 1 .. n - 1, NEW j \in 1 .. n - 1, todo'[i] = todo'[j]
               PROVE  i = j
    BY Zenon, <1>2 DEF IsInjective
  <2> QED BY <1>1, <1>2, <1>3
<1>6. Rest' \subseteq Rest \ {Head(todo)}
  BY <1>1, <1>2, <1>3 DEF Rest
<1>7. ASSUME NEW x \in Rest, x # Head(todo) PROVE x \in Rest'
  <2>1. PICK i \in 1 .. n : x = todo[i]
    BY <1>1 DEF Rest
  <2>2. i # 1 /\ i - 1 \in 1 .. n - 1 /\ i = (i - 1) + 1
    BY <1>1, <1>2, <1>7, <2>1
  <2>3. x = todo'[i - 1]
    BY Zenon, <1>2, <2>1, <2>2
  <2> QED BY Zenon, <1>2, <2>2, <2>3 DEF Rest
<1> QED BY <1>2, <1>4, <1>5, <1>6, <1>7

\* Each step keeps the invariant of the places.
LEMMA NextDisp == DispInv /\ [Next]_vars => DispInv'
<1> SUFFICES ASSUME DispInv, [Next]_vars PROVE DispInv'
  OBVIOUS
<1>1. CASE FirstPass
  <2> DEFINE id == Head(todo)
  <2>1. pass = -1 /\ FirstPassInv /\ todo # <<>> /\ todo' = Tail(todo)
    BY <1>1 DEF FirstPass, DispInv
  <2>2. /\ id \in Rest /\ todo' \in Seq(set)
        /\ IsInjective(todo') /\ Rest' = Rest \ {id}
    BY <2>1, NextTodo
  <2>3. /\ set' = set /\ pass' = pass /\ certainRetry' = certainRetry
        /\ Tried(id, TRUE)
        /\ \/ retriable' = retriable \cup {id} /\ txns' = txns
           \/ retriable' = retriable /\ txns' = txns \ {id}
    BY Zenon, <1>1 DEF FirstPass, Tried, inputs
  <2>4. id \in txns
    BY <2>1, <2>2 DEF FirstPassInv
  <2>5. Shape(ledger') /\ OnePlace'
    BY Zenon, <2>3, <2>4, TriedMoves DEF DispInv
  <2>6. FirstPassInv'
    BY <2>1, <2>2, <2>3 DEF FirstPassInv
  <2> QED BY <2>1, <2>3, <2>5, <2>6 DEF DispInv
<1>2. CASE EndFirstPass
  <2>1. /\ pass = -1 /\ todo = <<>> /\ pass' = 0
        /\ UNCHANGED <<set, ledger, txns, retriable, failed, certainRetry>>
    BY <1>2 DEF EndFirstPass, inputs
  <2>2. txns' = retriable'
    <3>1. Rest = {}
      BY <2>1 DEF Rest
    <3> QED BY <2>1, <3>1 DEF DispInv, FirstPassInv
  <2>3. Shape(ledger') /\ OnePlace'
    BY <2>1 DEF DispInv, OnePlace, Ids, Once
  <2> QED BY <2>1, <2>2, <2>3 DEF DispInv
<1>3. CASE LoopPass
  <2> DEFINE id == Head(todo)
  <2>1. /\ set' = set /\ pass' = pass /\ certainRetry' = certainRetry
        /\ pass # -1 /\ certainRetry \in BOOLEAN /\ txns = retriable
    BY SMTT(60), <1>3 DEF LoopPass, inputs, DispInv
  <2>2. CASE id \in txns
    <3>1. /\ Tried(id, certainRetry)
          /\ \/ retriable' = retriable /\ txns' = txns
             \/ retriable' = retriable \ {id} /\ txns' = txns \ {id}
      BY <1>3, <2>2 DEF LoopPass, Tried
    <3>2. Shape(ledger') /\ OnePlace'
      BY <2>1, <2>2, <3>1, TriedMoves DEF DispInv
    <3> QED BY <2>1, <3>1, <3>2 DEF DispInv
  <2>3. CASE id \notin txns
    <3>1. UNCHANGED <<ledger, txns, retriable, failed>>
      BY <1>3, <2>3 DEF LoopPass
    <3>2. Shape(ledger') /\ OnePlace'
      BY <2>1, <3>1 DEF DispInv, OnePlace, Ids, Once
    <3> QED BY <2>1, <3>1, <3>2 DEF DispInv
  <2> QED BY <2>2, <2>3
<1>4. CASE EndPass
  <2>1. UNCHANGED <<set, ledger, txns, retriable, failed>>
    BY <1>4 DEF EndPass, inputs
  <2>2. pass \in Nat /\ pass' \in Nat
    BY <1>4 DEF EndPass, DispInv
  <2>3. certainRetry' \in BOOLEAN
    <3>1. \/ certainRetry' = certainRetry
          \/ certainRetry' = (certainRetry /\ changes # 0 /\ pass < LEDGER_RETRY_PASSES)
      BY <1>4, Zenon DEF EndPass
    <3> QED BY <3>1, Zenon DEF DispInv
  <2>4. Shape(ledger') /\ OnePlace'
    BY <2>1 DEF DispInv, OnePlace, Ids, Once
  <2> QED BY <2>1, <2>2, <2>3, <2>4 DEF DispInv
<1>5. CASE UNCHANGED vars
  BY SMTT(60), <1>5 DEF vars, inputs, DispInv, OnePlace, FirstPassInv, Ids, Once, Rest, Shape
<1> QED BY <1>1, <1>2, <1>3, <1>4, <1>5 DEF Next

\* Disposition follows from the invariant.
LEMMA DispImplies == DispInv => Disposition
<1> SUFFICES ASSUME DispInv PROVE Disposition
  OBVIOUS
<1>1. Applied = Ids(ledger)
  BY DEF Applied, Ids
<1>2. pass >= 0 => txns = retriable
  BY DEF DispInv
<1> QED BY <1>1, <1>2 DEF DispInv, OnePlace, Once, Disposition

\* Whatever the passes do, a transaction of the round's set is in exactly one
\* of the new ledger (once), failedTransactions and those still to be applied,
\* and the loop leaves the last in retriableTransactions.
THEOREM DispositionHolds == Spec => []Disposition
<1>1. Spec => []DispInv
  BY InitDisp, NextDisp, PTL DEF Spec
<1> QED BY <1>1, DispImplies, PTL

-----------------------------------------------------------------------------
(* SequenceOrder. *)

By(L, i) == Body[L.txs[i].id].account
SeqAt(L, i) == Body[L.txs[i].id].seq
ClosesIn(L, i) == Body[L.txs[i].id].type = "merge" /\ ~L.txs[i].claimed

\* SequenceOrder of ledger L on prior ledger P, for its j-th transaction.
InOrder(L, P, j) ==
  /\ (\A i \in 1 .. j - 1 : By(L, i) # By(L, j)) =>
       SeqAt(L, j) = IF P.seq[By(L, j)] # 0 THEN P.seq[By(L, j)] ELSE 1
  /\ \A i \in 1 .. j - 1 :
       (By(L, i) = By(L, j) /\ \A k \in i + 1 .. j - 1 : By(L, k) # By(L, j)) =>
         SeqAt(L, j) = IF ClosesIn(L, i) THEN 1 ELSE SeqAt(L, i) + 1

\* The sequence number that the transactions in L leave account a with: that
\* of the prior ledger, or one more than the last one's.  Where there is no
\* account, another transaction may create it.
Left(L, P, a) ==
  /\ (\A i \in DOMAIN L.txs : By(L, i) # a) =>
       L.seq[a] = P.seq[a] \/ (P.seq[a] = 0 /\ L.seq[a] = 1)
  /\ \A i \in DOMAIN L.txs :
       (By(L, i) = a /\ \A k \in DOMAIN L.txs : k > i => By(L, k) # a) =>
         \/ ClosesIn(L, i) /\ L.seq[a] \in {0, 1}
         \/ ~ClosesIn(L, i) /\ L.seq[a] = SeqAt(L, i) + 1

SeqInv(L, P) ==
  /\ \A a \in Accounts : Left(L, P, a)
  /\ \A j \in DOMAIN L.txs : InOrder(L, P, j)

\* A transaction added to the ledger continues the order.
LEMMA GrownInOrder ==
  ASSUME NEW L, Shape(L), NEW M, Shape(M), NEW P, Shape(P), NEW id \in Tx,
         NEW c \in BOOLEAN, Grown(L, M, id, c), SeqInv(L, P)
  PROVE  SeqInv(M, P)
<1> DEFINE n == Len(L.txs)
           e == [id |-> id, claimed |-> c]
           t == Body[id]
<1>1. n \in Nat /\ DOMAIN L.txs = 1 .. n /\ DOMAIN M.txs = 1 .. n + 1
      /\ M.txs[n + 1] = e /\ \A i \in 1 .. n : M.txs[i] = L.txs[i]
  <2>1. L.txs \in Seq(Entries) /\ e \in Entries
    BY DEF Shape, Entries
  <2> QED BY SMTT(60), <2>1 DEF Grown
<1>2. e.id = id /\ e.claimed = c
  OBVIOUS
<1>3. t \in Bodies
  BY BodyAssumption
<1>4. t.account \in Accounts /\ t.seq \in Nat /\ t.seq # 0
  BY <1>3 DEF Bodies
<1>5. \A i \in 1 .. n : By(M, i) = By(L, i) /\ SeqAt(M, i) = SeqAt(L, i)
                        /\ (ClosesIn(M, i) <=> ClosesIn(L, i))
  BY <1>1 DEF By, SeqAt, ClosesIn
<1>6. By(M, n + 1) = t.account /\ SeqAt(M, n + 1) = t.seq
      /\ (ClosesIn(M, n + 1) <=> (t.type = "merge" /\ ~c))
  BY <1>1, <1>2 DEF By, SeqAt, ClosesIn
<1>7. /\ L.seq[t.account] = t.seq
      /\ M.seq[t.account] = IF t.type = "merge" /\ ~c THEN 0 ELSE t.seq + 1
      /\ \A a \in Accounts \ {t.account} :
           M.seq[a] = L.seq[a] \/ (L.seq[a] = 0 /\ M.seq[a] = 1)
  BY DEF Grown, Advanced
<1>8. \A i \in 1 .. n : SeqAt(L, i) \in Nat /\ SeqAt(L, i) # 0
  <2> SUFFICES ASSUME NEW i \in 1 .. n PROVE SeqAt(L, i) \in Nat /\ SeqAt(L, i) # 0
    OBVIOUS
  <2>1. L.txs[i] \in Entries
    BY SMTT(60), <1>1 DEF Shape
  <2>2. Body[L.txs[i].id] \in Bodies
    BY <2>1, BodyAssumption DEF Entries
  <2> QED BY <2>2 DEF SeqAt, Bodies
<1>n. \A a \in Accounts : L.seq[a] \in Nat /\ P.seq[a] \in Nat
  BY DEF Shape
<1>a. n \in Nat
  BY <1>1
<1> HIDE DEF n, e, t
<1>9. ASSUME NEW j \in 1 .. n PROVE InOrder(M, P, j)
  <2>1. InOrder(L, P, j)
    BY <1>1 DEF SeqInv
  <2>2. \A i \in 1 .. j - 1 : i \in 1 .. n /\ \A k \in i + 1 .. j - 1 : k \in 1 .. n
    BY SMTT(60), <1>a
  <2>3. (\A i \in 1 .. j - 1 : By(M, i) # By(M, j)) =>
          SeqAt(M, j) = IF P.seq[By(M, j)] # 0 THEN P.seq[By(M, j)] ELSE 1
    BY <1>5, <2>1, <2>2 DEF InOrder
  <2>4. ASSUME NEW i \in 1 .. j - 1, By(M, i) = By(M, j),
               \A k \in i + 1 .. j - 1 : By(M, k) # By(M, j)
        PROVE  SeqAt(M, j) = IF ClosesIn(M, i) THEN 1 ELSE SeqAt(M, i) + 1
    <3>1. By(L, i) = By(L, j) /\ \A k \in i + 1 .. j - 1 : By(L, k) # By(L, j)
      BY <1>5, <2>2, <2>4
    <3>2. SeqAt(L, j) = IF ClosesIn(L, i) THEN 1 ELSE SeqAt(L, i) + 1
      BY <2>1, <3>1 DEF InOrder
    <3> QED BY <1>5, <2>2, <3>2
  <2> QED BY <2>3, <2>4 DEF InOrder
<1>10. InOrder(M, P, n + 1)
  <2> DEFINE a == t.account
  <2>1. Left(L, P, a)
    BY <1>4 DEF SeqInv
  <2>2. ASSUME \A i \in 1 .. n : By(M, i) # a
        PROVE  t.seq = IF P.seq[a] # 0 THEN P.seq[a] ELSE 1
    <3>1. L.seq[a] = P.seq[a] \/ (P.seq[a] = 0 /\ L.seq[a] = 1)
      BY <1>1, <1>5, <2>1, <2>2 DEF Left
    <3> QED BY <1>4, <1>7, <3>1
  <2>3. ASSUME NEW i \in 1 .. n, By(M, i) = a, \A k \in i + 1 .. n : By(M, k) # a
        PROVE  t.seq = IF ClosesIn(M, i) THEN 1 ELSE SeqAt(M, i) + 1
    <3>1. By(L, i) = a /\ \A k \in DOMAIN L.txs : k > i => By(L, k) # a
      <4>1. \A k \in 1 .. n : k > i => k \in i + 1 .. n
        BY <1>a
      <4>2. \A k \in 1 .. n : k > i => By(L, k) # a
        BY <1>5, <2>3, <4>1
      <4> QED BY <1>1, <1>5, <2>3, <4>2
    <3>2. \/ ClosesIn(L, i) /\ L.seq[a] \in {0, 1}
          \/ ~ClosesIn(L, i) /\ L.seq[a] = SeqAt(L, i) + 1
      BY <1>1, <2>1, <3>1 DEF Left
    <3> QED BY <1>4, <1>5, <1>7, <3>2
  <2>4. (n + 1) - 1 = n
    BY <1>a
  <2> QED BY <1>6, <2>2, <2>3, <2>4 DEF InOrder
<1>11. ASSUME NEW a \in Accounts, a # t.account PROVE Left(M, P, a)
  <2>1. Left(L, P, a)
    BY DEF SeqInv
  <2>2. M.seq[a] = L.seq[a] \/ (L.seq[a] = 0 /\ M.seq[a] = 1)
    BY <1>7, <1>11
  <2>3. ASSUME \A i \in 1 .. n + 1 : By(M, i) # a
        PROVE  M.seq[a] = P.seq[a] \/ (P.seq[a] = 0 /\ M.seq[a] = 1)
    <3>1. L.seq[a] = P.seq[a] \/ (P.seq[a] = 0 /\ L.seq[a] = 1)
      <4>1. \A i \in 1 .. n : i \in 1 .. n + 1
        BY <1>a
      <4>2. \A i \in DOMAIN L.txs : By(L, i) # a
        BY <1>1, <1>5, <2>3, <4>1
      <4> QED BY <2>1, <4>2 DEF Left
    <3> QED BY <2>2, <3>1
  <2>4. ASSUME NEW i \in 1 .. n + 1, By(M, i) = a,
               \A k \in 1 .. n + 1 : k > i => By(M, k) # a
        PROVE  \/ ClosesIn(M, i) /\ M.seq[a] \in {0, 1}
               \/ ~ClosesIn(M, i) /\ M.seq[a] = SeqAt(M, i) + 1
    <3>1. i \in 1 .. n
      <4>1. i # n + 1
        BY <1>6, <1>11, <2>4
      <4> QED BY <1>a, <4>1
    <3>2. By(L, i) = a /\ \A k \in 1 .. n : k > i => By(L, k) # a
      <4>1. \A k \in 1 .. n : k \in 1 .. n + 1
        BY <1>a
      <4> QED BY <1>5, <2>4, <3>1, <4>1
    <3>3. \/ ClosesIn(L, i) /\ L.seq[a] \in {0, 1}
          \/ ~ClosesIn(L, i) /\ L.seq[a] = SeqAt(L, i) + 1
      BY <1>1, <2>1, <3>1, <3>2 DEF Left
    <3>4. CASE ClosesIn(L, i) /\ L.seq[a] \in {0, 1}
      BY <1>5, <2>2, <3>1, <3>4
    <3>5. CASE ~ClosesIn(L, i) /\ L.seq[a] = SeqAt(L, i) + 1
      <4>1. SeqAt(L, i) \in Nat /\ SeqAt(L, i) # 0
        BY <1>8, <3>1
      <4>2. L.seq[a] # 0
        BY <3>5, <4>1
      <4>3. M.seq[a] = L.seq[a]
        BY <2>2, <4>2
      <4> QED BY <1>5, <3>1, <3>5, <4>3
    <3> QED BY <3>3, <3>4, <3>5
  <2> QED BY <1>1, <2>3, <2>4 DEF Left
<1>12. Left(M, P, t.account)
  <2>1. \A i \in 1 .. n : n + 1 > i
    BY <1>a
  <2>2. \/ ClosesIn(M, n + 1) /\ M.seq[t.account] \in {0, 1}
        \/ ~ClosesIn(M, n + 1) /\ M.seq[t.account] = SeqAt(M, n + 1) + 1
    BY <1>6, <1>7
  <2>3. n + 1 \in 1 .. n + 1 /\ DOMAIN M.txs = 1 .. n + 1
    BY <1>a, <1>1
  <2>4. ASSUME NEW i \in 1 .. n + 1,
               \A k \in 1 .. n + 1 : k > i => By(M, k) # t.account
        PROVE  i = n + 1
    <3>1. ~(n + 1 > i)
      BY <1>6, <2>3, <2>4
    <3> QED BY <1>a, <3>1
  <2> QED BY <1>1, <1>6, <2>2, <2>3, <2>4 DEF Left
<1>13. \A j \in 1 .. n + 1 : InOrder(M, P, j)
  <2>1. \A j \in 1 .. n + 1 : j \in 1 .. n \/ j = n + 1
    BY <1>a
  <2> QED BY <1>9, <1>10, <2>1
<1> QED BY <1>1, <1>11, <1>12, <1>13 DEF SeqInv

OrderInv == prior \in PriorLedgers /\ SeqInv(ledger, prior)

\* A tried transaction keeps the order.
LEMMA TriedInOrder ==
  ASSUME NEW id \in Tx, NEW retry \in BOOLEAN, Shape(ledger), OrderInv,
         ledger' = EngineApply(ledger, id, retry).ledger, prior' = prior
  PROVE  OrderInv'
<1> DEFINE r == EngineApply(ledger, id, retry)
<1>1. \/ /\ r.ter = "applied" /\ Shape(r.ledger)
         /\ \E c \in BOOLEAN : Grown(ledger, r.ledger, id, c)
      \/ r.ter # "applied" /\ r.ledger = ledger
  BY EngineEffect
<1>2. Shape(prior)
  BY PriorShape DEF OrderInv
<1>3. SeqInv(r.ledger, prior)
  BY SMTT(60), <1>1, <1>2, GrownInOrder DEF OrderInv
<1>4. SeqInv(ledger', prior')
  BY <1>3
<1> QED BY <1>4 DEF OrderInv

\* The invariant of the order holds at first.
LEMMA InitOrder == Init => OrderInv
<1> SUFFICES ASSUME Init PROVE OrderInv
  OBVIOUS
<1>1. ledger.txs = <<>> /\ ledger = prior /\ prior \in PriorLedgers
  BY PriorShape DEF Init
<1>2. DOMAIN ledger.txs = {}
  BY <1>1
<1> QED BY <1>1, <1>2 DEF OrderInv, SeqInv, Left

\* Each step keeps the invariant of the order.
LEMMA NextOrder == DispInv /\ OrderInv /\ [Next]_vars => OrderInv'
<1> SUFFICES ASSUME DispInv, OrderInv, [Next]_vars PROVE OrderInv'
  OBVIOUS
<1>0. ASSUME ledger' = ledger, prior' = prior PROVE OrderInv'
  BY <1>0 DEF OrderInv
<1>1. CASE FirstPass
  <2>1. pass = -1 /\ todo # <<>> /\ prior' = prior
        /\ ledger' = EngineApply(ledger, Head(todo), TRUE).ledger
    BY <1>1 DEF FirstPass, inputs
  <2>2. Head(todo) \in Tx /\ Shape(ledger)
    <3>1. todo \in Seq(set) /\ set \subseteq Tx /\ Shape(ledger)
      BY <2>1 DEF DispInv, FirstPassInv
    <3>2. Head(todo) \in set
      BY <2>1, <3>1
    <3> QED BY <3>1, <3>2
  <2> QED BY Zenon, <2>1, <2>2, TriedInOrder
<1>2. CASE EndFirstPass
  BY <1>0, <1>2 DEF EndFirstPass, inputs
<1>3. CASE LoopPass
  <2>1. CASE Head(todo) \in txns
    <3>1. /\ prior' = prior
          /\ ledger' = EngineApply(ledger, Head(todo), certainRetry).ledger
      BY <1>3, <2>1 DEF LoopPass, inputs
    <3>2. Head(todo) \in Tx /\ certainRetry \in BOOLEAN /\ Shape(ledger)
      BY <2>1 DEF DispInv, OnePlace
    <3> QED BY <3>1, <3>2, TriedInOrder
  <2>2. CASE Head(todo) \notin txns
    BY <1>0, <1>3, <2>2 DEF LoopPass, inputs
  <2> QED BY <2>1, <2>2
<1>4. CASE EndPass
  BY <1>0, <1>4 DEF EndPass, inputs
<1>5. CASE UNCHANGED vars
  BY <1>0, <1>5 DEF vars, inputs
<1> QED BY <1>1, <1>2, <1>3, <1>4, <1>5 DEF Next

\* SequenceOrder follows from the invariant.
LEMMA OrderImplies == OrderInv => SequenceOrder
  BY Zenon DEF OrderInv, SeqInv, InOrder, SequenceOrder, SameAccount, Follows, Closes,
         ClosesIn, By, SeqAt, Exists

\* However the hashes order the set and whatever is retried, the transactions
\* of an account are in the closed ledger in sequence and without gaps, from
\* its sequence number in the prior ledger on; created accounts start at 1.
THEOREM SequenceOrderHolds == Spec => []SequenceOrder
<1>1. Spec => [](DispInv /\ OrderInv)
  BY InitDisp, NextDisp, InitOrder, NextOrder, PTL DEF Spec
<1> QED BY <1>1, OrderImplies, PTL

-----------------------------------------------------------------------------
(* Sums over finite sets. *)

\* The element that the fold takes out first.
Chosen(s) == CHOOSE x \in s : TRUE

SumBody(g, f, s) == IF s = {} THEN 0 ELSE f[Chosen(s)] + g[s \ {Chosen(s)}]

\* g is the sum of f over each set of D.
SumsOver(g, f, D) == g = [s \in D |-> SumBody(g, f, s)]

Sums(f, S) == CHOOSE g : SumsOver(g, f, SUBSET S)

\* The sum of f over S, as the module of folds defines it.
LEMMA SumUnfold ==
  ASSUME NEW f, NEW S
  PROVE  SumFunctionOnSet(f, S) = Sums(f, S)[S]
  BY Zenon DEF SumFunctionOnSet, FoldFunctionOnSet, MapThenFoldSet, Sums, SumsOver, SumBody, Chosen

\* A set of naturals that is not empty has a least element.
LEMMA Least ==
  ASSUME NEW B, B \subseteq Nat, B # {}
  PROVE  \E m \in B : \A k \in B : m <= k
<1> DEFINE R == OpToRel(<, Nat)
<1>1. IsWellFoundedOn(R, Nat)
  BY Zenon, NatLessThanWellFounded
<1>2. PICK m \in B : \A k \in B : ~(<<k, m>> \in R)
  <2> HIDE DEF R
  <2> QED BY Zenon, <1>1, WFMin
<1>3. \A k \in B : m <= k
  <2> TAKE k \in B
  <2>1. k \in Nat /\ m \in Nat /\ <<k, m>> \in Nat \X Nat
    OBVIOUS
  <2>2. ~(k < m)
    BY <2>1, <1>2 DEF OpToRel
  <2> QED BY <2>1, <2>2
<1> QED BY <1>3

\* Induction over the subsets of a finite set: if some are bad, one of them is
\* bad and no smaller one is.
LEMMA SmallestSubset ==
  ASSUME NEW S, IsFiniteSet(S), NEW B, B \subseteq SUBSET S, B # {}
  PROVE  \E s \in B : \A t \in SUBSET S : Cardinality(t) < Cardinality(s) => t \notin B
<1> DEFINE C == {Cardinality(s) : s \in B}
<1>1. \A s \in SUBSET S : Cardinality(s) \in Nat
  BY FS_Subset, FS_CardinalityType
<1>2. C \subseteq Nat /\ C # {}
  BY <1>1
<1>3. PICK m \in C : \A k \in C : m <= k
  BY Zenon, <1>2, Least
<1>4. PICK s \in B : Cardinality(s) = m
  OBVIOUS
<1>5. ASSUME NEW t \in SUBSET S, Cardinality(t) < Cardinality(s), t \in B PROVE FALSE
  <2>1. Cardinality(t) \in C
    BY <1>5
  <2>2. m <= Cardinality(t)
    BY <2>1, <1>3
  <2> QED BY <2>2, <1>4, <1>5, <1>1
<1> QED BY <1>4, <1>5

\* A subset without one of its elements is a smaller one.
LEMMA Smaller ==
  ASSUME NEW S, IsFiniteSet(S), NEW s \in SUBSET S, NEW x \in s
  PROVE  /\ s \ {x} \in SUBSET S
         /\ Cardinality(s \ {x}) = Cardinality(s) - 1
         /\ Cardinality(s) \in Nat
         /\ Cardinality(s) # 0
         /\ Cardinality(s \ {x}) \in Nat
<1>1. IsFiniteSet(s)
  BY FS_Subset
<1> QED BY <1>1, FS_RemoveElement, FS_CardinalityType, FS_EmptySet

\* The chosen element is one of the set.
LEMMA ChosenIn ==
  ASSUME NEW s, s # {} PROVE Chosen(s) \in s
  BY DEF Chosen

\* The function that the sum is defined by exists, level by level.
LEMMA SumsExist ==
  ASSUME NEW f, NEW S, IsFiniteSet(S)
  PROVE  \E g : SumsOver(g, f, SUBSET S)
<1> DEFINE Up(n) == {s \in SUBSET S : Cardinality(s) <= n}
           Bad == {n \in Nat : ~\E h : SumsOver(h, f, Up(n))}
<1>1. \A s \in SUBSET S : Cardinality(s) \in Nat
  BY FS_Subset, FS_CardinalityType
<1>2. Bad = {}
  <2> SUFFICES ASSUME Bad # {} PROVE FALSE
    OBVIOUS
  <2>1. PICK m \in Bad : \A k \in Bad : m <= k
    <3>1. Bad \subseteq Nat
      OBVIOUS
    <3> HIDE DEF Bad
    <3> QED BY Zenon, <3>1, Least
  <2>2. m \in Nat
    OBVIOUS
  <2>3. CASE m = 0
    <3> DEFINE h == [s \in Up(0) |-> 0]
    <3>1. \A s \in Up(0) : s = {}
      <4> TAKE s \in Up(0)
      <4>1. IsFiniteSet(s) /\ Cardinality(s) \in Nat /\ Cardinality(s) <= 0
        BY <1>1, FS_Subset
      <4> QED BY <4>1, FS_EmptySet
    <3>2. \A s \in Up(0) : SumBody(h, f, s) = 0
      BY <3>1 DEF SumBody
    <3>3. SumsOver(h, f, Up(0))
      <4> HIDE DEF Up
      <4> QED BY <3>2 DEF SumsOver
    <3> QED BY Zenon, <3>3, <2>3
  <2>4. CASE m # 0
    <3>1. m - 1 \in Nat /\ m - 1 \notin Bad
      <4>1. m - 1 \in Nat
        BY <2>2, <2>4
      <4>2. ~(m <= m - 1)
        BY <2>2
      <4> HIDE DEF Bad
      <4> QED BY <4>1, <4>2, <2>1
    <3>2. PICK h : SumsOver(h, f, Up(m - 1))
      BY Zenon, <3>1
    <3> DEFINE k == [s \in Up(m) |-> SumBody(h, f, s)]
    <3>3. ASSUME NEW s \in Up(m) PROVE SumBody(k, f, s) = SumBody(h, f, s)
      <4>1. CASE s = {}
        BY <4>1 DEF SumBody
      <4>2. CASE s # {}
        <5> DEFINE r == s \ {Chosen(s)}
        <5>1. r \in Up(m - 1) /\ r \in Up(m)
          <6>1. r \in SUBSET S /\ Cardinality(r) = Cardinality(s) - 1 /\ Cardinality(s) \in Nat
            BY <4>2, ChosenIn, Smaller
          <6> QED BY <6>1, <2>2
        <5>2. h[r] = SumBody(h, f, r)
          <6> HIDE DEF Up, r
          <6> QED BY <3>2, <5>1 DEF SumsOver
        <5>3. k[r] = SumBody(h, f, r)
          <6> HIDE DEF Up, r
          <6> QED BY <5>1
        <5> HIDE DEF k
        <5> QED BY <4>2, <5>2, <5>3 DEF SumBody
      <4> QED BY <4>1, <4>2
    <3>4. SumsOver(k, f, Up(m))
      <4> HIDE DEF Up
      <4> QED BY <3>3 DEF SumsOver
    <3> QED BY Zenon, <3>4
  <2> QED BY <2>3, <2>4
<1>3. PICK h : SumsOver(h, f, Up(Cardinality(S)))
  <2>1. Cardinality(S) \in Nat
    BY <1>1
  <2> QED BY <1>2, <2>1
<1>4. Up(Cardinality(S)) = SUBSET S
  BY FS_Subset
<1> QED BY Zenon, <1>3, <1>4

\* So the sum over a set is that of a chosen element and of the rest.
LEMMA SumsStep ==
  ASSUME NEW f, NEW S, IsFiniteSet(S), NEW s \in SUBSET S
  PROVE  Sums(f, S)[s] = SumBody(Sums(f, S), f, s)
<1>1. SumsOver(Sums(f, S), f, SUBSET S)
  <2>1. \E g : SumsOver(g, f, SUBSET S)
    BY Zenon, SumsExist
  <2> QED BY <2>1, Zenon DEF Sums
<1> QED BY <1>1 DEF SumsOver

\* A sum of naturals is a natural.
LEMMA SumsType ==
  ASSUME NEW f, NEW S, IsFiniteSet(S), \A x \in S : f[x] \in Nat,
         NEW s \in SUBSET S
  PROVE  Sums(f, S)[s] \in Nat
<1> DEFINE Bad == {t \in SUBSET S : Sums(f, S)[t] \notin Nat}
<1> SUFFICES ASSUME Bad # {} PROVE FALSE
  OBVIOUS
<1>1. PICK t \in Bad : \A u \in SUBSET S : Cardinality(u) < Cardinality(t) => u \notin Bad
  <2>1. Bad \subseteq SUBSET S
    OBVIOUS
  <2> HIDE DEF Bad
  <2> QED BY <2>1, SmallestSubset
<1>2. Sums(f, S)[t] = SumBody(Sums(f, S), f, t)
  BY SumsStep
<1>3. t # {}
  BY <1>2 DEF SumBody
<1>4. /\ Chosen(t) \in t
      /\ t \ {Chosen(t)} \in SUBSET S
      /\ Cardinality(t \ {Chosen(t)}) < Cardinality(t)
  BY <1>3, ChosenIn, Smaller
<1>5. Sums(f, S)[t \ {Chosen(t)}] \in Nat
  BY <1>4, <1>1
<1> QED BY <1>2, <1>3, <1>4, <1>5 DEF SumBody

\* Which element is taken out first makes no difference.
LEMMA SumsRemove ==
  ASSUME NEW f, NEW S, IsFiniteSet(S), \A x \in S : f[x] \in Nat,
         NEW s \in SUBSET S, NEW x \in s
  PROVE  Sums(f, S)[s] = f[x] + Sums(f, S)[s \ {x}]
<1> DEFINE G(t) == Sums(f, S)[t]
           Bad == {t \in SUBSET S : \E y \in t : G(t) # f[y] + G(t \ {y})}
<1> SUFFICES ASSUME Bad # {} PROVE FALSE
  BY ZenonT(30)
<1>1. PICK t \in Bad : \A u \in SUBSET S : Cardinality(u) < Cardinality(t) => u \notin Bad
  <2>1. Bad \subseteq SUBSET S
    OBVIOUS
  <2> HIDE DEF Bad
  <2> QED BY <2>1, SmallestSubset
<1>2. PICK y \in t : G(t) # f[y] + G(t \ {y})
  OBVIOUS
<1> DEFINE c == Chosen(t)
<1>3. c \in t
  BY <1>2, ChosenIn
<1>4. G(t) = f[c] + G(t \ {c})
  BY <1>3, SumsStep DEF SumBody
<1>5. c # y
  BY Zenon, <1>2, <1>4
<1>6. /\ t \ {c} \in SUBSET S /\ Cardinality(t \ {c}) < Cardinality(t)
      /\ t \ {y} \in SUBSET S /\ Cardinality(t \ {y}) < Cardinality(t)
  <2> HIDE DEF c
  <2> QED BY <1>3, Smaller
<1>7. G(t \ {c}) = f[y] + G((t \ {c}) \ {y})
  <2>1. t \ {c} \notin Bad
    BY ONLY <1>6, <1>1
  <2>2. y \in t \ {c}
    BY ONLY <1>5, <1>2
  <2> HIDE DEF G
  <2> QED BY Zenon, <2>1, <2>2, <1>6
<1>8. G(t \ {y}) = f[c] + G((t \ {y}) \ {c})
  <2>1. t \ {y} \notin Bad
    BY ONLY <1>6, <1>1
  <2>2. c \in t \ {y}
    BY ONLY <1>5, <1>3
  <2> HIDE DEF G
  <2> QED BY Zenon, <2>1, <2>2, <1>6
<1>9. (t \ {c}) \ {y} = (t \ {y}) \ {c}
  OBVIOUS
<1>10. G((t \ {y}) \ {c}) \in Nat /\ f[c] \in Nat /\ f[y] \in Nat
  BY SumsType, <1>3
<1>11. G((t \ {c}) \ {y}) = G((t \ {y}) \ {c})
  BY ONLY Zenon, <1>9
<1> HIDE DEF G, c, Bad
<1> QED BY <1>2, <1>4, <1>7, <1>8, <1>10, <1>11

\* The sum of a pointwise sum.
LEMMA SumsAdd ==
  ASSUME NEW f, NEW g, NEW h, NEW S, IsFiniteSet(S),
         \A x \in S : f[x] \in Nat /\ g[x] \in Nat /\ h[x] = f[x] + g[x],
         NEW s \in SUBSET S
  PROVE  Sums(h, S)[s] = Sums(f, S)[s] + Sums(g, S)[s]
<1> DEFINE Bad == {t \in SUBSET S : Sums(h, S)[t] # Sums(f, S)[t] + Sums(g, S)[t]}
<1> SUFFICES ASSUME Bad # {} PROVE FALSE
  OBVIOUS
<1>1. PICK t \in Bad : \A u \in SUBSET S : Cardinality(u) < Cardinality(t) => u \notin Bad
  <2>1. Bad \subseteq SUBSET S
    OBVIOUS
  <2> HIDE DEF Bad
  <2> QED BY <2>1, SmallestSubset
<1>2. /\ Sums(f, S)[t] = SumBody(Sums(f, S), f, t)
      /\ Sums(g, S)[t] = SumBody(Sums(g, S), g, t)
      /\ Sums(h, S)[t] = SumBody(Sums(h, S), h, t)
  BY SumsStep
<1>3. t # {}
  BY <1>2 DEF SumBody
<1> DEFINE r == t \ {Chosen(t)}
<1>4. /\ Chosen(t) \in S
      /\ r \in SUBSET S
      /\ Cardinality(r) < Cardinality(t)
  BY <1>3, ChosenIn, Smaller
<1>5. Sums(h, S)[r] = Sums(f, S)[r] + Sums(g, S)[r]
  BY <1>4, <1>1
<1>6. Sums(f, S)[r] \in Nat /\ Sums(g, S)[r] \in Nat
  BY <1>4, SumsType
<1> QED BY <1>2, <1>3, <1>4, <1>5, <1>6 DEF SumBody

\* The sum depends on the values on the set alone.
LEMMA SumsSame ==
  ASSUME NEW f, NEW h, NEW S, IsFiniteSet(S), NEW s \in SUBSET S,
         \A x \in s : h[x] = f[x]
  PROVE  Sums(h, S)[s] = Sums(f, S)[s]
<1> DEFINE Bad == {t \in SUBSET S : t \subseteq s /\ Sums(h, S)[t] # Sums(f, S)[t]}
<1> SUFFICES ASSUME Bad # {} PROVE FALSE
  OBVIOUS
<1>1. PICK t \in Bad : \A u \in SUBSET S : Cardinality(u) < Cardinality(t) => u \notin Bad
  <2>1. Bad \subseteq SUBSET S
    OBVIOUS
  <2> HIDE DEF Bad
  <2> QED BY <2>1, SmallestSubset
<1>2. /\ Sums(f, S)[t] = SumBody(Sums(f, S), f, t)
      /\ Sums(h, S)[t] = SumBody(Sums(h, S), h, t)
  BY SumsStep
<1>3. t # {}
  BY <1>2 DEF SumBody
<1> DEFINE r == t \ {Chosen(t)}
<1>4. /\ Chosen(t) \in s
      /\ r \in SUBSET S /\ r \subseteq s
      /\ Cardinality(r) < Cardinality(t)
  BY <1>3, ChosenIn, Smaller
<1>5. Sums(h, S)[r] = Sums(f, S)[r]
  BY <1>4, <1>1
<1> QED BY <1>2, <1>3, <1>4, <1>5 DEF SumBody

\* A sum of naturals is a natural and at least each of them.
LEMMA SumOnSet ==
  ASSUME NEW f, NEW S, IsFiniteSet(S), \A x \in S : f[x] \in Nat
  PROVE  /\ SumFunctionOnSet(f, S) \in Nat
         /\ \A x \in S : f[x] <= SumFunctionOnSet(f, S)
<1>1. SumFunctionOnSet(f, S) = Sums(f, S)[S]
  BY SumUnfold
<1>2. Sums(f, S)[S] \in Nat
  BY SumsType
<1>3. ASSUME NEW x \in S PROVE f[x] <= Sums(f, S)[S]
  <2>1. Sums(f, S)[S] = f[x] + Sums(f, S)[S \ {x}]
    BY SumsRemove
  <2>2. Sums(f, S)[S \ {x}] \in Nat
    BY SumsType
  <2> QED BY <2>1, <2>2
<1> QED BY <1>1, <1>2, <1>3

\* The sum after one value has changed.
LEMMA SumExcept ==
  ASSUME NEW S, IsFiniteSet(S), NEW f \in [S -> Nat], NEW x \in S, NEW v \in Nat
  PROVE  SumFunction([f EXCEPT ![x] = v]) = SumFunction(f) - f[x] + v
<1> DEFINE h == [f EXCEPT ![x] = v]
<1>1. h \in [S -> Nat] /\ h[x] = v /\ \A y \in S \ {x} : h[y] = f[y]
  OBVIOUS
<1>2. SumFunction(f) = Sums(f, S)[S] /\ SumFunction(h) = Sums(h, S)[S]
  <2>1. DOMAIN f = S /\ DOMAIN h = S
    OBVIOUS
  <2> HIDE DEF h
  <2> QED BY <2>1, SumUnfold, Zenon DEF SumFunction
<1> HIDE DEF h
<1>3. Sums(f, S)[S] = f[x] + Sums(f, S)[S \ {x}]
  BY SumsRemove
<1>4. Sums(h, S)[S] = v + Sums(h, S)[S \ {x}]
  BY <1>1, SumsRemove
<1>5. Sums(h, S)[S \ {x}] = Sums(f, S)[S \ {x}]
  BY <1>1, SumsSame
<1>6. Sums(f, S)[S \ {x}] \in Nat /\ f[x] \in Nat
  BY SumsType
<1>7. SumFunction(h) = SumFunction(f) - f[x] + v
  BY <1>2, <1>3, <1>4, <1>5, <1>6
<1> QED BY <1>7 DEF h

\* The sum of all values of a pointwise sum.
LEMMA SumPlus ==
  ASSUME NEW S, IsFiniteSet(S), NEW f \in [S -> Nat], NEW g \in [S -> Nat]
  PROVE  SumFunction([x \in S |-> f[x] + g[x]]) = SumFunction(f) + SumFunction(g)
<1> DEFINE h == [x \in S |-> f[x] + g[x]]
<1>1. DOMAIN f = S /\ DOMAIN g = S /\ DOMAIN h = S
  OBVIOUS
<1>2. \A x \in S : f[x] \in Nat /\ g[x] \in Nat /\ h[x] = f[x] + g[x]
  OBVIOUS
<1> HIDE DEF h
<1>3. Sums(h, S)[S] = Sums(f, S)[S] + Sums(g, S)[S]
  BY <1>2, SumsAdd
<1>4. SumFunction(h) = SumFunction(f) + SumFunction(g)
  BY <1>1, <1>3, SumUnfold, Zenon DEF SumFunction
<1> QED BY <1>4 DEF h

\* The sum of all values of a function to the naturals.
LEMMA SumNat ==
  ASSUME NEW S, IsFiniteSet(S), NEW f \in [S -> Nat]
  PROVE  SumFunction(f) \in Nat /\ \A x \in S : f[x] <= SumFunction(f)
<1>1. DOMAIN f = S
  OBVIOUS
<1> QED BY <1>1, SumOnSet DEF SumFunction

-----------------------------------------------------------------------------
(* CoinsConserved. *)

\* A ledger whose coins are the sum of its balances.
Books(L) == L \in Ledgers /\ L.coins = SumFunction(L.bal)

\* M is what a transaction with body t makes of the books of L before the fee is
\* destroyed.
Moved(L, M, t) ==
  /\ M \in Ledgers /\ M.coins = SumFunction(M.bal) + t.fee
  /\ \A a \in Accounts \ {t.account} : M.bal[a] >= L.bal[a]

\* The fields of a ledger.
LEMMA LedgerFields ==
  ASSUME NEW L \in Ledgers
  PROVE  /\ DOMAIN L = Fields
         /\ L.bal \in [Accounts -> Nat] /\ L.seq \in [Accounts -> Nat] /\ L.coins \in Nat
         /\ L.feePool \in Nat /\ L.inflationSeq \in Nat /\ L.txs \in Seq(Entries)
         /\ Shape(L)
  BY DEF Ledgers, Fields, Entries, Shape

\* A record with the fields of a ledger is one.
LEMMA FieldsLedger ==
  ASSUME NEW L, DOMAIN L = Fields, L = [f \in Fields |-> L[f]],
         L.bal \in [Accounts -> Nat], L.seq \in [Accounts -> Nat], L.coins \in Nat,
         L.feePool \in Nat, L.inflationSeq \in Nat, L.txs \in Seq(Entries)
  PROVE  L \in Ledgers
<1>1. L = [bal |-> L.bal, seq |-> L.seq, coins |-> L.coins, feePool |-> L.feePool,
           inflationSeq |-> L.inflationSeq, txs |-> L.txs]
  BY DEF Fields
<1> HIDE DEF Ledgers
<1>2. [bal |-> L.bal, seq |-> L.seq, coins |-> L.coins, feePool |-> L.feePool,
           inflationSeq |-> L.inflationSeq, txs |-> L.txs] \in Ledgers
  BY Zenon DEF Ledgers, Entries
<1> QED BY <1>1, <1>2

\* The fee leaves the account's balance.
LEMMA ChargedBooks ==
  ASSUME NEW L, Books(L), NEW t \in Bodies, L.bal[t.account] >= t.fee
  PROVE  /\ Charged(L, t) \in Ledgers
         /\ Charged(L, t).bal = [L.bal EXCEPT ![t.account] = L.bal[t.account] - t.fee]
         /\ Charged(L, t).seq = [L.seq EXCEPT ![t.account] = t.seq + 1]
         /\ Charged(L, t).coins = L.coins /\ Charged(L, t).feePool = L.feePool
         /\ Charged(L, t).inflationSeq = L.inflationSeq /\ Charged(L, t).txs = L.txs
         /\ L.coins = SumFunction(Charged(L, t).bal) + t.fee
         /\ Moved(L, Charged(L, t), t)
<1> DEFINE C == Charged(L, t)
<1>1. /\ t.account \in Accounts /\ t.fee \in Nat /\ t.seq + 1 \in Nat
  BY DEF Bodies
<1>2. L \in Ledgers /\ L.coins = SumFunction(L.bal)
  BY DEF Books
<1>3. /\ DOMAIN L = Fields
      /\ L.bal \in [Accounts -> Nat] /\ L.seq \in [Accounts -> Nat]
  BY <1>2, LedgerFields
<1>4. L.bal[t.account] \in Nat /\ L.bal[t.account] - t.fee \in Nat
  BY <1>1, <1>3
<1>5. /\ C.bal = [L.bal EXCEPT ![t.account] = L.bal[t.account] - t.fee]
      /\ C.seq = [L.seq EXCEPT ![t.account] = t.seq + 1]
      /\ C.coins = L.coins /\ C.feePool = L.feePool
      /\ C.inflationSeq = L.inflationSeq /\ C.txs = L.txs
  BY <1>3 DEF Charged, Fields
<1>6. C.bal \in [Accounts -> Nat] /\ C.seq \in [Accounts -> Nat]
  BY <1>1, <1>3, <1>4, <1>5
<1>7. C \in Ledgers
  <2>1. DOMAIN C = Fields /\ C = [f \in Fields |-> C[f]]
    BY ZenonT(30), <1>3 DEF Charged
  <2>2. C.coins \in Nat /\ C.feePool \in Nat /\ C.inflationSeq \in Nat /\ C.txs \in Seq(Entries)
    BY Zenon, <1>2, <1>5, LedgerFields
  <2> HIDE DEF C
  <2> QED BY <1>6, <2>1, <2>2, FieldsLedger
<1>8. SumFunction(C.bal) = SumFunction(L.bal) - L.bal[t.account] + (L.bal[t.account] - t.fee)
  BY <1>1, <1>3, <1>4, <1>5, SumExcept, FiniteAssumption
<1>9. L.coins = SumFunction(C.bal) + t.fee
  <2>1. SumFunction(L.bal) \in Nat
    BY <1>3, SumNat, FiniteAssumption
  <2> QED BY <2>1, <1>1, <1>2, <1>4, <1>8
<1>10. \A a \in Accounts \ {t.account} : C.bal[a] >= L.bal[a]
  BY <1>1, <1>3, <1>5
<1> HIDE DEF C
<1>11. Moved(L, C, t)
  BY <1>5, <1>7, <1>9, <1>10 DEF Moved
<1> QED BY <1>5, <1>7, <1>9, <1>11 DEF C

\* A transaction that passes the checks can pay its fee, an inflation has none,
\* and an account is not merged into itself.
LEMMA CheckFee ==
  ASSUME NEW L \in Ledgers, NEW t \in Bodies, Check(L, t) = "tes"
  PROVE  /\ L.bal[t.account] >= t.fee
         /\ t.type = "merge" => t.dst # t.account
<1>1. PayFee(L, t) = "tes" /\ PrecheckAgainstLedger(L, t) = "tes"
  BY DEF Check
<1>2. ~(L.bal[t.account] < t.fee)
  BY <1>1 DEF PayFee
<1>3. L.bal[t.account] \in Nat /\ t.fee \in Nat
  BY DEF Ledgers, Bodies
<1>4. t.type = "merge" => t.dst # t.account
  BY Zenon, <1>1 DEF PrecheckAgainstLedger, PrecheckMerge
<1> QED BY <1>2, <1>3, <1>4

Shift(f, x, y, n) == [f EXCEPT ![x] = @ - n, ![y] = @ + n]

\* Moving n from one balance to another keeps the sum.
LEMMA Transfer ==
  ASSUME NEW f \in [Accounts -> Nat], NEW x \in Accounts, NEW y \in Accounts, x # y,
         NEW n \in Nat, n <= f[x]
  PROVE  /\ Shift(f, x, y, n) \in [Accounts -> Nat]
         /\ SumFunction(Shift(f, x, y, n)) = SumFunction(f)
         /\ \A a \in Accounts \ {x} : Shift(f, x, y, n)[a] >= f[a]
<1> DEFINE h == Shift(f, x, y, n)
           g == [f EXCEPT ![x] = f[x] - n]
<1>1. f[x] \in Nat /\ f[y] \in Nat /\ f[x] - n \in Nat /\ f[y] + n \in Nat
  OBVIOUS
<1>2. g \in [Accounts -> Nat] /\ g[y] = f[y]
  BY <1>1
<1>3. h = [g EXCEPT ![y] = f[y] + n]
  BY <1>1 DEF Shift
<1>4. SumFunction(g) = SumFunction(f) - f[x] + (f[x] - n)
  BY ZenonT(30), <1>1, SumExcept, FiniteAssumption
<1> HIDE DEF g, h
<1>5. SumFunction(h) = SumFunction(g) - g[y] + (f[y] + n)
  BY ONLY Zenon, <1>1, <1>2, <1>3, y \in Accounts, SumExcept, FiniteAssumption
<1>6. SumFunction(f) \in Nat
  BY SumNat, FiniteAssumption
<1>7. SumFunction(h) = SumFunction(f)
  BY <1>1, <1>2, <1>4, <1>5, <1>6
<1>8. h \in [Accounts -> Nat]
  BY <1>1, <1>2, <1>3
<1>9. \A a \in Accounts \ {x} : h[a] >= f[a]
  BY <1>1 DEF h, Shift
<1> QED BY <1>7, <1>8, <1>9 DEF h

\* A payment that succeeds moves its amount from balance to balance.
LEMMA PaymentBooks ==
  ASSUME NEW L, Books(L), NEW t \in Bodies, Check(L, t) = "tes",
         DoPayment(L, t).ter = "tes"
  PROVE  Moved(L, DoPayment(L, t).ledger, t)
<1> DEFINE C == Charged(L, t)
           M == [C EXCEPT
            !.bal = [C.bal EXCEPT ![t.account] = @ - t.amount,
                                  ![t.dst] = @ + t.amount],
            !.seq[t.dst] = IF @ = 0 THEN 1 ELSE @]
<1>0. L \in Ledgers
  BY DEF Books
<1>1. L.bal[t.account] >= t.fee
  BY <1>0, CheckFee
<1>2. /\ DoPayment(L, t).ledger = M /\ t.dst # t.account
      /\ ~(L.bal[t.account] < t.amount + Largest(Reserve, t.fee))
  BY DEF DoPayment, Outcome
<1>3. /\ t.account \in Accounts /\ t.fee \in Nat /\ t.dst \in Accounts /\ t.amount \in Nat
  BY DEF Bodies
<1>4. L.bal[t.account] \in Nat /\ t.amount <= L.bal[t.account] - t.fee
  <2>1. L.bal[t.account] \in Nat
    BY <1>0, <1>3, LedgerFields
  <2> QED BY <1>2, <1>3, <2>1, ReserveAssumption DEF Largest
<1>5. /\ C \in Ledgers
      /\ C.bal = [L.bal EXCEPT ![t.account] = L.bal[t.account] - t.fee]
      /\ C.coins = L.coins /\ L.coins = SumFunction(C.bal) + t.fee
      /\ \A a \in Accounts \ {t.account} : C.bal[a] >= L.bal[a]
  BY Zenon, <1>1, ChargedBooks DEF Moved
<1>6. DOMAIN C = Fields /\ C.bal \in [Accounts -> Nat] /\ C.seq \in [Accounts -> Nat]
  BY Zenon, <1>5, LedgerFields
<1> HIDE DEF C
<1>7. /\ M.bal = [C.bal EXCEPT ![t.account] = @ - t.amount, ![t.dst] = @ + t.amount]
      /\ M.seq = [C.seq EXCEPT ![t.dst] = IF @ = 0 THEN 1 ELSE @]
      /\ M.coins = C.coins /\ M.feePool = C.feePool
      /\ M.inflationSeq = C.inflationSeq /\ M.txs = C.txs
      /\ DOMAIN M = Fields /\ M = [f \in Fields |-> M[f]]
  BY Zenon, <1>6 DEF Fields
<1> HIDE DEF M
<1>8. t.amount <= C.bal[t.account]
  <2>1. L.bal \in [Accounts -> Nat]
    BY Zenon, <1>0, LedgerFields
  <2> QED BY Zenon, <2>1, <1>3, <1>4, <1>5
<1>9. /\ M.bal \in [Accounts -> Nat] /\ SumFunction(M.bal) = SumFunction(C.bal)
      /\ \A a \in Accounts \ {t.account} : M.bal[a] >= C.bal[a]
  <2>1. M.bal = Shift(C.bal, t.account, t.dst, t.amount)
    BY <1>7 DEF Shift
  <2> QED BY <1>2, <1>3, <1>6, <1>8, <2>1, Transfer
<1>10. M.seq \in [Accounts -> Nat]
  BY <1>3, <1>6, <1>7
<1>11. M \in Ledgers
  <2>1. M.coins \in Nat /\ M.feePool \in Nat /\ M.inflationSeq \in Nat /\ M.txs \in Seq(Entries)
    BY <1>5, <1>7, LedgerFields
  <2> QED BY Zenon, <1>7, <1>9, <1>10, <2>1, FieldsLedger
<1>12. \A a \in Accounts \ {t.account} : M.bal[a] >= L.bal[a]
  <2>1. \A a \in Accounts : M.bal[a] \in Nat /\ C.bal[a] \in Nat /\ L.bal[a] \in Nat
    BY <1>0, <1>6, <1>9, LedgerFields
  <2> QED BY <1>5, <1>9, <2>1
<1> QED BY <1>2, <1>5, <1>7, <1>9, <1>11, <1>12 DEF Moved

\* A merge moves what the fee leaves to the destination.
LEMMA MergeBooks ==
  ASSUME NEW L, Books(L), NEW t \in Bodies, Check(L, t) = "tes", t.type = "merge"
  PROVE  Moved(L, DoMerge(L, t).ledger, t)
<1> DEFINE C == Charged(L, t)
           n == L.bal[t.account] - t.fee
           M == [C EXCEPT !.bal = [C.bal EXCEPT ![t.dst] = @ + n, ![t.account] = 0],
                          !.seq[t.account] = 0]
<1>0. L \in Ledgers
  BY DEF Books
<1>1. L.bal[t.account] >= t.fee /\ t.dst # t.account
  BY <1>0, CheckFee
<1>2. DoMerge(L, t).ledger = M
  BY DEF DoMerge, Outcome
<1>3. /\ t.account \in Accounts /\ t.fee \in Nat /\ t.dst \in Accounts
  BY DEF Bodies
<1>4. L.bal \in [Accounts -> Nat] /\ n \in Nat
  <2>1. L.bal \in [Accounts -> Nat]
    BY <1>0, LedgerFields
  <2> QED BY <1>1, <1>3, <2>1
<1>5. /\ C \in Ledgers
      /\ C.bal = [L.bal EXCEPT ![t.account] = n]
      /\ C.coins = L.coins /\ L.coins = SumFunction(C.bal) + t.fee
      /\ \A a \in Accounts \ {t.account} : C.bal[a] >= L.bal[a]
  BY ZenonT(30), <1>1, ChargedBooks DEF Moved
<1>6. DOMAIN C = Fields /\ C.bal \in [Accounts -> Nat] /\ C.seq \in [Accounts -> Nat]
      /\ C.bal[t.account] = n
  BY <1>3, <1>4, <1>5, LedgerFields
<1> HIDE DEF C, n
<1>7. /\ M.bal = [C.bal EXCEPT ![t.dst] = @ + n, ![t.account] = 0]
      /\ M.seq = [C.seq EXCEPT ![t.account] = 0]
      /\ M.coins = C.coins /\ M.feePool = C.feePool
      /\ M.inflationSeq = C.inflationSeq /\ M.txs = C.txs
      /\ DOMAIN M = Fields /\ M = [f \in Fields |-> M[f]]
  BY ZenonT(30), <1>6 DEF Fields
<1> HIDE DEF M
<1>8. M.bal = [C.bal EXCEPT ![t.account] = @ - n, ![t.dst] = @ + n]
  BY <1>1, <1>3, <1>4, <1>6, <1>7
<1>9. /\ M.bal \in [Accounts -> Nat] /\ SumFunction(M.bal) = SumFunction(C.bal)
      /\ \A a \in Accounts \ {t.account} : M.bal[a] >= C.bal[a]
  <2>1. n <= C.bal[t.account]
    BY <1>4, <1>6
  <2>2. M.bal = Shift(C.bal, t.account, t.dst, n)
    BY <1>8 DEF Shift
  <2> QED BY <1>1, <1>3, <1>4, <1>6, <2>1, <2>2, Transfer
<1>10. M.seq \in [Accounts -> Nat]
  BY <1>3, <1>6, <1>7
<1>11. M \in Ledgers
  <2>1. M.coins \in Nat /\ M.feePool \in Nat /\ M.inflationSeq \in Nat /\ M.txs \in Seq(Entries)
    BY <1>5, <1>7, LedgerFields
  <2> QED BY Zenon, <1>7, <1>9, <1>10, <2>1, FieldsLedger
<1>12. \A a \in Accounts \ {t.account} : M.bal[a] >= L.bal[a]
  <2>1. \A a \in Accounts : M.bal[a] \in Nat /\ C.bal[a] \in Nat /\ L.bal[a] \in Nat
    BY <1>4, <1>6, <1>9
  <2> QED BY <1>5, <1>9, <2>1
<1> QED BY <1>2, <1>5, <1>7, <1>9, <1>11, <1>12 DEF Moved

\* The tally of the votes.
LEMMA VotesType ==
  ASSUME NEW L \in Ledgers
  PROVE  Votes(L) \in [Accounts -> Nat]
<1> SUFFICES ASSUME NEW d \in Accounts PROVE Votes(L)[d] \in Nat
  BY Zenon DEF Votes
<1> DEFINE V == {a \in Accounts : /\ Exists(L, a) /\ InflationDest[a] = d
                                 /\ L.bal[a] > VoteFloor}
<1>1. Votes(L)[d] = SumFunctionOnSet(L.bal, V)
  BY DEF Votes
<1>2. V \in SUBSET Accounts
  OBVIOUS
<1> HIDE DEF V
<1>3. IsFiniteSet(V) /\ \A x \in V : L.bal[x] \in Nat
  BY <1>2, FS_Subset, FiniteAssumption, LedgerFields
<1> QED BY <1>1, <1>3, SumOnSet

\* What each account gets of an inflation: a natural number, since a winner has
\* votes and the divisor is the sum of the winners' votes.
Share(L) ==
  [a \in Accounts |->
     IF a \in Winners(L, Votes(L)) /\ Exists(L, a)
     THEN (((L.coins * Rate[1]) \div Rate[2] + L.feePool) * Votes(L)[a])
          \div SumFunctionOnSet(Votes(L), Winners(L, Votes(L)))
     ELSE 0]

\* Dividing naturals.
LEMMA Quotient ==
  ASSUME NEW n \in Nat, NEW d \in Nat, d # 0
  PROVE  n \div d \in Nat
  OBVIOUS

\* Multiplying naturals.
LEMMA Product ==
  ASSUME NEW n \in Nat, NEW d \in Nat
  PROVE  n * d \in Nat
  OBVIOUS

\* So what an inflation gives out is never negative.
LEMMA ShareType ==
  ASSUME NEW L \in Ledgers
  PROVE  Share(L) \in [Accounts -> Nat]
<1> DEFINE votes == Votes(L)
           winners == Winners(L, votes)
           dole == (L.coins * Rate[1]) \div Rate[2] + L.feePool
           all == SumFunctionOnSet(votes, winners)
           min == (L.coins * WinShare[1]) \div WinShare[2]
<1>1. L.coins \in Nat /\ L.feePool \in Nat
  BY LedgerFields
<1>2. /\ Rate[1] \in Nat /\ Rate[2] \in Nat /\ Rate[2] # 0
      /\ WinShare[1] \in Nat /\ WinShare[2] \in Nat /\ WinShare[2] # 0
  BY ShareAssumption
<1>3. dole \in Nat /\ min \in Nat
  <2>1. L.coins * Rate[1] \in Nat /\ L.coins * WinShare[1] \in Nat
    BY <1>1, <1>2, Product
  <2>2. (L.coins * Rate[1]) \div Rate[2] \in Nat /\ min \in Nat
    BY <2>1, <1>2, Quotient
  <2> QED BY <2>2, <1>1
<1>4. votes \in [Accounts -> Nat]
  BY VotesType
<1>5. winners \in SUBSET Accounts
  BY DEF Winners
<1>6. ASSUME NEW a \in winners PROVE votes[a] > 0
  <2> HIDE DEF votes
  <2>1. PICK floor \in {min, 0} : votes[a] > floor
    BY <1>6 DEF Winners
  <2> HIDE DEF min
  <2>2. votes[a] \in Nat
    BY <1>4, <1>5
  <2> QED BY <1>3, <2>1, <2>2
<1>7. IsFiniteSet(winners) /\ \A x \in winners : votes[x] \in Nat
  <2> HIDE DEF votes, winners
  <2> QED BY <1>4, <1>5, FS_Subset, FiniteAssumption
<1>8. all \in Nat /\ \A x \in winners : votes[x] <= all
  <2> HIDE DEF votes, winners
  <2> QED BY <1>7, SumOnSet
<1>9. ASSUME NEW a \in winners PROVE (dole * votes[a]) \div all \in Nat
  <2> HIDE DEF votes, winners, dole, all
  <2>1. all # 0 /\ votes[a] \in Nat
    BY <1>6, <1>7, <1>8
  <2>2. dole * votes[a] \in Nat
    BY <1>3, <2>1, Product
  <2> QED BY <1>8, <2>1, <2>2, Quotient
<1>10. Share(L) = [a \in Accounts |->
                     IF a \in winners /\ Exists(L, a) THEN (dole * votes[a]) \div all ELSE 0]
  BY Zenon DEF Share
<1> HIDE DEF votes, winners, dole, all
<1> QED BY <1>9, <1>10

\* An inflation creates exactly what it adds to the balances.
LEMMA InflationBooks ==
  ASSUME NEW L, Books(L), NEW t \in Bodies, Check(L, t) = "tes"
  PROVE  Moved(L, DoInflation(L, t).ledger, t)
<1> DEFINE C == Charged(L, t)
           B(f) == [a \in Accounts |-> f[a] + Share(L)[a]]
           K(n) == n + SumFunction(Share(L))
           M == [C EXCEPT !.bal = B(@), !.coins = K(@), !.feePool = 0,
                          !.inflationSeq = @ + 1]
<1>0. L \in Ledgers
  BY DEF Books
<1>1. L.bal[t.account] >= t.fee
  BY <1>0, CheckFee
<1>2. DoInflation(L, t).ledger = M
  <2>1. DoInflation(L, t) = Outcome("tes", M)
    BY Zenon DEF DoInflation, Share
  <2> HIDE DEF M
  <2> QED BY <2>1 DEF Outcome
<1>3. /\ C \in Ledgers /\ C.coins = L.coins /\ L.coins = SumFunction(C.bal) + t.fee
      /\ \A a \in Accounts \ {t.account} : C.bal[a] >= L.bal[a]
  BY ZenonT(30), <1>1, ChargedBooks DEF Moved
<1>4. DOMAIN C = Fields /\ C.bal \in [Accounts -> Nat] /\ Share(L) \in [Accounts -> Nat]
  BY <1>0, <1>3, LedgerFields, ShareType
<1> HIDE DEF C, B, K
<1>5. /\ M.bal = B(C.bal) /\ M.coins = K(C.coins) /\ M.seq = C.seq /\ M.feePool = 0
      /\ M.inflationSeq = C.inflationSeq + 1 /\ M.txs = C.txs
      /\ DOMAIN M = Fields /\ M = [f \in Fields |-> M[f]]
  BY ZenonT(30), <1>4 DEF Fields
<1> HIDE DEF M
<1>6. /\ M.bal = [a \in Accounts |-> C.bal[a] + Share(L)[a]]
      /\ M.coins = C.coins + SumFunction(Share(L))
  BY Zenon, <1>5 DEF B, K
<1>7. SumFunction(M.bal) = SumFunction(C.bal) + SumFunction(Share(L))
  <2>1. SumFunction([a \in Accounts |-> C.bal[a] + Share(L)[a]])
          = SumFunction(C.bal) + SumFunction(Share(L))
    BY Zenon, <1>4, SumPlus, FiniteAssumption
  <2> QED BY Zenon, <1>6, <2>1
<1>8. SumFunction(C.bal) \in Nat /\ SumFunction(Share(L)) \in Nat /\ t.fee \in Nat
      /\ C.coins \in Nat
  BY Zenon, <1>3, <1>4, SumNat, FiniteAssumption, LedgerFields DEF Bodies
<1>9. M.coins = SumFunction(M.bal) + t.fee /\ M.coins \in Nat
  BY <1>3, <1>6, <1>7, <1>8
<1>10. M.bal \in [Accounts -> Nat]
  BY <1>4, <1>6
<1>11. M \in Ledgers
  <2>1. /\ M.seq \in [Accounts -> Nat] /\ M.feePool \in Nat /\ M.inflationSeq \in Nat
        /\ M.txs \in Seq(Entries)
    BY <1>3, <1>5, LedgerFields
  <2> QED BY <1>5, <1>9, <1>10, <2>1, FieldsLedger
<1>12. \A a \in Accounts \ {t.account} : M.bal[a] >= L.bal[a]
  <2>1. L.bal \in [Accounts -> Nat]
    BY <1>0, LedgerFields
  <2> QED BY <1>3, <1>4, <1>6, <2>1
<1> QED BY <1>2, <1>9, <1>11, <1>12 DEF Moved

\* Recording a transaction destroys its fee.
LEMMA CommitBooks ==
  ASSUME NEW L \in Ledgers, NEW M, NEW id \in Tx, NEW c \in BOOLEAN, Moved(L, M, Body[id])
  PROVE  /\ Books(Commit(M, id, c))
         /\ \A a \in Accounts \ {Body[id].account} : Commit(M, id, c).bal[a] >= L.bal[a]
<1> DEFINE t == Body[id]
           N == Commit(M, id, c)
           e == [id |-> id, claimed |-> c]
<1>1. t \in Bodies /\ t.fee \in Nat
  BY BodyAssumption DEF Bodies
<1>2. /\ M \in Ledgers /\ M.coins = SumFunction(M.bal) + t.fee
      /\ \A a \in Accounts \ {t.account} : M.bal[a] >= L.bal[a]
  BY Zenon DEF Moved
<1>3. /\ DOMAIN M = Fields /\ M.bal \in [Accounts -> Nat] /\ M.seq \in [Accounts -> Nat]
      /\ M.feePool \in Nat /\ M.inflationSeq \in Nat /\ M.txs \in Seq(Entries)
  BY <1>2, LedgerFields
<1> HIDE DEF t
<1>4. /\ N.bal = M.bal /\ N.seq = M.seq /\ N.coins = M.coins - t.fee
      /\ N.feePool = M.feePool + t.fee /\ N.inflationSeq = M.inflationSeq
      /\ N.txs = Append(M.txs, e)
      /\ DOMAIN N = Fields /\ N = [f \in Fields |-> N[f]]
  BY ZenonT(30), <1>3 DEF Commit, Fields, t
<1>5. e \in Entries
  BY DEF Entries
<1> HIDE DEF e, N
<1>6. SumFunction(M.bal) \in Nat
  BY <1>3, SumNat, FiniteAssumption
<1>7. N.coins = SumFunction(N.bal) /\ N.coins \in Nat
  BY <1>1, <1>2, <1>4, <1>6
<1>8. N.txs \in Seq(Entries) /\ N.feePool \in Nat
  BY <1>1, <1>3, <1>4, <1>5
<1>9. N \in Ledgers
  BY ZenonT(30), <1>3, <1>4, <1>7, <1>8, FieldsLedger
<1> QED BY <1>2, <1>4, <1>7, <1>9 DEF Books, t, N

\* Whatever the engine does with a transaction, the coins stay the sum of the
\* balances, and only the transaction's own account can lose any.
LEMMA EngineBooks ==
  ASSUME NEW L, Books(L), NEW id \in Tx, NEW retry \in BOOLEAN
  PROVE  LET M == EngineApply(L, id, retry).ledger
         IN  /\ Books(M)
             /\ \A a \in Accounts \ {Body[id].account} : M.bal[a] >= L.bal[a]
<1> DEFINE t == Body[id]
           d == TransactorApply(L, t)
           r == EngineApply(L, id, retry)
           Good(M) == /\ Books(M)
                      /\ \A a \in Accounts \ {t.account} : M.bal[a] >= L.bal[a]
<1>0. t \in Bodies /\ L \in Ledgers
  BY BodyAssumption DEF Books
<1>1. Good(L)
  <2>1. L.bal \in [Accounts -> Nat]
    BY <1>0, LedgerFields
  <2> QED BY <2>1
<1>2. ASSUME NEW M, NEW c \in BOOLEAN, Moved(L, M, t) PROVE Good(Commit(M, id, c))
  BY <1>0, <1>2, CommitBooks
<1>3. ASSUME d.ter = "tes" PROVE Moved(L, d.ledger, t)
  <2> HIDE DEF t
  <2>1. CASE Check(L, t) # "tes"
    BY <1>3, <2>1 DEF TransactorApply, Outcome
  <2>2. CASE Check(L, t) = "tes" /\ t.type = "pay"
    <3>1. d = DoPayment(L, t)
      BY <2>2 DEF TransactorApply
    <3> QED BY <1>0, <1>3, <2>2, <3>1, PaymentBooks
  <2>3. CASE Check(L, t) = "tes" /\ t.type = "merge"
    <3>1. d = DoMerge(L, t)
      BY <2>3 DEF TransactorApply
    <3> QED BY <1>0, <2>3, <3>1, MergeBooks
  <2>4. CASE Check(L, t) = "tes" /\ t.type \notin {"pay", "merge"}
    <3>1. d = DoInflation(L, t)
      BY <2>4 DEF TransactorApply
    <3> QED BY <1>0, <2>4, <3>1, InflationBooks
  <2> QED BY <2>1, <2>2, <2>3, <2>4
<1>4. CASE d.ter = "tes"
  <2>1. r.ledger = Commit(d.ledger, id, FALSE)
    BY <1>4 DEF EngineApply, Outcome
  <2> HIDE DEF Good, r, d, t
  <2>2. Good(Commit(d.ledger, id, FALSE))
    BY Zenon, <1>2, <1>3, <1>4
  <2>3. Good(r.ledger)
    BY Zenon, <2>1, <2>2
  <2> QED BY <2>3 DEF Good, r, t
<1>5. CASE d.ter # "tes" /\ d.ter = "tec" /\ ~retry
  <2>1. r = ClaimFee(L, id)
    BY <1>5 DEF EngineApply
  <2>2. \/ r.ledger = L
        \/ r.ledger = Commit(Charged(L, t), id, TRUE) /\ ~(L.bal[t.account] < t.fee)
    <3>1. r \in {Outcome("ter", L), Outcome("tef", L)}
          \/ (r = Outcome("applied", Commit(Charged(L, t), id, TRUE))
              /\ ~(L.bal[t.account] < t.fee))
      BY ONLY Zenon, <2>1 DEF ClaimFee, t
    <3>2. /\ Outcome("ter", L).ledger = L /\ Outcome("tef", L).ledger = L
          /\ Outcome("applied", Commit(Charged(L, t), id, TRUE)).ledger
               = Commit(Charged(L, t), id, TRUE)
      BY DEF Outcome
    <3> HIDE DEF r, t
    <3> QED BY Zenon, <3>1, <3>2
  <2>3. L.bal[t.account] \in Nat /\ t.fee \in Nat
    BY <1>0, LedgerFields DEF Bodies
  <2>4. ASSUME ~(L.bal[t.account] < t.fee) PROVE Moved(L, Charged(L, t), t)
    <3> HIDE DEF t
    <3>1. L.bal[t.account] >= t.fee
      BY <2>3, <2>4
    <3> QED BY ZenonT(30), <1>0, <3>1, ChargedBooks
  <2> HIDE DEF Good, r, d, t
  <2>5. Good(r.ledger)
    BY Zenon, <1>1, <1>2, <2>2, <2>4
  <2> QED BY <2>5 DEF Good, r, t
<1>6. CASE d.ter # "tes" /\ ~(d.ter = "tec" /\ ~retry)
  <2>1. r.ledger = L
    BY <1>6 DEF EngineApply, Outcome
  <2> QED BY Zenon, <1>1, <2>1
<1> QED BY Zenon, <1>4, <1>5, <1>6

\* A step leaves the ledger alone or tries a transaction that is still to be
\* applied.
LEMMA StepTries ==
  ASSUME DispInv, [Next]_vars
  PROVE  /\ UNCHANGED inputs
         /\ \/ UNCHANGED <<ledger, failed>>
            \/ \E id \in txns, retry \in BOOLEAN : Tried(id, retry)
<1>1. CASE FirstPass
  <2>1. Head(todo) \in txns
    <3>1. FirstPassInv /\ todo # <<>>
      BY <1>1 DEF FirstPass, DispInv
    <3>2. todo \in Seq(set) /\ txns = retriable \cup Rest
      BY <3>1 DEF FirstPassInv
    <3> QED BY <3>1, <3>2 DEF Rest
  <2>2. Tried(Head(todo), TRUE) /\ UNCHANGED inputs
    BY Zenon, <1>1 DEF FirstPass, Tried
  <2> QED BY Zenon, <2>1, <2>2
<1>2. CASE EndFirstPass
  BY <1>2 DEF EndFirstPass
<1>3. CASE LoopPass
  <2>1. certainRetry \in BOOLEAN /\ UNCHANGED inputs
    BY <1>3 DEF DispInv, LoopPass
  <2>2. CASE Head(todo) \in txns
    <3>1. Tried(Head(todo), certainRetry)
      BY Zenon, <1>3, <2>2 DEF LoopPass, Tried
    <3> QED BY <2>1, <2>2, <3>1
  <2>3. CASE Head(todo) \notin txns
    <3>1. UNCHANGED <<ledger, failed>>
      BY <1>3, <2>3 DEF LoopPass
    <3> QED BY <2>1, <3>1
  <2> QED BY <2>2, <2>3
<1>4. CASE EndPass
  BY <1>4 DEF EndPass
<1>5. CASE UNCHANGED vars
  BY <1>5 DEF vars
<1> QED BY <1>1, <1>2, <1>3, <1>4, <1>5 DEF Next

\* The books are even at first.
LEMMA InitBooks == Init => Books(ledger)
  BY PriorAssumption DEF Init, Books

\* Each step keeps them even.
LEMMA NextBooks == DispInv /\ Books(ledger) /\ [Next]_vars => Books(ledger)'
<1> SUFFICES ASSUME DispInv, Books(ledger), [Next]_vars PROVE Books(ledger')
  OBVIOUS
<1>1. CASE UNCHANGED <<ledger, failed>>
  <2>1. ledger' = ledger
    BY <1>1
  <2> QED BY Zenon, <2>1
<1>2. ASSUME NEW id \in txns, NEW retry \in BOOLEAN, Tried(id, retry) PROVE Books(ledger')
  <2>1. id \in Tx
    BY DEF DispInv, OnePlace
  <2>2. ledger' = EngineApply(ledger, id, retry).ledger
    BY <1>2, Zenon DEF Tried
  <2>3. Books(EngineApply(ledger, id, retry).ledger)
    BY Zenon, <2>1, EngineBooks
  <2> QED BY Zenon, <2>2, <2>3
<1> QED BY <1>1, <1>2, StepTries

\* CoinsConserved follows.
LEMMA BooksImply == Books(ledger) => CoinsConserved
<1> SUFFICES ASSUME Books(ledger) PROVE CoinsConserved
  OBVIOUS
<1>1. ledger \in Ledgers /\ ledger.coins = SumFunction(ledger.bal)
  BY DEF Books
<1>2. ledger.bal \in [Accounts -> Nat]
  BY <1>1, LedgerFields
<1>3. \A acct \in DOMAIN ledger.bal : ledger.bal[acct] >= 0
  BY <1>2
<1> QED BY <1>1, <1>3 DEF CoinsConserved

\* Payments, merges, fee claims and inflation keep the coins in existence equal
\* to the sum of all balances, none of them negative, from any prior ledger
\* whose books are even.
THEOREM CoinsAlwaysConserved == Spec => []CoinsConserved
<1>1. Spec => [](DispInv /\ Books(ledger))
  BY InitDisp, NextDisp, InitBooks, NextBooks, PTL DEF Spec
<1> QED BY <1>1, BooksImply, PTL

-----------------------------------------------------------------------------
(* QuietMeansDone: the canonical order covers what is left, and a pass that is
   not a retry and changes nothing has tried all of it. *)

Stuck(L, id) == Verdict(EngineApply(L, id, FALSE).ter) = "retry"

\* The hashes order the set and the accounts.
Ordered ==
  /\ set \in SUBSET Tx
  /\ accountOrder \in Injection(1 .. Cardinality(Accounts), Accounts)
  /\ hashOrder \in Injection(1 .. Cardinality(set), set)

\* The position of an element in such a sequence.
LEMMA PositionOf ==
  ASSUME NEW S, IsFiniteSet(S), NEW s \in Injection(1 .. Cardinality(S), S), NEW x \in S
  PROVE  Position(s, x) \in Nat /\ s[Position(s, x)] = x
<1>1. s \in Seq(S) /\ {s[i] : i \in DOMAIN s} = S
  BY SetSeqs
<1>2. PICK i \in DOMAIN s : s[i] = x
  BY <1>1
<1>3. Position(s, x) \in DOMAIN s /\ s[Position(s, x)] = x
  BY Zenon, <1>2 DEF Position
<1>4. DOMAIN s \subseteq Nat
  BY <1>1
<1> QED BY <1>3, <1>4

\* The canonical order is a strict total order on the set.
LEMMA BeforeOrders ==
  ASSUME Ordered
  PROVE  /\ \A x, y \in set : x # y => Before(x, y) \/ Before(y, x)
         /\ \A x, y, z \in set : Before(x, y) /\ Before(y, z) => Before(x, z)
<1> DEFINE a(x) == Position(accountOrder, Body[x].account)
           h(x) == Position(hashOrder, x)
           q(x) == Body[x].seq
<1>1. ASSUME NEW x \in set PROVE a(x) \in Nat /\ h(x) \in Nat /\ q(x) \in Nat /\ hashOrder[h(x)] = x
  <2>1. IsFiniteSet(set) /\ Body[x] \in Bodies
    BY TxAssumption, BodyAssumption, FS_Subset DEF Ordered
  <2>2. Body[x].account \in Accounts /\ q(x) \in Nat
    BY Zenon, <2>1 DEF Bodies
  <2>3. a(x) \in Nat
    BY Zenon, <2>2, PositionOf, FiniteAssumption DEF Ordered
  <2>4. h(x) \in Nat /\ hashOrder[h(x)] = x
    BY Zenon, <2>1, PositionOf DEF Ordered
  <2> QED BY <2>2, <2>3, <2>4
<1>2. \A x, y : Before(x, y) <=> \/ a(x) < a(y)
                                 \/ a(x) = a(y) /\ q(x) < q(y)
                                 \/ a(x) = a(y) /\ q(x) = q(y) /\ h(x) < h(y)
  BY DEF Before
<1> HIDE DEF a, h, q
<1>3. ASSUME NEW x \in set, NEW y \in set, x # y PROVE Before(x, y) \/ Before(y, x)
  <2>1. h(x) # h(y)
    BY <1>1, <1>3
  <2> QED BY <1>1, <1>2, <2>1
<1>4. ASSUME NEW x \in set, NEW y \in set, NEW z \in set, Before(x, y), Before(y, z)
      PROVE  Before(x, z)
  BY <1>1, <1>2, <1>4
<1> QED BY <1>3, <1>4

\* A set of transactions that is not empty has a last one.
LEMMA LastOf ==
  ASSUME Ordered, NEW S \in SUBSET set, S # {}
  PROVE  \E m \in S : \A x \in S \ {m} : Before(x, m)
<1> DEFINE Last(t, m) == m \in t /\ \A x \in t \ {m} : Before(x, m)
           Bad == {t \in SUBSET set : t # {} /\ ~\E m : Last(t, m)}
<1> SUFFICES ASSUME Bad # {} PROVE FALSE
  OBVIOUS
<1>0. IsFiniteSet(set)
  BY TxAssumption, FS_Subset DEF Ordered
<1>1. PICK t \in Bad : \A u \in SUBSET set : Cardinality(u) < Cardinality(t) => u \notin Bad
  <2>1. Bad \subseteq SUBSET set
    OBVIOUS
  <2> HIDE DEF Bad
  <2> QED BY <1>0, <2>1, SmallestSubset
<1>2. PICK x \in t : TRUE
  OBVIOUS
<1>3. t \ {x} \in SUBSET set /\ Cardinality(t \ {x}) < Cardinality(t)
  BY <1>0, Smaller
<1>4. t \ {x} # {}
  <2> SUFFICES ASSUME t \ {x} = {} PROVE FALSE
    OBVIOUS
  <2>1. Last(t, x)
    BY <1>2
  <2> QED BY <2>1
<1>5. PICK m : Last(t \ {x}, m)
  BY ZenonT(30), <1>1, <1>3, <1>4
<1>6. m \in set /\ x \in set /\ m # x /\ t \in SUBSET set
  BY <1>5
<1>7. Before(m, x) \/ Before(x, m)
  BY <1>6, BeforeOrders
<1>8. CASE Before(x, m)
  <2>1. Last(t, m)
    BY <1>5, <1>8
  <2> QED BY <2>1
<1>9. CASE Before(m, x)
  <2>1. ASSUME NEW y \in t \ {x} PROVE Before(y, x)
    BY <1>5, <1>6, <1>9, BeforeOrders
  <2>2. Last(t, x)
    BY <1>2, <2>1
  <2> QED BY <2>2
<1> QED BY <1>7, <1>8, <1>9

Sorted(s) == \A i, j \in DOMAIN s : i < j => Before(s[i], s[j])

\* Every set of transactions can be listed in the canonical order.
LEMMA SortedExists ==
  ASSUME Ordered, NEW S \in SUBSET set
  PROVE  \E s \in Injection(1 .. Cardinality(S), S) : Sorted(s)
<1> DEFINE Bad == {t \in SUBSET set : ~\E s \in Injection(1 .. Cardinality(t), t) : Sorted(s)}
<1> SUFFICES ASSUME Bad # {} PROVE FALSE
  OBVIOUS
<1>0. IsFiniteSet(set)
  BY TxAssumption, FS_Subset DEF Ordered
<1>1. PICK t \in Bad : \A u \in SUBSET set : Cardinality(u) < Cardinality(t) => u \notin Bad
  <2>1. Bad \subseteq SUBSET set
    OBVIOUS
  <2> HIDE DEF Bad
  <2> QED BY <1>0, <2>1, SmallestSubset
<1>2. t # {}
  <2> SUFFICES ASSUME t = {} PROVE FALSE
    OBVIOUS
  <2>1. Cardinality(t) = 0
    BY FS_EmptySet
  <2>2. << >> \in Injection(1 .. Cardinality(t), t)
    BY <2>1 DEF Injection, IsInjective
  <2>3. Sorted(<< >>)
    BY DEF Sorted
  <2> QED BY <2>2, <2>3
<1>3. PICK m \in t : \A x \in t \ {m} : Before(x, m)
  BY <1>2, LastOf
<1> DEFINE u == t \ {m}
           n == Cardinality(u)
<1>4. u \in SUBSET set /\ Cardinality(t) = n + 1 /\ n \in Nat
  <2>1. /\ u \in SUBSET set /\ n = Cardinality(t) - 1 /\ n \in Nat /\ Cardinality(t) \in Nat
    BY <1>0, Smaller
  <2> HIDE DEF u, n
  <2> QED BY <2>1
<1>5. PICK s \in Injection(1 .. Cardinality(u), u) : Sorted(s)
  <2>1. n < Cardinality(t)
    BY ONLY <1>4
  <2>2. u \notin Bad
    BY ONLY Zenon, <1>1, <1>4, <2>1
  <2> QED BY Zenon, <1>4, <2>2
<1>6. s \in [1 .. n -> u] /\ \A i, j \in 1 .. n : i # j => s[i] # s[j]
  BY ZenonT(30) DEF Injection, IsInjective
<1> DEFINE r == [i \in 1 .. n + 1 |-> IF i = n + 1 THEN m ELSE s[i]]
<1> HIDE DEF n
<1>7. r \in [1 .. n + 1 -> t] /\ \A i, j \in 1 .. n + 1 : i # j => r[i] # r[j]
  <2>1. \A i \in 1 .. n + 1 : i # n + 1 => i \in 1 .. n
    BY <1>4
  <2>2. \A i \in 1 .. n : s[i] \in t /\ s[i] # m
    BY <1>6
  <2> QED BY <1>6, <2>1, <2>2
<1>8. r \in Injection(1 .. Cardinality(t), t)
  BY Zenon, <1>4, <1>7 DEF Injection, IsInjective
<1>9. Sorted(r)
  <2> SUFFICES ASSUME NEW i \in 1 .. n + 1, NEW j \in 1 .. n + 1, i < j PROVE Before(r[i], r[j])
    BY DEF Sorted
  <2>1. i \in 1 .. n /\ r[i] = s[i]
    BY <1>4
  <2>2. CASE j = n + 1
    <3>1. r[j] = m /\ s[i] \in u
      BY <1>6, <2>1, <2>2
    <3> QED BY <1>3, <2>1, <3>1
  <2>3. CASE j # n + 1
    <3>1. j \in 1 .. n /\ r[j] = s[j]
      BY <1>4, <2>3
    <3>2. Before(s[i], s[j])
      BY Zenon, <1>5, <1>6, <2>1, <3>1 DEF Sorted
    <3> QED BY <2>1, <3>1, <3>2
  <2> QED BY <2>2, <2>3
<1> QED BY <1>8, <1>9

\* The canonical order of a set has each of its transactions once.
LEMMA CanonicalCovers ==
  ASSUME Ordered, NEW S \in SUBSET set
  PROVE  CanonicalOrder(S) \in Seq(S) /\ {CanonicalOrder(S)[i] : i \in DOMAIN CanonicalOrder(S)} = S
<1>1. \E s \in Injection(1 .. Cardinality(S), S) :
        \A i, j \in DOMAIN s : i < j => Before(s[i], s[j])
  BY SortedExists DEF Sorted
<1>2. CanonicalOrder(S) \in Injection(1 .. Cardinality(S), S)
  BY Zenon, <1>1 DEF CanonicalOrder
<1>3. IsFiniteSet(S)
  BY TxAssumption, FS_Subset DEF Ordered
<1> QED BY <1>2, <1>3, SetSeqs
\* In a pass that is not a retry and has changed nothing so far, what it has
\* looked at cannot be applied to the ledger as it is.
PassInv ==
  /\ Ordered /\ changes \in Nat /\ order \in Seq(set) /\ todo \in Seq(set)
  /\ pass = -1 => state = "busy"
  /\ pass # -1 => retriable \subseteq {order[i] : i \in DOMAIN order}
  /\ (state = "busy" /\ pass # -1 /\ ~certainRetry /\ changes = 0) =>
       \A id \in retriable \ Rest : Stuck(ledger, id)
  /\ state = "quiet" => \A id \in retriable : Stuck(ledger, id)

\* The invariant of the passes holds at first.
LEMMA InitPass == Init => PassInv
<1> SUFFICES ASSUME Init PROVE PassInv
  OBVIOUS
<1>1. Ordered
  BY DEF Init, Ordered
<1>2. hashOrder \in Seq(set)
  BY Zenon, <1>1, SetSeqs, TxAssumption, FS_Subset DEF Ordered
<1> QED BY <1>1, <1>2 DEF Init, PassInv

\* What a sequence holds besides its head is in its tail.
LEMMA TailRest ==
  ASSUME todo # <<>>, todo \in Seq(set), todo' = Tail(todo)
  PROVE  Rest \subseteq Rest' \cup {Head(todo)} /\ todo' \in Seq(set)
<1>1. todo \in Seq(set)
  OBVIOUS
<1>2. ASSUME NEW i \in DOMAIN todo PROVE todo[i] \in Rest' \cup {Head(todo)}
  <2>1. CASE i = 1
    BY <1>1, <2>1
  <2>2. CASE i # 1
    <3>1. i - 1 \in DOMAIN Tail(todo) /\ Tail(todo)[i - 1] = todo[i]
      BY <1>1, <2>2
    <3> QED BY <3>1 DEF Rest
  <2> QED BY <2>1, <2>2
<1> QED BY <1>2 DEF Rest

\* Each step keeps the invariant of the passes.
LEMMA NextPass == DispInv /\ PassInv /\ [Next]_vars => PassInv'
<1> SUFFICES ASSUME DispInv, PassInv, [Next]_vars PROVE PassInv'
  OBVIOUS
<1>0. UNCHANGED inputs /\ Ordered'
  BY StepTries DEF inputs, PassInv, Ordered
<1>1. CASE FirstPass
  <2>1. pass = -1 /\ pass' = -1 /\ state = "busy" /\ state' = "busy" /\ changes' = changes
    BY <1>1 DEF FirstPass
  <2>2. order' = order /\ todo' \in Seq(set')
    <3>1. todo # <<>> /\ todo' = Tail(todo) /\ order' = order
      BY Zenon, <1>1 DEF FirstPass
    <3> QED BY <1>0, <3>1, TailRest DEF PassInv, inputs
  <2> QED BY <1>0, <2>1, <2>2 DEF PassInv, inputs
<1>2. CASE EndFirstPass
  <2>1. /\ pass = -1 /\ pass' = 0 /\ state = "busy" /\ state' = "busy" /\ changes' = changes
        /\ order' = CanonicalOrder(retriable) /\ todo' = order' /\ retriable' = retriable
    BY <1>2 DEF EndFirstPass
  <2>2. retriable \in SUBSET set
    BY <2>1 DEF DispInv, FirstPassInv, OnePlace
  <2>3. {order'[i] : i \in DOMAIN order'} = retriable
    BY <2>1, <2>2, CanonicalCovers DEF PassInv
  <2>4. retriable' \ Rest' = {}
    BY <2>1, <2>3 DEF Rest
  <2>5. order' \in Seq(set')
    <3>1. order' \in Seq(retriable)
      BY <2>1, <2>2, CanonicalCovers DEF PassInv
    <3> QED BY <1>0, <2>2, <3>1 DEF inputs
  <2> QED BY <1>0, <2>1, <2>3, <2>4, <2>5 DEF PassInv
<1>3. CASE LoopPass
  <2> DEFINE id == Head(todo)
             r == EngineApply(ledger, id, certainRetry)
             v == Verdict(r.ter)
  <2>1. /\ pass # -1 /\ pass' = pass /\ state = "busy" /\ state' = "busy"
        /\ todo # <<>> /\ todo' = Tail(todo) /\ order' = order
        /\ certainRetry' = certainRetry /\ certainRetry \in BOOLEAN
    BY SMTT(60), <1>3 DEF LoopPass, DispInv
  <2>2. Rest \subseteq Rest' \cup {id} /\ todo' \in Seq(set) /\ set' = set
    BY <1>0, <2>1, TailRest DEF PassInv, inputs
  <2>3. /\ \/ /\ id \notin retriable /\ UNCHANGED <<ledger, retriable, changes>>
           \/ /\ id \in retriable /\ ledger' = r.ledger
              /\ retriable' = IF v = "retry" THEN retriable ELSE retriable \ {id}
              /\ changes' = IF v = "success" THEN changes + 1 ELSE changes
    <3>1. txns = retriable
      BY <2>1 DEF DispInv
    <3> QED BY Zenon, <1>3, <3>1 DEF LoopPass
  <2>4. ASSUME id \in retriable, v # "success" PROVE r.ledger = ledger
    <3>1. id \in Tx /\ Shape(ledger)
      BY <2>1, <2>4 DEF DispInv, OnePlace
    <3>2. r.ter # "applied"
      BY <2>4 DEF Verdict
    <3> QED BY <2>1, <3>1, <3>2, EngineEffect
  <2>5. ASSUME certainRetry = FALSE, v = "retry" PROVE Stuck(ledger, id)
    BY Zenon, <2>5 DEF Stuck
  <2> HIDE DEF v, r
  <2>6. changes' \in Nat /\ retriable' \subseteq retriable
    BY <2>3 DEF PassInv
  <2>7. ASSUME certainRetry = FALSE, changes' = 0, NEW x \in retriable', x \notin Rest'
        PROVE  Stuck(ledger', x)
    <3>1. changes = 0 /\ ledger' = ledger /\ (x = id => v = "retry")
      <4>1. changes \in Nat
        BY DEF PassInv
      <4> QED BY <2>3, <2>4, <2>7, <4>1
    <3>2. CASE x = id
      BY ZenonT(30), <2>5, <2>7, <3>1, <3>2
    <3>3. CASE x # id
      <4>1. x \in retriable \ Rest
        BY Zenon, <2>2, <2>6, <2>7, <3>3
      <4>2. Stuck(ledger, x)
        BY Zenon, <2>1, <2>7, <3>1, <4>1 DEF PassInv
      <4> QED BY <3>1, <4>2
    <3> QED BY <3>2, <3>3
  <2>8. retriable' \subseteq {order'[i] : i \in DOMAIN order'}
    BY <2>1, <2>6 DEF PassInv
  <2> QED BY Zenon, <1>0, <2>1, <2>2, <2>6, <2>7, <2>8 DEF PassInv
<1>4. CASE EndPass
  <2>1. /\ UNCHANGED <<ledger, retriable, order>> /\ set' = set
        /\ pass # -1 /\ state = "busy" /\ todo = <<>>
    BY <1>4 DEF EndPass, inputs
  <2>2. Rest = {}
    BY <2>1 DEF Rest
  <2>3. CASE /\ Returns /\ state' = "quiet"
             /\ UNCHANGED <<todo, pass, certainRetry, changes>>
    <3>1. \A id \in retriable : Stuck(ledger, id)
      BY <2>1, <2>2, <2>3 DEF PassInv, Returns
    <3> QED BY Zenon, <1>0, <2>1, <2>3, <3>1 DEF PassInv
  <2>4. CASE /\ pass' = pass + 1 /\ todo' = order /\ changes' = 0 /\ state' = state
    <3>1. pass' # -1
      BY <2>1, <2>4 DEF DispInv
    <3>2. retriable' \ Rest' = {}
      BY <2>1, <2>4 DEF PassInv, Rest
    <3>3. /\ changes' \in Nat /\ order' \in Seq(set') /\ todo' \in Seq(set')
          /\ retriable' \subseteq {order'[i] : i \in DOMAIN order'} /\ state' = "busy"
      BY Zenon, <2>1, <2>4 DEF PassInv
    <3> QED BY Zenon, <1>0, <3>1, <3>2, <3>3 DEF PassInv
  <2>5. CASE /\ pass' = pass + 1 /\ state' = "exhausted" /\ UNCHANGED <<todo, changes>>
    <3>1. pass' # -1
      BY <2>1, <2>5 DEF DispInv
    <3> QED BY <1>0, <2>1, <2>5, <3>1 DEF PassInv
  <2> QED BY Zenon, <1>4, <2>3, <2>4, <2>5 DEF EndPass
<1>5. CASE UNCHANGED vars
  <2>1. UNCHANGED <<pass, state, changes, order, todo, retriable, certainRetry, ledger>>
    BY <1>5 DEF vars
  <2>2. set' = set /\ Rest' = Rest
    BY <1>0, <2>1 DEF inputs, Rest
  <2> QED BY SMTT(60), <1>0, <2>1, <2>2 DEF PassInv
<1> QED BY <1>1, <1>2, <1>3, <1>4, <1>5 DEF Next

\* QuietMeansDone follows.
LEMMA PassImplies == PassInv => QuietMeansDone
  BY Zenon DEF PassInv, QuietMeansDone, Stuck

\* When the loop returns, nothing that is left could have been applied.
THEOREM QuietAlwaysMeansDone == Spec => []QuietMeansDone
<1>1. Spec => [](DispInv /\ PassInv)
  BY InitDisp, NextDisp, InitPass, NextPass, PTL DEF Spec
<1> QED BY <1>1, PassImplies, PTL

-----------------------------------------------------------------------------
(* NextInLineIsApplied. *)

\* A payment without fault whose turn it is and whose fee is there.
Payable(L, id) ==
  LET t == Body[id]
  IN  /\ t.type = "pay" /\ t.fault = "none" /\ t.amount # 0 /\ t.dst # t.account
      /\ L.seq[t.account] = t.seq /\ L.bal[t.account] >= t.fee

\* Such a payment is applied or, in a pass that retries, put off.
LEMMA PayableTried ==
  ASSUME NEW L \in Ledgers, NEW id \in Tx, Payable(L, id), NEW retry \in BOOLEAN
  PROVE  LET ter == EngineApply(L, id, retry).ter
         IN  ter = "applied" \/ (ter = "tec" /\ retry = TRUE)
<1> DEFINE t == Body[id]
           d == TransactorApply(L, t)
           r == EngineApply(L, id, retry)
<1>1. t \in Bodies
  BY BodyAssumption
<1>2. /\ t.type = "pay" /\ t.fault = "none" /\ t.amount # 0 /\ t.dst # t.account
      /\ L.seq[t.account] = t.seq /\ L.bal[t.account] >= t.fee
  BY Zenon DEF Payable
<1>3. /\ t.account \in Accounts /\ t.seq \in Nat /\ t.seq # 0 /\ t.fee \in Nat
      /\ L.bal[t.account] \in Nat
  BY Zenon, <1>1, LedgerFields DEF Bodies
<1> HIDE DEF t
<1>4. /\ Exists(L, t.account) /\ ~(L.seq[t.account] < t.seq) /\ ~(L.seq[t.account] > t.seq)
      /\ ~(L.bal[t.account] < t.fee)
  BY <1>2, <1>3 DEF Exists
<1>5. Check(L, t) = "tes"
  <2>1. CheckSeq(L, t) = "tes"
    BY Zenon, <1>2, <1>4 DEF CheckSeq
  <2>2. PayFee(L, t) = "tes" /\ CheckSig(t) = "tes" /\ PrecheckAgainstLedger(L, t) = "tes"
    BY <1>2, <1>4 DEF PayFee, CheckSig, PrecheckAgainstLedger
  <2> QED BY ZenonT(30), <1>2, <1>4, <2>1, <2>2 DEF Check
<1>6. d.ter \in {"tes", "tec"}
  <2>1. d = DoPayment(L, t)
    BY Zenon, <1>2, <1>5 DEF TransactorApply
  <2> QED BY <1>2, <2>1 DEF DoPayment, Outcome
<1>7. CASE d.ter = "tes"
  BY Zenon, <1>7 DEF EngineApply, Outcome, t
<1>8. CASE d.ter = "tec" /\ retry = TRUE
  BY <1>8 DEF EngineApply, Outcome, t
<1>9. CASE d.ter = "tec" /\ retry = FALSE
  <2>1. r = ClaimFee(L, id)
    BY <1>9 DEF EngineApply, t
  <2>2. r = Outcome("applied", Commit(Charged(L, t), id, TRUE))
    BY <2>1, <1>4, Zenon DEF ClaimFee, t
  <2> QED BY <2>2 DEF Outcome
<1> QED BY Zenon, <1>6, <1>7, <1>8, <1>9

\* A transaction that is next in line and not in the ledger has not failed, and
\* it is still its turn: nothing else can take its sequence number or the fee.
LineInv ==
  \A id \in set :
    NextInLine(id) /\ id \notin Ids(ledger) => id \notin failed /\ Payable(ledger, id)

\* The invariant of who is next in line holds at first.
LEMMA InitLine == Init => LineInv
  BY Zenon DEF Init, LineInv, NextInLine, Payable

\* Each step keeps it.
LEMMA NextLine == DispInv /\ Books(ledger) /\ LineInv /\ [Next]_vars => LineInv'
<1> SUFFICES ASSUME DispInv, Books(ledger), LineInv, [Next]_vars PROVE LineInv'
  OBVIOUS
<1>1. set' = set /\ prior' = prior
  BY StepTries DEF inputs
<1>2. \A id : NextInLine(id)' <=> NextInLine(id)
  BY Zenon, <1>1 DEF NextInLine
<1>3. CASE UNCHANGED <<ledger, failed>>
  <2>1. ledger' = ledger /\ failed' = failed
    BY <1>3
  <2> QED BY Zenon, <1>1, <1>2, <2>1 DEF LineInv, Ids, Payable
<1>4. ASSUME NEW o \in txns, NEW retry \in BOOLEAN, Tried(o, retry) PROVE LineInv'
  <2> DEFINE r == EngineApply(ledger, o, retry)
  <2>1. o \in Tx /\ o \in set /\ Shape(ledger) /\ ledger \in Ledgers /\ set \subseteq Tx
    BY DEF DispInv, OnePlace, Books
  <2> SUFFICES ASSUME NEW id \in set, NextInLine(id), id \notin Ids(ledger')
               PROVE  id \notin failed' /\ Payable(ledger', id)
    BY Zenon, <1>1, <1>2 DEF LineInv, Ids, Payable
  <2> DEFINE t == Body[id]
  <2>0. ledger' = r.ledger /\ failed' \in {failed, failed \cup {o}}
        /\ (failed' # failed => Verdict(r.ter) = "fail")
    BY Zenon, <1>4 DEF Tried
  <2>t. t \in Bodies /\ t.account \in Accounts /\ t.seq \in Nat /\ t.seq # 0 /\ t.fee \in Nat
    BY Zenon, <2>1, BodyAssumption DEF Bodies
  <2>2. \/ /\ r.ter = "applied" /\ Shape(r.ledger)
           /\ \E c \in BOOLEAN : Grown(ledger, r.ledger, o, c)
        \/ r.ter # "applied" /\ r.ledger = ledger
    BY <2>1, EngineEffect
  <2>3. CASE r.ter = "applied" /\ Shape(r.ledger)
             /\ \E c \in BOOLEAN : Grown(ledger, r.ledger, o, c)
    <3>1. PICK c \in BOOLEAN : Grown(ledger, r.ledger, o, c)
      BY <2>3
    <3>2. Ids(r.ledger) = Ids(ledger) \cup {o}
      <4>1. r.ledger.txs = Append(ledger.txs, [id |-> o, claimed |-> c])
        BY <3>1 DEF Grown
      <4> HIDE DEF r
      <4> QED BY ZenonT(60), <2>1, <2>3, <4>1, AppendIds
    <3>3. id # o /\ id \notin Ids(ledger)
      BY <2>0, <3>2
    <3>4. id \notin failed /\ Payable(ledger, id)
      BY <3>3 DEF LineInv
    <3>5. failed' = failed
      BY <2>0, <2>3 DEF Verdict
    <3>6. /\ ledger.seq[Body[o].account] = Body[o].seq
          /\ \A a \in Accounts \ {Body[o].account} :
               r.ledger.seq[a] = ledger.seq[a] \/ (ledger.seq[a] = 0 /\ r.ledger.seq[a] = 1)
      BY ZenonT(30), <3>1 DEF Grown, Advanced
    <3>7. ledger.seq[t.account] = t.seq /\ ledger.bal[t.account] >= t.fee
      BY <3>4 DEF Payable
    <3>8. Body[o].account # t.account
      <4>1. ~(Body[o].account = t.account /\ Body[o].seq = t.seq)
        BY Zenon, <2>1, <3>3 DEF NextInLine
      <4> QED BY ZenonT(30), <3>6, <3>7, <4>1
    <3>9. r.ledger.seq[t.account] = t.seq
      BY Zenon, <2>t, <3>6, <3>7, <3>8
    <3>10. r.ledger.bal[t.account] >= t.fee
      <4>1. Books(r.ledger) /\ r.ledger.bal[t.account] >= ledger.bal[t.account]
        BY Zenon, <2>1, <2>t, <3>8, EngineBooks
      <4>2. r.ledger.bal[t.account] \in Nat /\ ledger.bal[t.account] \in Nat
        BY Zenon, <2>1, <2>t, <4>1, LedgerFields DEF Books
      <4> DEFINE have == r.ledger.bal[t.account]
                 had == ledger.bal[t.account]
                 fee == t.fee
      <4>3. have \in Nat /\ had \in Nat /\ fee \in Nat /\ have >= had /\ had >= fee
        BY Zenon, <2>t, <3>7, <4>1, <4>2
      <4> HIDE DEF have, had, fee
      <4>4. have >= fee
        BY <4>3
      <4> QED BY ZenonT(60), <4>4 DEF have, fee
    <3>11. Payable(r.ledger, id)
      <4> HIDE DEF r
      <4> QED BY Zenon, <3>4, <3>9, <3>10 DEF Payable
    <3> QED BY Zenon, <2>0, <3>4, <3>5, <3>11
  <2>4. CASE r.ter # "applied" /\ r.ledger = ledger
    <3>1. ledger' = ledger
      BY <2>0, <2>4
    <3>2. id \notin failed /\ Payable(ledger, id)
      BY <3>1 DEF LineInv
    <3>3. id \notin failed'
      <4>1. CASE id # o
        BY <2>0, <3>2, <4>1
      <4>2. CASE id = o
        <5>1. r.ter = "tec" \/ r.ter = "applied"
          BY Zenon, <2>1, <3>2, <4>2, PayableTried
        <5>2. Verdict(r.ter) # "fail"
          <6> HIDE DEF r
          <6> QED BY <5>1 DEF Verdict
        <5> QED BY <2>0, <3>2, <5>2
      <4> QED BY <4>1, <4>2
    <3> QED BY Zenon, <3>1, <3>2, <3>3
  <2> QED BY Zenon, <2>2, <2>3, <2>4
<1> QED BY <1>3, <1>4, StepTries

\* NextInLineIsApplied follows.
LEMMA LineImplies ==
  DispInv /\ Books(ledger) /\ PassInv /\ LineInv => NextInLineIsApplied
<1> SUFFICES ASSUME DispInv, Books(ledger), PassInv, LineInv, state = "quiet",
                    NEW id \in set, NextInLine(id), id \notin Applied
             PROVE  FALSE
  BY DEF NextInLineIsApplied
<1>1. id \notin Ids(ledger)
  BY DEF Applied, Ids
<1>2. id \notin failed /\ Payable(ledger, id)
  BY <1>1 DEF LineInv
<1>3. pass # -1
  BY DEF PassInv
<1>4. id \in retriable /\ id \in Tx
  BY <1>1, <1>2, <1>3 DEF DispInv, OnePlace
<1>5. Verdict(EngineApply(ledger, id, FALSE).ter) = "retry"
  BY Zenon, <1>4 DEF PassInv, Stuck
<1>6. EngineApply(ledger, id, FALSE).ter = "applied"
  BY Zenon, <1>2, <1>4, PayableTried DEF Books
<1> QED BY <1>5, <1>6 DEF Verdict

\* A payment without fault that is next in line for an account that can pay
\* its fee, with no other claim to its sequence number, is in the ledger when
\* the loop returns, whatever else the set holds and however it is ordered.
THEOREM NextInLineAlwaysApplied == Spec => []NextInLineIsApplied
<1>1. Spec => [](DispInv /\ Books(ledger) /\ PassInv /\ LineInv)
  BY InitDisp, NextDisp, InitBooks, NextBooks, InitPass, NextPass, InitLine, NextLine, PTL
     DEF Spec
<1> QED BY <1>1, LineImplies, PTL

=============================================================================
