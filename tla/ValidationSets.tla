---- MODULE ValidationSets ----
(***************************************************************************)
(* The two indexes of ripple_app/misc/Validations.cpp: for every ledger    *)
(* the trusted validations received for it, one per validator, and for     *)
(* every validator the newest of its validations.  The maps are extended   *)
(* by the writer of old validations (Validations) and by the ledger        *)
(* master, which counts them (LedgerMaster).                               *)
(***************************************************************************)
EXTENDS Naturals, FiniteSets

CONSTANTS
  Nodes,          \* trusted validators
  AllValidations, \* validations that may arrive: records of node, ledger and signing time
  None            \* no current validation

ASSUME ValidationsAssumption ==
  \A v \in AllValidations : v.node \in Nodes /\ v.time \in Nat /\ v # None

VARIABLES
  mValidations,         \* validations received, whatever their ledger
  mCurrentValidations   \* per validator

setVars == <<mValidations, mCurrentValidations>>

SetsInit ==
  /\ mValidations = {}
  /\ mCurrentValidations = [n \in Nodes |-> None]

\* findCreateSet(hash)->insert fails: this validator's vote on it is there.
Known(v) == \E w \in mValidations : w.ledger = v.ledger /\ w.node = v.node

\* Whether v replaces what is held for its validator.
Newer(v) ==
  LET w == mCurrentValidations[v.node] IN w = None \/ v.time > w.time

\* Mutant: what is replaced is forgotten.
Forgotten(v) == {}

\* What v pushes out of mCurrentValidations.
Replaced(v) == IF Newer(v) THEN {mCurrentValidations[v.node]} \ {None} ELSE {}

\* The locked part of addValidation, for a trusted validation inside the time
\* window; one outside of it, or from elsewhere, changes nothing.
Record(v) ==
  /\ ~Known(v)
  /\ mValidations' = mValidations \cup {v}
  /\ mCurrentValidations' =
       IF Newer(v) THEN [mCurrentValidations EXCEPT ![v.node] = v] ELSE mCurrentValidations

\* getTrustedValidationCount
TrustedCount(ledger) == Cardinality({v \in mValidations : v.ledger = ledger})

Current(S) == {mCurrentValidations[n] : n \in S} \ {None}
====
