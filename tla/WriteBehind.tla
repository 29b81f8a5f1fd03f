---- MODULE WriteBehind ----
(***************************************************************************)
(* What a write-behind queue promises.  Callers hand over items and go on; *)
(* the items are saved later, in batches of any size and in any order.  A  *)
(* caller may wait, and its wait ends only when every item handed over     *)
(* before the wait began is saved.  NodeStore's BatchWriter and the writer *)
(* of stale validations both implement this specification.                 *)
(***************************************************************************)
EXTENDS FiniteSets

CONSTANT Items

VARIABLES
  accepted,   \* the items handed over so far
  saved,      \* the items that are on disk
  waiting,    \* whether a caller waits
  due         \* what had been handed over when the wait began

vars == <<accepted, saved, waiting, due>>

Init ==
  /\ accepted = {} /\ saved = {}
  /\ waiting = FALSE /\ due = {}

Accept(S) ==
  /\ accepted' = accepted \cup S
  /\ UNCHANGED <<saved, waiting, due>>

Save(S) ==
  /\ S \subseteq accepted
  /\ saved' = saved \cup S
  /\ UNCHANGED <<accepted, waiting, due>>

\* A caller may hand over its last items in the step that starts its wait.
BeginWait(S) ==
  /\ ~waiting
  /\ accepted' = accepted \cup S
  /\ waiting' = TRUE /\ due' = accepted'
  /\ UNCHANGED saved

EndWait ==
  /\ waiting /\ due \subseteq saved
  /\ waiting' = FALSE /\ due' = {}
  /\ UNCHANGED <<accepted, saved>>

Next ==
  \/ \E S \in SUBSET Items : Accept(S) \/ Save(S) \/ BeginWait(S)
  \/ EndWait

Spec == Init /\ [][Next]_vars

\* Nothing that was handed over stays unsaved, and nobody waits forever.
SaveItem(x) == \E S \in SUBSET Items : x \in S \ saved /\ Save(S)
FairSpec ==
  /\ Spec
  /\ \A x \in Items : WF_vars(SaveItem(x))
  /\ WF_vars(EndWait)
====
