----------------------------- MODULE MCJobQueue -----------------------------
(* Instances of JobQueue for TLC: a type limited to one running job (as      *)
(* jtNETOP_TIMER), a higher one limited to one as well or unlimited.         *)
EXTENDS JobQueue, TLC

MCTypes == {1, 2}
MCLimit == (1 :> 1) @@ (2 :> 1)
MCSkip == (1 :> FALSE) @@ (2 :> TRUE)
=============================================================================
