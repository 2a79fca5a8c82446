----------------------------- MODULE MCJsfxTasks -----------------------------
(* Two workers, as in the code; three slots let a parent, its child and a job
   either depends on exist at once. *)
EXTENDS JsfxTasks

CONSTANTS w1, w2

WorkerPermutations == Permutations({w1, w2})
=============================================================================
