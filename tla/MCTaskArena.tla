---------------------------- MODULE MCTaskArena ----------------------------
(* Two workers, as in the code, and one heap more than an instance ever    *)
(* needs: the live one, the arena's and one that has been freed.           *)
EXTENDS TaskArena, TLC

HeapsAndWorkers == Permutations(Heaps) \cup Permutations(Workers)

=============================================================================
