------------------------- MODULE MCSamplePoolStorage -------------------------
(* Three counted references (so that a lease, a bound batch and a
   reader can overlap), the worker, three requests. *)
EXTENDS SamplePoolStorage, TLC

CONSTANTS p1, p2, p3

PinPermutations == Permutations({p1, p2, p3})
=============================================================================
