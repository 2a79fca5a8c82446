----------------------------- MODULE MCSamplePool -----------------------------
(* One reader, two committing clients, and sources that differ in generation,
   kind and outcome: a full success, a partial one and an empty selection (its
   generation is 0: never a duplicate). *)
EXTENDS SamplePool, TLC

CONSTANTS c1, c2

Source(g, k, f, b) == [gen |-> g, kind |-> k, options |-> 0, files |-> f, bad |-> b]

MCSources == { Source(1, "paths", 2, 0), Source(1, "memory", 2, 1), Source(0, "paths", 0, 0) }
=============================================================================
