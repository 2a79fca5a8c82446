---------------------------- MODULE MCGfxWorker ----------------------------
(* One reader, the worker: with two slots instead of three its pin already  *)
(* leaves the publisher without one, and with two surfaces the frame being  *)
(* painted leaves the worker without one.                                   *)
EXTENDS GfxWorker

CONSTANT w

OneReader   == {w}
TwoSurfaces == 1..2

=============================================================================
