----------------------------- MODULE MCGfxEcho -----------------------------
EXTENDS GfxEcho

CONSTANT w

OneReader   == {w}
TwoSurfaces == 1..2

=============================================================================
