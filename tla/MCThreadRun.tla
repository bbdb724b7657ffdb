----------------------------- MODULE MCThreadRun -----------------------------
EXTENDS ThreadRun, TLC

\* Tool calls of a run are interchangeable.
ToolSymmetry == Permutations(Tools)
=============================================================================
