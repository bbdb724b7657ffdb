---------------------------- MODULE MCThreadIds ----------------------------
(* Model-checking instance of ThreadIds: processes are interchangeable.    *)
EXTENDS ThreadIds, TLC

\* Two processes that find the file missing may share a directory; nothing is
\* claimed of them, so such behaviours are not continued.
Claimed == ~(missed /\ shared)

ProcSymmetry == Permutations(Procs)
=============================================================================
