------------------------------ MODULE MCProgress ------------------------------
(* Model-checking instance of Progress.                                    *)
EXTENDS Progress, TLC

ProgressSymmetry == Permutations(Publishers) \cup Permutations(Subscribers)
=============================================================================
