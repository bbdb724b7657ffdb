------------------------------ MODULE MCAtomicFS ------------------------------
(* Model-checking instance of AtomicFS: two goroutines of one process and  *)
(* one of another.                                                         *)
EXTENDS AtomicFS, TLC

CONSTANTS a, b, c

TwoAndOne == (a :> "p" @@ b :> "p" @@ c :> "q")
=============================================================================
