\* Two processes, thread_group_set.json missing or deleted at will.
CONSTANTS
    Procs = {p1, p2}
    Mtimes = {1, 2}
    MaxNum = 3
SPECIFICATION Spec
SYMMETRY ProcSymmetry
CONSTRAINT Claimed
INVARIANTS IdsIncrease NewDirIsFree
PROPERTIES FileNeverGoesBack
