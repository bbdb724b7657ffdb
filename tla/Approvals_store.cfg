\* Two tool calls at a time, directories inside one another, failing writes, kills and restarts.
CONSTANTS
    Procs = {p1}
    Callers = {c1, c2}
    NoCaller = NoCaller
    Requests <- Nested
    SetupRuns = "first"
    WritesMayFail = TRUE
SPECIFICATION Spec
SYMMETRY ApprovalSymmetry
INVARIANTS FileIsWhole AllowedWasGranted
