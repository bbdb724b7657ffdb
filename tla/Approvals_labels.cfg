\* One tool call at a time, every kind of request.
CONSTANTS
    Procs = {p1}
    Callers = {c1}
    NoCaller = NoCaller
    Requests <- Mixed
    SetupRuns = "first"
    WritesMayFail = FALSE
SPECIFICATION Spec
SYMMETRY ApprovalSymmetry
INVARIANTS GrantsHonoured
