\* One commit of each side, one file; the program may die and ws.json or a
\* clone may fail.
CONSTANTS
    AgentCommits = {a1}
    UserCommits = {u1}
    Files = {f1}
    Faults = {"crash", "save", "clone"}
SPECIFICATION Spec
INVARIANTS SandboxHasOrigin MergeTakesAll RemoteIsTemporary
PROPERTIES WorkKept CommitNeedsYes OperationsEnd
