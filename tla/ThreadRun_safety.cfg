\* No save fails; the thread is of an old release; a failing run may leave tool calls behind.
CONSTANTS
    MaxRuns = 2
    t1 = t1
    t2 = t2
    Tools = {t1, t2}
    SaveMayFail = FALSE
    OldThread = TRUE
    ToolsMayLinger = TRUE
SPECIFICATION Spec
INVARIANTS StateMatchesWorker BlockedHasAsker PromptsAreLive ResultsMatchDialogue
PROPERTIES DialogueAppendOnly ImplementsChatLog
SYMMETRY ToolSymmetry
