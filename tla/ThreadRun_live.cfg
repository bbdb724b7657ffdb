\* Fair scheduling, one tool call per run; saves fail, and failing runs may leave the call behind.
\* The program ends when the thread cannot be saved on entering it.
CONSTANTS
    MaxRuns = 2
    t1 = t1
    Tools = {t1}
    SaveMayFail = TRUE
    OldThread = FALSE
    ToolsMayLinger = TRUE
SPECIFICATION FairSpec
PROPERTIES RunsEnd ViewReleasesRun StoppedCallsReturn
CHECK_DEADLOCK FALSE
