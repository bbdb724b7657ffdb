\* Both panes of a view, a run with a retry, archiving.
CONSTANTS
    TabWidth = 2
    Dialogue <- OneLine
    Contents <- OneChunk
    Reasonings <- OneThought
    UserRunes = {"x"}
    HistoryKeys = {"up", "end"}
    InputKeys = {"home"}
    MaxDraft = 2
    MaxNote = 1
    MaxRuns = 1
    Height = 2
    Widths = {2, 3}
    HistoryWrap = "hard"
    PrefChanges = "idle"
SPECIFICATION ViewSpec
INVARIANTS DraftKept
PROPERTIES ReaderNotCarriedAhead
