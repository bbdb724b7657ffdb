\* The input pane under every sequence of keys.
CONSTANTS
    TabWidth = 2
    Typed = {"x"}
    Texts <- Refreshed
    Sizes <- SmallSizes
    MaxInput = 6
    HasInput = TRUE
    WrapMode = "hard"
SPECIFICATION Spec
INVARIANTS EveryColumnHasARow ErasingUndoesTyping UpReachesTheTop ThumbShown KeysShowTheCursor
