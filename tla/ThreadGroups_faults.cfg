\* Two legacy directories with or without ids, crashes anywhere, inside a write or a removal too.
CONSTANTS
    MaxId = 3
    LegacyNames = {"crc_1", "crc_2"}
    LegacyMayLackId = TRUE
    CrashMayHappen = TRUE
    TornWrites = TRUE
SPECIFICATION Spec
INVARIANTS LossNeedsCut OneHome PanicNeedsHalfMove
PROPERTIES NamelessKept
