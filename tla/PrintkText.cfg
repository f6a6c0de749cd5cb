\* Every format string of five characters, and every directive alone.
SPECIFICATION Spec
CONSTANTS
    BITS_PER_BYTE = 2
    Formats <- TextFormats
    Values <- EdgesAlone
    Strings <- TwoStrings
CHECK_DEADLOCK FALSE
INVARIANTS
    TextCorrect
    BytesCounted
