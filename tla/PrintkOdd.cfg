\* One call with the three directives that do not print what they should.
SPECIFICATION Spec
CONSTANTS
    BITS_PER_BYTE = 2
    Formats <- OddCall
    Values <- OddValue
    Strings <- NoStrings
CHECK_DEADLOCK FALSE
INVARIANTS
    SomeAppropriate
