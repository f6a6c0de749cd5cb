\* Three processes print on a screen of two lines of two characters, which
\* init used before them.
SPECIFICATION ConsoleSpec
CONSTANTS
    VGA_WIDTH = 2
    VGA_HEIGHT = 2
    Contexts = {p1, p2, p3}
    NL = NL
    BLANK = BLANK
    Chars = {a, NL}
    Loaded = {a, BLANK}
    MaxText = 7
SYMMETRY ContextSymmetry
CHECK_DEADLOCK FALSE
INVARIANTS
    TypeOK
    InBounds
    WindowShown
    ConsoleInvariant
PROPERTIES
    HandOver
