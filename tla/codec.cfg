SPECIFICATION AccessSpec
CONSTANTS
    WordBits = 10
    Starts = {0, 1, 2, 3, 4, 5, 6, 7, 8, 9, 10, 11, 12, 13, 14, 15, 16}
    Sizes = {1, 2, 3, 4, 5, 6, 7, 8, 9, 10}
    Scales <- SomeScales
    Frames <- SomeFrames
    Values <- SomeValues
    ShiftOutcomes = {0, 1}
INVARIANTS
    WritesItsBits
    ReadsItsBits
    CutMakesUpNothing
    ScalesBack
