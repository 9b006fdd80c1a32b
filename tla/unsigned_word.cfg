SPECIFICATION AccessSpec
CONSTANTS
    WordBits = 8
    Starts = {7}
    Sizes = {7, 8}
    Scales <- SomeScales
    Frames <- SomeFrames
    Values = {0, 100, 200}
    ShiftOutcomes = {0, 1}
INVARIANTS
    UnsignedNotNegative
