SPECIFICATION ReaderSpec
CONSTANTS
    Names <- SomeNames
    Texts <- OutOfFrame
    Garbage <- SomeGarbage
INVARIANTS
    AcceptedInFrame
