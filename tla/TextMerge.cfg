CONSTANTS
    NumActors = 2
    BaseLength = 2
    MaxText = 2
    MaxOps = 3

SPECIFICATION Spec

INVARIANTS
    TypeOK
    AnyOrderConverges
    NothingIsSplit
    UndoTakesOnlyItsOwn

PROPERTIES
    LandsWhereTyped

CHECK_DEADLOCK FALSE
