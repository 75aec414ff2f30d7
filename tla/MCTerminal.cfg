SPECIFICATION Spec
CONSTANTS
    Narrow <- MCNarrow
    Wide <- MCWide
    ScrollbackMax = 3
    SeqMax = 2
    Sizes <- MCSizes
    Spots <- MCSpots
    Outputs <- MCOutputs
    Budgets <- MCBudgets
INVARIANTS
    ScreenHolds
    PlainOutputIsKept
    PressesAreReleased
    StreamIsReadAsWritten
PROPERTIES
    ViewIsAnchored
    SelectionIsStable
CHECK_DEADLOCK FALSE
