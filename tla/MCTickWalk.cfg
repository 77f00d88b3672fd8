SPECIFICATION WalkSpec
CONSTANTS
    MIN_TICK_INDEX <- MCMin
    MAX_TICK_INDEX = 4
    TICK_ARRAY_SIZE = 2
    TickSpacing = 2
    MaxArrays = 3
INVARIANTS NoTickSkipped GoodArraysWalked
PROPERTIES ImplementsOrder
CHECK_DEADLOCK FALSE
