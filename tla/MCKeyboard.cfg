CONSTANTS
    CONSOLE_ROW = 2
    CONSOLE_COLUMN = 2
    MaxText = 5
    Keys <- SomeKeys
    MaxQueue = 3
    MaxEvents = 4
SPECIFICATION Spec
INVARIANTS
    ScreenShowsTail
    NoStickyModifier
    SwallowedBounded
PROPERTIES
    PrefixedKeysPrintNothing
\* the bounds are reached
CHECK_DEADLOCK FALSE
