SPECIFICATION SpecWindow
CONSTANTS
    HalfRange = 5
    AckWindow = 3
    MaxNumber = 13
INVARIANT WindowExact
