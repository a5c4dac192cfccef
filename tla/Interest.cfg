SPECIFICATION SpecInterest
CONSTANTS
    Entities = {1, 2}
    Fields = {"a", "p"}
    CompactSlack = 0
    Scenarios <- Situations
    CellSize = 2
    Places <- Points
    PosField = "a"
    Settings <- SettingsHere
INVARIANTS GridQueryExact InterestComplete
PROPERTIES KnownFollowsPositions InterestConfined
CHECK_DEADLOCK FALSE
