SPECIFICATION Spec
CONSTANTS
    MaxId = 3
    Pos <- MCPos
    Colliders <- MCColliders
    Rules <- MCRules
    Queries <- MCQueries
    Backends = {"cp", "resolv", "simple"}
    MaxOps = 1
    MaxTicks = 2
CHECK_DEADLOCK FALSE
INVARIANTS EventsAlternate ToldIsContact QueriesExact
PROPERTIES ContactsAreReal
