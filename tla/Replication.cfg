SPECIFICATION Spec
CONSTANTS
    Entities = {1, 2}
    Fields = {"a", "p"}
    CompactSlack = 0
    Scenarios <- Situations
INVARIANTS NothingForgotten KnownMatchesClient
PROPERTIES PrivateOnlyToOwner NeverGoesBack
CHECK_DEADLOCK FALSE
