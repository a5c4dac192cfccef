CONSTANTS
    one = one
    other = other
    Type = {"hero", "fx", "own", "mark"}
    Persistent = {"hero", "own", "mark"}
    Recorded = {"hero", "fx", "own"}
    Restorable = {"hero", "fx", "mark"}
    Fingerprint = {one, other}
    Schema <- MCSchema
    MaxValue <- MCMaxValue
    MaxID = 2
    MaxSave = 2
    MaxCrash = 1
SPECIFICATION Spec
INVARIANT SnapshotIntact
PROPERTY LoadRestores
CHECK_DEADLOCK FALSE
