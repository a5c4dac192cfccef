SPECIFICATION Spec
CONSTANTS
    HalfRange = 8
    AckWindow = 2
    RetryLimit = 2
    EventualLimit = 1
    Scenarios <- Sessions
INVARIANTS DeliveredOnce OrderedDelivery AcksSound VerdictsSound
CHECK_DEADLOCK FALSE
