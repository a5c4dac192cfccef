SPECIFICATION Spec
CONSTANTS
    Tasks = {t1, t2}
    Posts = {p1, p2}
    Workers = {w1, w2}
    NoItem = NoItem
    Outcomes = {"nil", "error", "panic"}
    TaskQueueCapacity = 1
    PostQueueCapacity = 2
    TaskCompletionQueueCapacity = 1
    AsyncCallbacksPerTick = 1
SYMMETRY Symmetry
INVARIANTS CancelAfterMark CountersExact StoppedQuiescent
PROPERTIES RoundRobin
