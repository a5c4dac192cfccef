SPECIFICATION FairSpec
CONSTANTS
    Tasks = {t1, t2}
    Posts = {p1}
    Workers = {w1}
    NoItem = NoItem
    Outcomes = {"nil"}
    TaskQueueCapacity = 1
    PostQueueCapacity = 1
    TaskCompletionQueueCapacity = 1
    AsyncCallbacksPerTick = 1
PROPERTIES WorkCompletes RunReturns
