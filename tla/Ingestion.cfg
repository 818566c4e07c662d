SPECIFICATION FairSpec
CONSTANTS
    d1 = d1
    k2 = k2
    k1 = k1
    NoSource = NoSource
    NoWorker = NoWorker
    Sources = {d1, k2}
    KindOf <- DocumentAndSnippet
    Requests = {r1}
    Workers = {w1}
    MaxStalled = 1
INVARIANTS
    OutcomeCoherent
    ReadyHasItsChunks
    RemovedLeavesNoChunks
PROPERTIES
    QueuedIsSettled
CHECK_DEADLOCK FALSE
