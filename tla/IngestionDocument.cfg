SPECIFICATION Spec
CONSTANTS
    d1 = d1
    k1 = k1
    k2 = k2
    NoSource = NoSource
    NoWorker = NoWorker
    Sources = {d1, k1, k2}
    KindOf <- OneOfEach
    Requests = {r1, r2}
    Workers = {w1, w2}
    MaxStalled = 1
CONSTRAINT OneSource
INVARIANTS
    EnqueuedOnce
    JobAfterUpload
    NeverStuckProcessing
    CopiesBounded
PROPERTIES
    ImplementsLifecycle
CHECK_DEADLOCK FALSE
