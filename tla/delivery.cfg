CONSTANTS
    p1 = p1
    p2 = p2
    Proc = {p1, p2}
    Intent = {i1, i2}
    WorkerOf <- MCSharedWorker
    NoOwner = NoOwner
    Deployments <- MCDeployments
    Unreadable = {i2}
    BatchSize = 2
    Concurrency = 2
    MaxFaults = 2
SPECIFICATION FairSpec
INVARIANTS
    TypeOK
    SchemaChecks
    OneLeaseHolder
    AttemptsWithinPolicy
    AttemptsAreObserved
    DeadLetterJustified
PROPERTIES
    ImplementsOutbox
    EveryIntentCloses
