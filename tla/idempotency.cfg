CONSTANTS
    Request = {r1, r2, r3}
    Key = {k1}
    Hash = {h1, h2}
    MaxAttempts = 2
    BatchSize = 1
    MaxRequests = 3
    MaxCrashes = 1
    None = None
SPECIFICATION FairSpec
INVARIANTS
    TypeOK
    OneBatchPerWindow
    AnswersTheRequest
PROPERTIES
    EveryRequestAnswered
