CONSTANTS
    Guest = {g1, g2}
    Issuer = {s1}
    Validator = {v1}
    Job = {j1, j2}
    BatchSize = 1
    MaxRequests = 4
    MaxCrashes = 1
    None = None
SPECIFICATION FairSpec
INVARIANTS
    TypeOK
    NamesForgotten
PROPERTIES
    AnonymizedIsHistorical
    EventuallyForgotten
