CONSTANTS
    e1 = e1
    e2 = e2
    d1 = d1
    p1 = p1
    p2 = p2
    a1 = a1
    None = None
    Event = {e1, e2}
    Digest = {d1, d2}
    Account = {a1}
    Scenarios <- MCScenarios
    Process = {p1, p2}
    Lane = {1, 2}
    MaxAttempts <- MCMaxAttempts
    BatchSize = 2
SPECIFICATION FairSpec
INVARIANTS
    TypeOK
    AcknowledgedIsRevoked
PROPERTIES
    SettledIsFinal
    AcceptedIsSettled
