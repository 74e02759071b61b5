CONSTANTS
    ip = ip
    digest = digest
    account = account
    q1 = q1
    q2 = q2
    q3 = q3
    None = None
    Bucket = {ip, digest, account}
    Policy <- MCPolicy
    Request = {q1, q2, q3}
    Cleaner = {k1}
    Traffic <- MCTraffic
    IdleTime = 3
    MaxTime = 5
SPECIFICATION Spec
SYMMETRY Symmetry
INVARIANTS
    TypeOK
    CountersExact
    BudgetHolds
PROPERTIES
    ExpiredWindowAdmits
