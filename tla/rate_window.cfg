CONSTANTS
    ip = ip
    digest = digest
    account = account
    q1 = q1
    q2 = q2
    q3 = q3
    None = None
    Bucket = {ip, digest, account}
    Policy <- MCPolicy
    Request = {q1, q2, q3}
    Cleaner = {}
    Traffic <- MCOnlyChecks
    IdleTime = 3
    MaxTime = 5
CHECK_DEADLOCK FALSE
SPECIFICATION Spec
SYMMETRY Symmetry
PROPERTIES
    ExpiredWindowResets
