CONSTANTS
    a1 = a1
    a2 = a2
    m1 = m1
    m2 = m2
    m3 = m3
    c1 = c1
    None = None
    Account = {a1, a2}
    Membership = {m1, m2, m3}
    Condo = {c1}
    AccountId <- MCAccountId
    AccountOf <- MCAccountOf
    CondoOf <- MCCondoOf
    Proc = {p1, p2}
    Scenarios <- MCSafety
    MaxRequests = 4
    MaxHandoffs = 3
SPECIFICATION Spec
SYMMETRY Symmetry
INVARIANTS
    TypeOK
    OneLivePerFamily
    OneSessionPerHandoff
    UnrevokedIsCurrent
    AuthenticatedAfterUpdate
PROPERTIES
    EndedIsFinal
