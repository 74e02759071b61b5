SPECIFICATION Spec
CONSTANTS
    pv = pv
    an = an
    bo = bo
    mp = mp
    a1 = a1
    a2 = a2
    mb = mb
    c1 = c1
    c2 = c2
    t1 = t1
    t2 = t2
    s1 = s1
    s2 = s2
    None = None
    Account = {pv, an, bo}
    Membership = {mp, a1, a2, mb}
    Condo = {c1, c2}
    Token = {t1, t2}
    Subject = {s1, s2}
    Proc = {p1, p2}
    AccountOf <- MCAccountOf
    CondoOf <- MCCondoOf
    Cohort <- MCCohort
    Approved <- MCApproved
    Scenarios <- MCScenarios
    MaxRequests = 4
SYMMETRY Symmetry
INVARIANTS
    TypeOK
    RolloutHolds
    AcceptedOnce
    HistoryIsLinear
