CONSTANTS
    g1 = g1
    g2 = g2
    g3 = g3
    r1 = r1
    r2 = r2
    c1 = c1
    c2 = c2
    i1 = i1
    i2 = i2
    t1 = t1
    t2 = t2
    d1 = d1
    d2 = d2
    h1 = h1
    s1 = s1
    s2 = s2
    w1 = w1
    None = None
    Condo = {c1, c2}
    Resident = {r1, r2}
    ResidentOf <- MCResidentOf
    CondoOf <- MCCondoOf
    Guest = {g1, g2, g3}
    ById <- MCById
    Invite = {i1, i2}
    Token = {t1, t2}
    Device = {d1, d2}
    Human = {h1}
    Issuer = {s1, s2}
    Revoker = {w1}
    Limits = {1, None}
    Scenarios <- MCSafety
SPECIFICATION Spec
SYMMETRY Symmetry
INVARIANTS
    TypeOK
    OneEntryPerInvitation
PROPERTIES
    EntryIsAuthorized
    LiveTokenKept
    IssuedWithinLimit
    IssuedToLiveParents
