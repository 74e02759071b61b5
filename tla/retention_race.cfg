CONSTANTS
    Guest = {g1, g2}
    Issuer = {s1}
    Validator = {v1}
    Job = {j1}
    BatchSize = 1
    MaxRequests = 2
    MaxCrashes = 1
    None = None
SPECIFICATION Spec
SYMMETRY Symmetry
PROPERTIES
    OnlyStaleForgotten
