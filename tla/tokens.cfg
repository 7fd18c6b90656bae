SPECIFICATION Spec
CONSTANTS
    Codes = {k1, k2, k3}
    Pairs = {n1, n2, n3, n4}
    Requests = {q1, q2}
    CodeTtl = 1
    AccessTtl = 1
    RefreshTtl = 2
    MaxCodes = 2
    MaxAccess = 2
    MaxTime = 3
SYMMETRY Symmetry
INVARIANTS TypeOK OnePairPerGrant BooksBounded
PROPERTIES EndedGrantMintsNothing FreshTokensAreKept ImplementsGrant
