SPECIFICATION Spec
CONSTANTS
    Certs = {c1}
    Workers = {w1, w2, w3}
    NoCert = NoCert
    MayGoBack = FALSE
    MaxIssues = 3
    MaxMints = 3
SYMMETRY Symmetry
INVARIANTS
    RefResolves
    SweptBeforeServing
    ServesLatest
    PasswordKept
PROPERTIES
    NothingIsLost
