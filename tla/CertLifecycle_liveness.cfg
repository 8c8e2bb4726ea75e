SPECIFICATION FairSpec
CONSTANTS
    Certs = {c1}
    Names = {n1}
    Reqs = {r1}
    Sched = sched
    Algos = {a1}
    DefaultAlgo = a1
    NoCert = NoCert
    NoName = NoName
    NoAlgo = NoAlgo
    NoMaterial = NoMaterial
    MaxIssues = 2
    MaxFaults = 1
PROPERTIES
    InFlightSettles
    DueIsRenewed
    FailedIsRetried
