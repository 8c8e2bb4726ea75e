SPECIFICATION PostsOnlySpec
CONSTANTS
    Certs = {c1, c2}
    Names = {n1}
    Reqs = {r1, r2}
    Sched = sched
    Algos = {a1}
    DefaultAlgo = a1
    NoCert = NoCert
    NoName = NoName
    NoAlgo = NoAlgo
    NoMaterial = NoMaterial
    MaxIssues = 2
    MaxFaults = 0
SYMMETRY Symmetry
INVARIANTS
    NeverDoubleIssue
