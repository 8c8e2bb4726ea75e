SPECIFICATION ConfigSpec
CONSTANTS
    i1 = i1
    i2 = i2
    i3 = i3
    r1 = r1
    r2 = r2
    Ids = {i1, i2, i3}
    Reqs = {r1, r2}
    Blocks = 2
    MaxVersion = 3
    MaxAccounts = 2
    MaxFaults = 1
    NoId = NoId
SYMMETRY Symmetry
INVARIANTS
    KeepsCredentials
    ProvisionedInFull
    AccountIsPaired
