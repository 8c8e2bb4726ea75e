SPECIFICATION FairSpec
CONSTANTS
    t1 = t1
    t2 = t2
    Tasks = {t1, t2}
    Boot = boot
    Lease = 4
    Skew = 2
    HttpTimeout = 1
    MaxTime = 6
    MaxFaults = 1
    NoLease = NoLease
CHECK_DEADLOCK FALSE
INVARIANTS
    NeverLapses
    AppliedOnce
    UntrackedHasCause
PROPERTIES
    RequestEnds
