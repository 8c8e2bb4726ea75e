SPECIFICATION Spec
CONSTANTS
    Names <- TheNames
    Servers <- TheServers
    NsOf <- TheNsOf
    AddrsOf <- TheAddrsOf
    Expected <- TheExpected
    Timeout = 2
    QueryTime = 1
    PollInterval = 1
    MaxTurns = 1
INVARIANTS
    ReadyIsServed
    GivesUpForCause
    EndsInTime
