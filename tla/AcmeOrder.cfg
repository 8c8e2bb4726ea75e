SPECIFICATION FairSpec
CONSTANTS
    o1 = o1 
    o2 = o2
    apex = apex
    wildcard = wildcard
    other = other
    p1 = p1
    p2 = p2
    Orders = {o1, o2}
    Auths = {apex, wildcard, other}
    Names <- TheDomains
    NameOf <- TheNames
    Needs <- TheNeeds
    Reusable = {other}
    Providers = {p1, p2}
    Kind <- TheKinds
    Rank <- TheRanks
    Zones <- TheZones
    Holder <- TheHolder
    Crowded = {p1}
    NoProvider = NoProvider
    NoName = NoName
    MaxPolls = 1
    MaxFaults = 1
CHECK_DEADLOCK FALSE
INVARIANTS
    UndisturbedIsValid
    LeftoverHasCause
PROPERTIES
    OrderEnds
