SPECIFICATION FairWalkSpec
CONSTANTS
    Target <- TheTarget
    Zones <- TheZones
    Nameservers <- TheNameservers
    Glued <- TheGlued
    HostAddrs <- TheHostAddrs
    MaxDepth = 3
    MaxFaults = 2
    NoZone = NoZone
CHECK_DEADLOCK FALSE
INVARIANTS
    ServersEncloseTarget
    FindsTheCut
PROPERTIES
    WalkReturns
