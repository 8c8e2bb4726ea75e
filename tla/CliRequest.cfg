SPECIFICATION FairSpec
CONSTANTS
    Outputs <- Files
    Pfx = TRUE
    Issuer <- Intermediates
    Removable = {"fullchain", "privkey", "pfx", "sidecar"}
    MaxGen = 3
    MaxPw = 2
    MaxFaults = 2
INVARIANTS
    SidecarIsBehind
PROPERTIES
    QuietRunIsConsistent
    FilesCatchUp
