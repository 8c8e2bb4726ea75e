SPECIFICATION Spec
CONSTANTS
    Users = {u1, u2, u3}
    Subjects = {s1}
    Groups = {g1}
    Roles = {"super_admin", "operator"}
    Scopes = {"global"}
    Managers = {"super_admin"}
    Reqs = {r1, r2}
    NoUser = NoUser
    NoSubject = NoSubject
    SkipDefaultAdmin = FALSE
    MaxBegun = 5
SYMMETRY Symmetry
INVARIANTS
    BootHeals
    KeepsARole
    OnlyEarned
PROPERTIES
    SyncSparesManual
