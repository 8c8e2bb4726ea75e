SPECIFICATION Spec
CONSTANTS
    Users = {u1}
    Requests = {r1, r2}
    Secrets = {k1, k2}
    Challenges = {c1}
    States = {x1}
    Sessions = {s1, s2, s3}
    Tokens = {t1}
    NoUser = NoUser
    NoSecret = NoSecret
    NoTicket = NoTicket
    MaxIds = 5
    MaxOld = 1
SYMMETRY Symmetry
CHECK_DEADLOCK FALSE
INVARIANTS
    RequiredIsHeld
    TicketSpentOnce
