------------------------------- MODULE SignIn -------------------------------
(***************************************************************************)
(* Sign-in: the password step, the second factor and its challenge, the    *)
(* OIDC callback, sessions and API tokens, and the requests they admit.    *)
(*                                                                         *)
(* Every handler is a process that may be overtaken between two of its     *)
(* statements.  Passwords and codes are right or wrong, and a code is made *)
(* with a secret that the user's authenticator holds.  What a signed-in    *)
(* user may do is Access's concern, and so is the user an OIDC sign-in     *)
(* finds or creates.                                                       *)
(***************************************************************************)
EXTENDS Naturals, FiniteSets

CONSTANTS
    Users, Requests,
    Secrets,     \* TOTP secrets
    Challenges,  \* rows of login_challenges
    States,      \* rows of oidc_states
    Sessions, Tokens,
    NoUser, NoSecret, NoTicket,
    MaxIds,      \* bound: ids and secrets drawn
    MaxOld       \* bound: rows past their expiry

ASSUME SignInAssumption ==
    /\ NoUser \notin Users
    /\ NoSecret \notin Secrets
    /\ Challenges \cap States = {}
    /\ NoTicket \notin Challenges \cup States
    /\ MaxIds \in Nat /\ MaxOld \in Nat

\* What a session is exchanged for when it is not the password alone.
Tickets == Challenges \cup States

VARIABLES
    users,
    secret, verified,  \* user_totp: the secret of a user, and who has verified it
    owner, open,       \* challenges and states: whose, and those that have a row
    session, token,    \* whose; NoUser when there is no row
    old,               \* sessions, tickets and tokens past their expiry
    used,              \* ids drawn so far: they are random
    authenticator,     \* the secrets a user's authenticator holds
    pc,
    who,               \* the user a request is about
    ticket,            \* the one it redeems
    hand,              \* the secret it has read
    \* observation only
    from,      \* the ticket a session was minted for
    covered,   \* logins that began with the factor in force, which it has been since
    crossed,   \* users who enrolled again while a confirmation was under way
    shared     \* tickets read by two requests at once, or whose DELETE was lost

rows  == <<users, secret, verified, owner, open, session, token>>
vars  == <<users, secret, verified, owner, open, session, token, old, used, authenticator,
           pc, who, ticket, hand, from, covered, crossed, shared>>

Phases == {"idle", "factor", "challenge", "spend", "code", "user", "exchange", "mint", "act",
           "stamp"}

TypeOK ==
    /\ users \subseteq Users
    /\ secret \in [Users -> Secrets \cup {NoSecret}]
    /\ verified \subseteq Users
    /\ owner \in [Challenges -> Users \cup {NoUser}]
    /\ open \subseteq Tickets
    /\ session \in [Sessions -> Users \cup {NoUser}]
    /\ token \in [Tokens -> Users \cup {NoUser}]
    /\ old \subseteq Sessions \cup Tickets \cup Tokens
    /\ used \subseteq Secrets \cup Sessions \cup Tickets \cup Tokens
    /\ authenticator \in [Users -> SUBSET Secrets]
    /\ pc \in [Requests -> Phases]
    /\ who \in [Requests -> Users \cup {NoUser}]
    /\ ticket \in [Requests -> Tickets \cup {NoTicket}]
    /\ hand \in [Requests -> Secrets \cup {NoSecret}]
    /\ from \in [Sessions -> Tickets \cup {NoTicket}]
    /\ covered \subseteq Requests
    /\ crossed \subseteq Users
    /\ shared \subseteq Tickets

Init ==
    /\ users = Users
    /\ secret = [u \in Users |-> NoSecret]
    /\ verified = {}
    /\ owner = [c \in Challenges |-> NoUser]
    /\ open = {}
    /\ session = [s \in Sessions |-> NoUser]
    /\ token = [t \in Tokens |-> NoUser]
    /\ old = {}
    /\ used = {}
    /\ authenticator = [u \in Users |-> {}]
    /\ pc = [r \in Requests |-> "idle"]
    /\ who = [r \in Requests |-> NoUser]
    /\ ticket = [r \in Requests |-> NoTicket]
    /\ hand = [r \in Requests |-> NoSecret]
    /\ from = [s \in Sessions |-> NoTicket]
    /\ covered = {}
    /\ crossed = {}
    /\ shared = {}

Goto(r, phase) == pc' = [pc EXCEPT ![r] = phase]

\* The handler returns, with an answer or an error.
Return(r) ==
    /\ pc' = [pc EXCEPT ![r] = "idle"]
    /\ who' = [who EXCEPT ![r] = NoUser]
    /\ ticket' = [ticket EXCEPT ![r] = NoTicket]
    /\ hand' = [hand EXCEPT ![r] = NoSecret]

\* The logins under way that still count as covered once r has returned ...
Uncover(r) == covered' = covered \ {r}

\* ... and those of a user whose factor is required no more.
UncoverUser(u) == covered' = {q \in covered : who[q] # u}

Fresh(id) ==
    /\ id \notin used
    /\ Cardinality(used) < MaxIds
    /\ used' = used \cup {id}

-----------------------------------------------------------------------------
(* POST /api/auth/login.                                                   *)

\* The user is fetched and the password is the right one.
LoginCheck(r, u) ==
    /\ pc[r] = "idle"
    /\ u \in users
    /\ Goto(r, "factor")
    /\ who' = [who EXCEPT ![r] = u]
    /\ covered' = IF u \in verified THEN covered \cup {r} ELSE covered
    /\ UNCHANGED <<rows, old, used, authenticator, ticket, hand, from, crossed, shared>>

\* Does the user have a verified factor?
LoginFactor(r) ==
    /\ pc[r] = "factor"
    /\ Goto(r, IF who[r] \in verified THEN "challenge" ELSE "mint")
    /\ UNCHANGED <<rows, old, used, authenticator, who, ticket, hand, from, covered, crossed,
                   shared>>

\* The challenge refers to a user, who must be there still.
LoginChallenge(r, c) ==
    /\ pc[r] = "challenge"
    /\ who[r] \in users
    /\ Fresh(c)
    /\ owner' = [owner EXCEPT ![c] = who[r]]
    /\ open' = open \cup {c}
    /\ Return(r)
    /\ Uncover(r)
    /\ UNCHANGED <<users, secret, verified, session, token, old, authenticator, from, crossed,
                   shared>>

-----------------------------------------------------------------------------
(* POST /api/auth/login/totp and /api/oidc/callback redeem a ticket.       *)

Redeem(r, x, u) ==
    /\ pc[r] = "idle"
    /\ x \in open
    /\ Goto(r, "spend")
    /\ ticket' = [ticket EXCEPT ![r] = x]
    /\ who' = [who EXCEPT ![r] = u]
    /\ shared' = IF \E q \in Requests : ticket[q] = x THEN shared \cup {x} ELSE shared
    /\ UNCHANGED <<rows, old, used, authenticator, hand, from, covered, crossed>>

TotpRead(r, c) == Redeem(r, c, owner[c])
CallbackRead(r, x) == Redeem(r, x, NoUser)

Spend_Keeps(r) ==
    /\ pc[r] = "spend"
    /\ UNCHANGED <<open, shared>>
    /\ IF ticket[r] \in old
       THEN Return(r) /\ Uncover(r)
       ELSE /\ Goto(r, IF ticket[r] \in Challenges THEN "code" ELSE "exchange")
            /\ UNCHANGED <<who, ticket, hand, covered>>
    /\ UNCHANGED <<users, secret, verified, owner, session, token, old, used, authenticator,
                   from, crossed>>

\* The ticket is deleted, an error of which is ignored, and its age looked at.
Spend(r) ==
    /\ pc[r] = "spend"
    /\ \/ open' = open \ {ticket[r]} /\ UNCHANGED shared
       \/ shared' = shared \cup {ticket[r]} /\ UNCHANGED open
    /\ IF ticket[r] \in old
       THEN Return(r) /\ Uncover(r)
       ELSE /\ Goto(r, IF ticket[r] \in Challenges THEN "code" ELSE "exchange")
            /\ UNCHANGED <<who, ticket, hand, covered>>
    /\ UNCHANGED <<users, secret, verified, owner, session, token, old, used, authenticator,
                   from, crossed>>

\* verify_user_code: the code is one of the verified secret's.
TotpVerify(r) ==
    /\ pc[r] = "code"
    /\ who[r] \in verified
    /\ secret[who[r]] \in authenticator[who[r]]
    /\ Goto(r, "user")
    /\ UNCHANGED <<rows, old, used, authenticator, who, ticket, hand, from, covered, crossed,
                   shared>>

TotpUser(r) ==
    /\ pc[r] = "user"
    /\ who[r] \in users
    /\ Goto(r, "mint")
    /\ UNCHANGED <<rows, old, used, authenticator, who, ticket, hand, from, covered, crossed,
                   shared>>

\* GET /api/auth/oidc/start stores a state and sweeps the old ones.
OidcStart(x) ==
    /\ Fresh(x)
    /\ open' = (open \cup {x}) \ (old \cap States)
    /\ UNCHANGED <<users, secret, verified, owner, session, token, old, authenticator, pc, who,
                   ticket, hand, from, covered, crossed, shared>>

\* The code is exchanged with the provider, and the identity is some user's.
CallbackExchange(r, u) ==
    /\ pc[r] = "exchange"
    /\ u \in users
    /\ Goto(r, "mint")
    /\ who' = [who EXCEPT ![r] = u]
    /\ UNCHANGED <<rows, old, used, authenticator, ticket, hand, from, covered, crossed, shared>>

\* sessions::create: the row refers to a user.
Mint(r, s) ==
    /\ pc[r] = "mint"
    /\ who[r] \in users
    /\ Fresh(s)
    /\ session' = [session EXCEPT ![s] = who[r]]
    /\ from' = [from EXCEPT ![s] = ticket[r]]
    /\ Return(r)
    /\ Uncover(r)
    /\ UNCHANGED <<users, secret, verified, owner, open, token, old, authenticator, crossed,
                   shared>>

-----------------------------------------------------------------------------
(* Requests of a signed-in user.                                           *)

Admit(r, u) ==
    /\ Goto(r, "act")
    /\ who' = [who EXCEPT ![r] = u]
    /\ UNCHANGED <<rows, old, used, authenticator, ticket, hand, from, covered, crossed, shared>>

\* sessions::lookup: the session, joined with its user; one past its expiry is deleted.
SessionLookup(r, s) ==
    /\ pc[r] = "idle"
    /\ session[s] \in users
    /\ s \notin old
    /\ Admit(r, session[s])

SessionReap(s) ==
    /\ session[s] \in users
    /\ s \in old
    /\ session' = [session EXCEPT ![s] = NoUser]
    /\ UNCHANGED <<users, secret, verified, owner, open, token, old, used, authenticator, pc,
                   who, ticket, hand, from, covered, crossed, shared>>

TokenLookup(r, t) ==
    /\ pc[r] = "idle"
    /\ token[t] \in users
    /\ t \notin old
    /\ Admit(r, token[t])

\* POST /api/auth/logout takes the session from the headers and needs no look-up.
Logout(s) ==
    /\ session[s] # NoUser
    /\ session' = [session EXCEPT ![s] = NoUser]
    /\ UNCHANGED <<users, secret, verified, owner, open, token, old, used, authenticator, pc,
                   who, ticket, hand, from, covered, crossed, shared>>

\* POST /api/tokens, whose row refers to a user, and DELETE /api/tokens/:id.
CreateToken(r, t) ==
    /\ pc[r] = "act"
    /\ who[r] \in users
    /\ Fresh(t)
    /\ token' = [token EXCEPT ![t] = who[r]]
    /\ Return(r)
    /\ Uncover(r)
    /\ UNCHANGED <<users, secret, verified, owner, open, session, old, authenticator, from,
                   crossed, shared>>

RevokeToken(r, t) ==
    /\ pc[r] = "act"
    /\ token[t] = who[r]
    /\ token' = [token EXCEPT ![t] = NoUser]
    /\ Return(r)
    /\ Uncover(r)
    /\ UNCHANGED <<users, secret, verified, owner, open, session, old, used, authenticator,
                   from, crossed, shared>>

-----------------------------------------------------------------------------
(* The second factor.                                                      *)

Stamping(u) == \E q \in Requests : pc[q] = "stamp" /\ who[q] = u

Enroll_KeepsVerified(r, k) ==
    /\ pc[r] = "act"
    /\ who[r] \in users
    /\ Fresh(k)
    /\ secret' = [secret EXCEPT ![who[r]] = k]
    /\ UNCHANGED verified
    /\ crossed' = IF Stamping(who[r]) THEN crossed \cup {who[r]} ELSE crossed \ {who[r]}
    /\ \/ authenticator' = [authenticator EXCEPT ![who[r]] = @ \cup {k}]
       \/ UNCHANGED authenticator
    /\ Return(r)
    /\ UncoverUser(who[r])
    /\ UNCHANGED <<users, owner, open, session, token, old, from, shared>>

\* begin_enrollment: a new secret takes the place of the old one, which is required no more.
\* The answer may be lost, or be read and not used.
Enroll(r, k) ==
    /\ pc[r] = "act"
    /\ who[r] \in users
    /\ Fresh(k)
    /\ secret' = [secret EXCEPT ![who[r]] = k]
    /\ verified' = verified \ {who[r]}
    /\ crossed' = IF Stamping(who[r]) THEN crossed \cup {who[r]} ELSE crossed \ {who[r]}
    /\ \/ authenticator' = [authenticator EXCEPT ![who[r]] = @ \cup {k}]
       \/ UNCHANGED authenticator
    /\ Return(r)
    /\ UncoverUser(who[r])
    /\ UNCHANGED <<users, owner, open, session, token, old, from, shared>>

\* confirm_enrollment: the code is one of the stored secret's ...
ConfirmRead(r) ==
    /\ pc[r] = "act"
    /\ secret[who[r]] \in authenticator[who[r]]
    /\ Goto(r, "stamp")
    /\ hand' = [hand EXCEPT ![r] = secret[who[r]]]
    /\ UNCHANGED <<rows, old, used, authenticator, who, ticket, from, covered, crossed, shared>>

\* ... and the row of the user, if there is one, is marked as verified.
ConfirmStamp(r) ==
    /\ pc[r] = "stamp"
    /\ verified' = IF secret[who[r]] # NoSecret THEN verified \cup {who[r]} ELSE verified
    /\ Return(r)
    /\ Uncover(r)
    /\ UNCHANGED <<users, secret, owner, open, session, token, old, used, authenticator, from,
                   crossed, shared>>

Disable(r) ==
    /\ pc[r] = "act"
    /\ secret' = [secret EXCEPT ![who[r]] = NoSecret]
    /\ verified' = verified \ {who[r]}
    /\ Return(r)
    /\ UncoverUser(who[r])
    /\ UNCHANGED <<users, owner, open, session, token, old, used, authenticator, from, crossed,
                   shared>>

-----------------------------------------------------------------------------

\* DELETE /api/users/:id, by somebody else: what refers to the user goes with the row.
DeleteUser(u) ==
    /\ u \in users
    /\ users' = users \ {u}
    /\ secret' = [secret EXCEPT ![u] = NoSecret]
    /\ verified' = verified \ {u}
    /\ open' = open \ {c \in Challenges : owner[c] = u}
    /\ session' = [s \in Sessions |-> IF session[s] = u THEN NoUser ELSE session[s]]
    /\ token' = [t \in Tokens |-> IF token[t] = u THEN NoUser ELSE token[t]]
    /\ UncoverUser(u)
    /\ UNCHANGED <<owner, old, used, authenticator, pc, who, ticket, hand, from, crossed, shared>>

\* Eight hours, five or ten minutes, or the token's own date.
Expire(x) ==
    /\ x \in used \cap (Sessions \cup Tickets \cup Tokens)
    /\ x \notin old
    /\ Cardinality(old) < MaxOld
    /\ old' = old \cup {x}
    /\ UNCHANGED <<rows, used, authenticator, pc, who, ticket, hand, from, covered, crossed,
                   shared>>

\* Any other end of a handler: a wrong code, a missing row, an error of the database or the
\* provider, a client that has gone, or a handler that changes nothing of this.
Abandon(r) ==
    /\ pc[r] # "idle"
    /\ Return(r)
    /\ Uncover(r)
    /\ UNCHANGED <<rows, old, used, authenticator, from, crossed, shared>>

Step(r) ==
    \/ \E u \in Users : LoginCheck(r, u) \/ CallbackExchange(r, u)
    \/ LoginFactor(r)
    \/ \E c \in Challenges : LoginChallenge(r, c) \/ TotpRead(r, c)
    \/ \E x \in States : CallbackRead(r, x)
    \/ Spend(r) \/ TotpVerify(r) \/ TotpUser(r)
    \/ \E s \in Sessions : Mint(r, s) \/ SessionLookup(r, s)
    \/ \E t \in Tokens : TokenLookup(r, t) \/ CreateToken(r, t) \/ RevokeToken(r, t)
    \/ \E k \in Secrets : Enroll(r, k)
    \/ ConfirmRead(r) \/ ConfirmStamp(r) \/ Disable(r)
    \/ Abandon(r)

Next ==
    \/ \E r \in Requests : Step(r)
    \/ \E x \in States : OidcStart(x)
    \/ \E s \in Sessions : SessionReap(s) \/ Logout(s)
    \/ \E u \in Users : DeleteUser(u)
    \/ \E x \in Sessions \cup Tickets \cup Tokens : Expire(x)

Spec == Init /\ [][Next]_vars

-----------------------------------------------------------------------------
(* Properties.                                                             *)

\* A factor that is required at sign-in is one the user has shown to hold: nobody is locked
\* out by an enrolment whose answer was lost or never scanned.  The exception is the user who
\* enrolled again while a confirmation of the secret before was under way, since the
\* confirmation marks the row whatever secret it has by then.
RequiredIsHeld ==
    \A u \in verified : secret[u] \in authenticator[u] \/ u \in crossed

\* auth.rs: "Reads + deletes the challenge so a single OTP can't be re-used"; oidc.rs says the
\* same of the state.  No two sessions come from one ticket, unless two requests read it
\* before either deleted it or the DELETE was lost.
TicketSpentOnce ==
    \A s, t \in Sessions :
        s # t /\ from[s] = from[t] /\ from[s] # NoTicket => from[s] \in shared

\* A login that began with the factor in force, and it has been since, does not mint a session
\* for the password alone.
FactorIsAsked ==
    \A r \in covered : ~(pc[r] = "mint" /\ ticket[r] = NoTicket)

\* Deletion wins against every handler under way: no session, token, challenge or factor is
\* left for a user who is not there, nor comes back.
NothingOutlivesUser ==
    /\ \A s \in Sessions : session[s] \in users \cup {NoUser}
    /\ \A t \in Tokens : token[t] \in users \cup {NoUser}
    /\ \A c \in open \cap Challenges : owner[c] \in users
    /\ \A u \in Users \ users : secret[u] = NoSecret /\ u \notin verified

=============================================================================
