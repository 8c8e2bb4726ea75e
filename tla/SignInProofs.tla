---------------------------- MODULE SignInProofs ----------------------------
(***************************************************************************)
(* Proofs about SignIn, for any users, requests, ids and bounds.           *)
(*                                                                         *)
(* RequiredIsHeld needs to know what a confirmation under way has read: as *)
(* long as nobody enrolled again it is the secret the row still has, if    *)
(* there is a row.  TicketSpentOnce needs the requests: a ticket that is   *)
(* not shared is held by one request or by one session, and its row is     *)
(* gone once the request is past the DELETE.                               *)
(***************************************************************************)
EXTENDS SignIn, TLAPS

\* What a request refers to follows from where it is.
Places ==
    \A r \in Requests :
        /\ pc[r] \in {"act", "stamp"} => who[r] \in Users
        /\ ticket[r] # NoTicket => pc[r] \in {"spend", "code", "user", "exchange", "mint"}
        /\ pc[r] \in {"spend", "code", "user", "exchange"} => ticket[r] # NoTicket

\* A confirmation under way has read the secret in the row, unless it was crossed.
Confirming ==
    \A r \in Requests : pc[r] = "stamp" =>
        /\ hand[r] \in authenticator[who[r]]
        /\ secret[who[r]] # NoSecret /\ who[r] \notin crossed => hand[r] = secret[who[r]]

\* A login counts as covered until it has asked, and only while the factor is in force.
CoveredAsk ==
    \A r \in covered : pc[r] \in {"factor", "challenge"} /\ who[r] \in verified

\* Tickets are drawn at random: nobody has one that has not been.
Drawn ==
    /\ open \subseteq used
    /\ \A r \in Requests : ticket[r] # NoTicket => ticket[r] \in used
    /\ \A s \in Sessions : from[s] # NoTicket => from[s] \in used

\* A ticket nobody shares has one holder.
Holders ==
    \A x \in Tickets \ shared :
        /\ \A r, q \in Requests : ticket[r] = x /\ ticket[q] = x => r = q
        /\ \A r \in Requests : ticket[r] = x /\ pc[r] # "spend" => x \notin open
        /\ \A s \in Sessions : from[s] = x =>
              x \notin open /\ \A r \in Requests : ticket[r] # x

-----------------------------------------------------------------------------
\* Every variable keeps its type.
LEMMA TypeStep == TypeOK /\ Places /\ [Next]_vars => TypeOK'
<1>. SUFFICES ASSUME TypeOK, Places, [Next]_vars PROVE TypeOK'
  OBVIOUS
<1>1. ASSUME NEW r \in Requests, NEW u \in Users, LoginCheck(r, u) PROVE TypeOK'
  BY <1>1, SignInAssumption DEF LoginCheck, Goto, TypeOK, Places, rows, Phases, Tickets
<1>2. ASSUME NEW r \in Requests, LoginFactor(r) PROVE TypeOK'
  BY <1>2, SignInAssumption DEF LoginFactor, Goto, TypeOK, Places, rows, Phases, Tickets
<1>3. ASSUME NEW r \in Requests, NEW c \in Challenges, LoginChallenge(r, c) PROVE TypeOK'
  BY <1>3, SignInAssumption DEF LoginChallenge, Return, Uncover, Fresh, TypeOK, Places, rows,
     Phases, Tickets
<1>4. ASSUME NEW r \in Requests, NEW c \in Challenges, TotpRead(r, c) PROVE TypeOK'
  BY <1>4, SignInAssumption DEF TotpRead, Redeem, Goto, TypeOK, Places, rows, Phases, Tickets
<1>5. ASSUME NEW r \in Requests, NEW x \in States, CallbackRead(r, x) PROVE TypeOK'
  BY <1>5, SignInAssumption DEF CallbackRead, Redeem, Goto, TypeOK, Places, rows, Phases, Tickets
<1>6. ASSUME NEW r \in Requests, Spend(r) PROVE TypeOK'
  BY <1>6, SignInAssumption DEF Spend, Return, Uncover, Goto, TypeOK, Places, rows, Phases, Tickets
<1>7. ASSUME NEW r \in Requests, TotpVerify(r) PROVE TypeOK'
  BY <1>7, SignInAssumption DEF TotpVerify, Goto, TypeOK, Places, rows, Phases, Tickets
<1>8. ASSUME NEW r \in Requests, TotpUser(r) PROVE TypeOK'
  BY <1>8, SignInAssumption DEF TotpUser, Goto, TypeOK, Places, rows, Phases, Tickets
<1>9. ASSUME NEW r \in Requests, NEW u \in Users, CallbackExchange(r, u) PROVE TypeOK'
  BY <1>9, SignInAssumption DEF CallbackExchange, Goto, TypeOK, Places, rows, Phases, Tickets
<1>10. ASSUME NEW r \in Requests, NEW s \in Sessions, Mint(r, s) PROVE TypeOK'
  BY <1>10, SignInAssumption DEF Mint, Return, Uncover, Fresh, TypeOK, Places, rows, Phases,
     Tickets
<1>11. ASSUME NEW r \in Requests, NEW s \in Sessions, SessionLookup(r, s) PROVE TypeOK'
  BY <1>11, SignInAssumption DEF SessionLookup, Admit, Goto, TypeOK, Places, rows, Phases, Tickets
<1>12. ASSUME NEW r \in Requests, NEW t \in Tokens, TokenLookup(r, t) PROVE TypeOK'
  BY <1>12, SignInAssumption DEF TokenLookup, Admit, Goto, TypeOK, Places, rows, Phases, Tickets
<1>13. ASSUME NEW r \in Requests, NEW t \in Tokens, CreateToken(r, t) PROVE TypeOK'
  BY <1>13, SignInAssumption DEF CreateToken, Return, Uncover, Fresh, TypeOK, Places, rows,
     Phases, Tickets
<1>14. ASSUME NEW r \in Requests, NEW t \in Tokens, RevokeToken(r, t) PROVE TypeOK'
  BY <1>14, SignInAssumption DEF RevokeToken, Return, Uncover, TypeOK, Places, rows, Phases,
     Tickets
<1>15. ASSUME NEW r \in Requests, NEW k \in Secrets, Enroll(r, k) PROVE TypeOK'
  BY <1>15, SignInAssumption DEF Enroll, Fresh, Return, UncoverUser, Stamping, TypeOK, Places,
     rows, Phases, Tickets
<1>16. ASSUME NEW r \in Requests, ConfirmRead(r) PROVE TypeOK'
  BY <1>16, SignInAssumption DEF ConfirmRead, Goto, TypeOK, Places, rows, Phases, Tickets
<1>17. ASSUME NEW r \in Requests, ConfirmStamp(r) PROVE TypeOK'
  BY <1>17, SignInAssumption DEF ConfirmStamp, Return, Uncover, TypeOK, Places, rows, Phases,
     Tickets
<1>18. ASSUME NEW r \in Requests, Disable(r) PROVE TypeOK'
  BY <1>18, SignInAssumption DEF Disable, Return, UncoverUser, TypeOK, Places, rows, Phases,
     Tickets
<1>19. ASSUME NEW r \in Requests, Abandon(r) PROVE TypeOK'
  BY <1>19, SignInAssumption DEF Abandon, Return, Uncover, TypeOK, Places, rows, Phases, Tickets
<1>20. ASSUME NEW x \in States, OidcStart(x) PROVE TypeOK'
  BY <1>20, SignInAssumption DEF OidcStart, Fresh, TypeOK, Places, rows, Phases, Tickets
<1>21. ASSUME NEW s \in Sessions, SessionReap(s) PROVE TypeOK'
  BY <1>21, SignInAssumption DEF SessionReap, TypeOK, Places, rows, Phases, Tickets
<1>22. ASSUME NEW s \in Sessions, Logout(s) PROVE TypeOK'
  BY <1>22, SignInAssumption DEF Logout, TypeOK, Places, rows, Phases, Tickets
<1>23. ASSUME NEW u \in Users, DeleteUser(u) PROVE TypeOK'
  BY <1>23, SignInAssumption DEF DeleteUser, UncoverUser, TypeOK, Places, rows, Phases, Tickets
<1>24. ASSUME NEW x \in Sessions \cup Tickets \cup Tokens, Expire(x) PROVE TypeOK'
  BY <1>24, SignInAssumption DEF Expire, TypeOK, Places, rows, Phases, Tickets
<1>25. CASE UNCHANGED vars
  BY <1>25 DEF vars, rows, TypeOK, Places, rows, Phases, Tickets
<1>. QED
  BY <1>1, <1>2, <1>3, <1>4, <1>5, <1>6, <1>7, <1>8, <1>9, <1>10, <1>11, <1>12, <1>13, <1>14,
     <1>15, <1>16, <1>17, <1>18, <1>19, <1>20, <1>21, <1>22, <1>23, <1>24, <1>25 DEF Next, Step

\* Every step keeps what requests refer to.
LEMMA PlacesStep == TypeOK /\ Places /\ [Next]_vars => Places'
<1>. SUFFICES ASSUME TypeOK, Places, [Next]_vars PROVE Places'
  OBVIOUS
<1>1. ASSUME NEW r \in Requests, NEW u \in Users, LoginCheck(r, u) PROVE Places'
  BY <1>1, SignInAssumption DEF LoginCheck, Goto, TypeOK, Places, rows, Tickets
<1>2. ASSUME NEW r \in Requests, LoginFactor(r) PROVE Places'
  BY <1>2, SignInAssumption DEF LoginFactor, Goto, TypeOK, Places, rows, Tickets
<1>3. ASSUME NEW r \in Requests, NEW c \in Challenges, LoginChallenge(r, c) PROVE Places'
  BY <1>3, SignInAssumption DEF LoginChallenge, Return, Uncover, Fresh, TypeOK, Places, rows,
     Tickets
<1>4. ASSUME NEW r \in Requests, NEW c \in Challenges, TotpRead(r, c) PROVE Places'
  BY <1>4, SignInAssumption DEF TotpRead, Redeem, Goto, TypeOK, Places, rows, Tickets
<1>5. ASSUME NEW r \in Requests, NEW x \in States, CallbackRead(r, x) PROVE Places'
  BY <1>5, SignInAssumption DEF CallbackRead, Redeem, Goto, TypeOK, Places, rows, Tickets
<1>6. ASSUME NEW r \in Requests, Spend(r) PROVE Places'
  BY <1>6, SignInAssumption DEF Spend, Return, Uncover, Goto, TypeOK, Places, rows, Tickets
<1>7. ASSUME NEW r \in Requests, TotpVerify(r) PROVE Places'
  BY <1>7, SignInAssumption DEF TotpVerify, Goto, TypeOK, Places, rows, Tickets
<1>8. ASSUME NEW r \in Requests, TotpUser(r) PROVE Places'
  BY <1>8, SignInAssumption DEF TotpUser, Goto, TypeOK, Places, rows, Tickets
<1>9. ASSUME NEW r \in Requests, NEW u \in Users, CallbackExchange(r, u) PROVE Places'
  BY <1>9, SignInAssumption DEF CallbackExchange, Goto, TypeOK, Places, rows, Tickets
<1>10. ASSUME NEW r \in Requests, NEW s \in Sessions, Mint(r, s) PROVE Places'
  BY <1>10, SignInAssumption DEF Mint, Return, Uncover, Fresh, TypeOK, Places, rows, Tickets
<1>11. ASSUME NEW r \in Requests, NEW s \in Sessions, SessionLookup(r, s) PROVE Places'
  BY <1>11, SignInAssumption DEF SessionLookup, Admit, Goto, TypeOK, Places, rows, Tickets
<1>12. ASSUME NEW r \in Requests, NEW t \in Tokens, TokenLookup(r, t) PROVE Places'
  BY <1>12, SignInAssumption DEF TokenLookup, Admit, Goto, TypeOK, Places, rows, Tickets
<1>13. ASSUME NEW r \in Requests, NEW t \in Tokens, CreateToken(r, t) PROVE Places'
  BY <1>13, SignInAssumption DEF CreateToken, Return, Uncover, Fresh, TypeOK, Places, rows, Tickets
<1>14. ASSUME NEW r \in Requests, NEW t \in Tokens, RevokeToken(r, t) PROVE Places'
  BY <1>14, SignInAssumption DEF RevokeToken, Return, Uncover, TypeOK, Places, rows, Tickets
<1>15. ASSUME NEW r \in Requests, NEW k \in Secrets, Enroll(r, k) PROVE Places'
  BY <1>15, SignInAssumption DEF Enroll, Fresh, Return, UncoverUser, Stamping, TypeOK, Places,
     rows, Tickets
<1>16. ASSUME NEW r \in Requests, ConfirmRead(r) PROVE Places'
  BY <1>16, SignInAssumption DEF ConfirmRead, Goto, TypeOK, Places, rows, Tickets
<1>17. ASSUME NEW r \in Requests, ConfirmStamp(r) PROVE Places'
  BY <1>17, SignInAssumption DEF ConfirmStamp, Return, Uncover, TypeOK, Places, rows, Tickets
<1>18. ASSUME NEW r \in Requests, Disable(r) PROVE Places'
  BY <1>18, SignInAssumption DEF Disable, Return, UncoverUser, TypeOK, Places, rows, Tickets
<1>19. ASSUME NEW r \in Requests, Abandon(r) PROVE Places'
  BY <1>19, SignInAssumption DEF Abandon, Return, Uncover, TypeOK, Places, rows, Tickets
<1>20. ASSUME NEW x \in States, OidcStart(x) PROVE Places'
  BY <1>20, SignInAssumption DEF OidcStart, Fresh, TypeOK, Places, rows, Tickets
<1>21. ASSUME NEW s \in Sessions, SessionReap(s) PROVE Places'
  BY <1>21, SignInAssumption DEF SessionReap, TypeOK, Places, rows, Tickets
<1>22. ASSUME NEW s \in Sessions, Logout(s) PROVE Places'
  BY <1>22, SignInAssumption DEF Logout, TypeOK, Places, rows, Tickets
<1>23. ASSUME NEW u \in Users, DeleteUser(u) PROVE Places'
  BY <1>23, SignInAssumption DEF DeleteUser, UncoverUser, TypeOK, Places, rows, Tickets
<1>24. ASSUME NEW x \in Sessions \cup Tickets \cup Tokens, Expire(x) PROVE Places'
  BY <1>24, SignInAssumption DEF Expire, TypeOK, Places, rows, Tickets
<1>25. CASE UNCHANGED vars
  BY <1>25 DEF vars, rows, TypeOK, Places, rows, Tickets
<1>. QED
  BY <1>1, <1>2, <1>3, <1>4, <1>5, <1>6, <1>7, <1>8, <1>9, <1>10, <1>11, <1>12, <1>13, <1>14,
     <1>15, <1>16, <1>17, <1>18, <1>19, <1>20, <1>21, <1>22, <1>23, <1>24, <1>25 DEF Next, Step

\* Rows of users who are not there stay away.
LEMMA PresentStep == TypeOK /\ Places /\ NothingOutlivesUser /\ [Next]_vars => NothingOutlivesUser'
<1>. SUFFICES ASSUME TypeOK, Places, NothingOutlivesUser, [Next]_vars PROVE NothingOutlivesUser'
  OBVIOUS
<1>1. ASSUME NEW r \in Requests, NEW u \in Users, LoginCheck(r, u) PROVE NothingOutlivesUser'
  BY <1>1, SignInAssumption DEF LoginCheck, Goto, TypeOK, Places, NothingOutlivesUser, rows,
     Tickets
<1>2. ASSUME NEW r \in Requests, LoginFactor(r) PROVE NothingOutlivesUser'
  BY <1>2, SignInAssumption DEF LoginFactor, Goto, TypeOK, Places, NothingOutlivesUser, rows,
     Tickets
<1>3. ASSUME NEW r \in Requests, NEW c \in Challenges, LoginChallenge(r, c) PROVE NothingOutlivesUser'
  BY <1>3, SignInAssumption DEF LoginChallenge, Return, Uncover, Fresh, TypeOK, Places,
     NothingOutlivesUser, rows, Tickets
<1>4. ASSUME NEW r \in Requests, NEW c \in Challenges, TotpRead(r, c) PROVE NothingOutlivesUser'
  BY <1>4, SignInAssumption DEF TotpRead, Redeem, Goto, TypeOK, Places, NothingOutlivesUser,
     rows, Tickets
<1>5. ASSUME NEW r \in Requests, NEW x \in States, CallbackRead(r, x) PROVE NothingOutlivesUser'
  BY <1>5, SignInAssumption DEF CallbackRead, Redeem, Goto, TypeOK, Places, NothingOutlivesUser,
     rows, Tickets
<1>6. ASSUME NEW r \in Requests, Spend(r) PROVE NothingOutlivesUser'
  BY <1>6, SignInAssumption DEF Spend, Return, Uncover, Goto, TypeOK, Places,
     NothingOutlivesUser, rows, Tickets
<1>7. ASSUME NEW r \in Requests, TotpVerify(r) PROVE NothingOutlivesUser'
  BY <1>7, SignInAssumption DEF TotpVerify, Goto, TypeOK, Places, NothingOutlivesUser, rows,
     Tickets
<1>8. ASSUME NEW r \in Requests, TotpUser(r) PROVE NothingOutlivesUser'
  BY <1>8, SignInAssumption DEF TotpUser, Goto, TypeOK, Places, NothingOutlivesUser, rows, Tickets
<1>9. ASSUME NEW r \in Requests, NEW u \in Users, CallbackExchange(r, u) PROVE NothingOutlivesUser'
  BY <1>9, SignInAssumption DEF CallbackExchange, Goto, TypeOK, Places, NothingOutlivesUser,
     rows, Tickets
<1>10. ASSUME NEW r \in Requests, NEW s \in Sessions, Mint(r, s) PROVE NothingOutlivesUser'
  BY <1>10, SignInAssumption DEF Mint, Return, Uncover, Fresh, TypeOK, Places,
     NothingOutlivesUser, rows, Tickets
<1>11. ASSUME NEW r \in Requests, NEW s \in Sessions, SessionLookup(r, s) PROVE NothingOutlivesUser'
  BY <1>11, SignInAssumption DEF SessionLookup, Admit, Goto, TypeOK, Places, NothingOutlivesUser,
     rows, Tickets
<1>12. ASSUME NEW r \in Requests, NEW t \in Tokens, TokenLookup(r, t) PROVE NothingOutlivesUser'
  BY <1>12, SignInAssumption DEF TokenLookup, Admit, Goto, TypeOK, Places, NothingOutlivesUser,
     rows, Tickets
<1>13. ASSUME NEW r \in Requests, NEW t \in Tokens, CreateToken(r, t) PROVE NothingOutlivesUser'
  BY <1>13, SignInAssumption DEF CreateToken, Return, Uncover, Fresh, TypeOK, Places,
     NothingOutlivesUser, rows, Tickets
<1>14. ASSUME NEW r \in Requests, NEW t \in Tokens, RevokeToken(r, t) PROVE NothingOutlivesUser'
  BY <1>14, SignInAssumption DEF RevokeToken, Return, Uncover, TypeOK, Places,
     NothingOutlivesUser, rows, Tickets
<1>15. ASSUME NEW r \in Requests, NEW k \in Secrets, Enroll(r, k) PROVE NothingOutlivesUser'
  BY <1>15, SignInAssumption DEF Enroll, Fresh, Return, UncoverUser, Stamping, TypeOK, Places,
     NothingOutlivesUser, rows, Tickets
<1>16. ASSUME NEW r \in Requests, ConfirmRead(r) PROVE NothingOutlivesUser'
  BY <1>16, SignInAssumption DEF ConfirmRead, Goto, TypeOK, Places, NothingOutlivesUser, rows,
     Tickets
<1>17. ASSUME NEW r \in Requests, ConfirmStamp(r) PROVE NothingOutlivesUser'
  BY <1>17, SignInAssumption DEF ConfirmStamp, Return, Uncover, TypeOK, Places,
     NothingOutlivesUser, rows, Tickets
<1>18. ASSUME NEW r \in Requests, Disable(r) PROVE NothingOutlivesUser'
  BY <1>18, SignInAssumption DEF Disable, Return, UncoverUser, TypeOK, Places,
     NothingOutlivesUser, rows, Tickets
<1>19. ASSUME NEW r \in Requests, Abandon(r) PROVE NothingOutlivesUser'
  BY <1>19, SignInAssumption DEF Abandon, Return, Uncover, TypeOK, Places, NothingOutlivesUser,
     rows, Tickets
<1>20. ASSUME NEW x \in States, OidcStart(x) PROVE NothingOutlivesUser'
  BY <1>20, SignInAssumption DEF OidcStart, Fresh, TypeOK, Places, NothingOutlivesUser, rows,
     Tickets
<1>21. ASSUME NEW s \in Sessions, SessionReap(s) PROVE NothingOutlivesUser'
  BY <1>21, SignInAssumption DEF SessionReap, TypeOK, Places, NothingOutlivesUser, rows, Tickets
<1>22. ASSUME NEW s \in Sessions, Logout(s) PROVE NothingOutlivesUser'
  BY <1>22, SignInAssumption DEF Logout, TypeOK, Places, NothingOutlivesUser, rows, Tickets
<1>23. ASSUME NEW u \in Users, DeleteUser(u) PROVE NothingOutlivesUser'
  BY <1>23, SignInAssumption DEF DeleteUser, UncoverUser, TypeOK, Places, NothingOutlivesUser,
     rows, Tickets
<1>24. ASSUME NEW x \in Sessions \cup Tickets \cup Tokens, Expire(x) PROVE NothingOutlivesUser'
  BY <1>24, SignInAssumption DEF Expire, TypeOK, Places, NothingOutlivesUser, rows, Tickets
<1>25. CASE UNCHANGED vars
  BY <1>25 DEF vars, rows, TypeOK, Places, NothingOutlivesUser, rows, Tickets
<1>. QED
  BY <1>1, <1>2, <1>3, <1>4, <1>5, <1>6, <1>7, <1>8, <1>9, <1>10, <1>11, <1>12, <1>13, <1>14,
     <1>15, <1>16, <1>17, <1>18, <1>19, <1>20, <1>21, <1>22, <1>23, <1>24, <1>25 DEF Next, Step

\* Confirmations stamp what they have read, unless they are crossed.
LEMMA FactorStep ==
    TypeOK /\ Places /\ Confirming /\ RequiredIsHeld /\ [Next]_vars => (Confirming /\ RequiredIsHeld)'
<1>. SUFFICES ASSUME TypeOK, Places, Confirming, RequiredIsHeld, [Next]_vars
             PROVE (Confirming /\ RequiredIsHeld)'
  OBVIOUS
<1>1. ASSUME NEW r \in Requests, NEW u \in Users, LoginCheck(r, u) PROVE (Confirming /\ RequiredIsHeld)'
  BY <1>1, SignInAssumption DEF LoginCheck, Goto, TypeOK, Places, Confirming, RequiredIsHeld, rows
<1>2. ASSUME NEW r \in Requests, LoginFactor(r) PROVE (Confirming /\ RequiredIsHeld)'
  BY <1>2, SignInAssumption DEF LoginFactor, Goto, TypeOK, Places, Confirming, RequiredIsHeld, rows
<1>3. ASSUME NEW r \in Requests, NEW c \in Challenges, LoginChallenge(r, c) PROVE (Confirming /\ RequiredIsHeld)'
  BY <1>3, SignInAssumption DEF LoginChallenge, Return, Uncover, Fresh, TypeOK, Places,
     Confirming, RequiredIsHeld, rows
<1>4. ASSUME NEW r \in Requests, NEW c \in Challenges, TotpRead(r, c) PROVE (Confirming /\ RequiredIsHeld)'
  BY <1>4, SignInAssumption DEF TotpRead, Redeem, Goto, TypeOK, Places, Confirming,
     RequiredIsHeld, rows
<1>5. ASSUME NEW r \in Requests, NEW x \in States, CallbackRead(r, x) PROVE (Confirming /\ RequiredIsHeld)'
  BY <1>5, SignInAssumption DEF CallbackRead, Redeem, Goto, TypeOK, Places, Confirming,
     RequiredIsHeld, rows
<1>6. ASSUME NEW r \in Requests, Spend(r) PROVE (Confirming /\ RequiredIsHeld)'
  BY <1>6, SignInAssumption DEF Spend, Return, Uncover, Goto, TypeOK, Places, Confirming,
     RequiredIsHeld, rows
<1>7. ASSUME NEW r \in Requests, TotpVerify(r) PROVE (Confirming /\ RequiredIsHeld)'
  BY <1>7, SignInAssumption DEF TotpVerify, Goto, TypeOK, Places, Confirming, RequiredIsHeld, rows
<1>8. ASSUME NEW r \in Requests, TotpUser(r) PROVE (Confirming /\ RequiredIsHeld)'
  BY <1>8, SignInAssumption DEF TotpUser, Goto, TypeOK, Places, Confirming, RequiredIsHeld, rows
<1>9. ASSUME NEW r \in Requests, NEW u \in Users, CallbackExchange(r, u) PROVE (Confirming /\ RequiredIsHeld)'
  BY <1>9, SignInAssumption DEF CallbackExchange, Goto, TypeOK, Places, Confirming,
     RequiredIsHeld, rows
<1>10. ASSUME NEW r \in Requests, NEW s \in Sessions, Mint(r, s) PROVE (Confirming /\ RequiredIsHeld)'
  BY <1>10, SignInAssumption DEF Mint, Return, Uncover, Fresh, TypeOK, Places, Confirming,
     RequiredIsHeld, rows
<1>11. ASSUME NEW r \in Requests, NEW s \in Sessions, SessionLookup(r, s) PROVE (Confirming /\ RequiredIsHeld)'
  BY <1>11, SignInAssumption DEF SessionLookup, Admit, Goto, TypeOK, Places, Confirming,
     RequiredIsHeld, rows
<1>12. ASSUME NEW r \in Requests, NEW t \in Tokens, TokenLookup(r, t) PROVE (Confirming /\ RequiredIsHeld)'
  BY <1>12, SignInAssumption DEF TokenLookup, Admit, Goto, TypeOK, Places, Confirming,
     RequiredIsHeld, rows
<1>13. ASSUME NEW r \in Requests, NEW t \in Tokens, CreateToken(r, t) PROVE (Confirming /\ RequiredIsHeld)'
  BY <1>13, SignInAssumption DEF CreateToken, Return, Uncover, Fresh, TypeOK, Places, Confirming,
     RequiredIsHeld, rows
<1>14. ASSUME NEW r \in Requests, NEW t \in Tokens, RevokeToken(r, t) PROVE (Confirming /\ RequiredIsHeld)'
  BY <1>14, SignInAssumption DEF RevokeToken, Return, Uncover, TypeOK, Places, Confirming,
     RequiredIsHeld, rows
<1>15. ASSUME NEW r \in Requests, NEW k \in Secrets, Enroll(r, k) PROVE (Confirming /\ RequiredIsHeld)'
  BY <1>15, SignInAssumption DEF Enroll, Fresh, Return, UncoverUser, Stamping, TypeOK, Places,
     Confirming, RequiredIsHeld, rows
<1>16. ASSUME NEW r \in Requests, ConfirmRead(r) PROVE (Confirming /\ RequiredIsHeld)'
  BY <1>16, SignInAssumption DEF ConfirmRead, Goto, TypeOK, Places, Confirming, RequiredIsHeld,
     rows
<1>17. ASSUME NEW r \in Requests, ConfirmStamp(r) PROVE (Confirming /\ RequiredIsHeld)'
  BY <1>17, SignInAssumption DEF ConfirmStamp, Return, Uncover, TypeOK, Places, Confirming,
     RequiredIsHeld, rows
<1>18. ASSUME NEW r \in Requests, Disable(r) PROVE (Confirming /\ RequiredIsHeld)'
  BY <1>18, SignInAssumption DEF Disable, Return, UncoverUser, TypeOK, Places, Confirming,
     RequiredIsHeld, rows
<1>19. ASSUME NEW r \in Requests, Abandon(r) PROVE (Confirming /\ RequiredIsHeld)'
  BY <1>19, SignInAssumption DEF Abandon, Return, Uncover, TypeOK, Places, Confirming,
     RequiredIsHeld, rows
<1>20. ASSUME NEW x \in States, OidcStart(x) PROVE (Confirming /\ RequiredIsHeld)'
  BY <1>20, SignInAssumption DEF OidcStart, Fresh, TypeOK, Places, Confirming, RequiredIsHeld, rows
<1>21. ASSUME NEW s \in Sessions, SessionReap(s) PROVE (Confirming /\ RequiredIsHeld)'
  BY <1>21, SignInAssumption DEF SessionReap, TypeOK, Places, Confirming, RequiredIsHeld, rows
<1>22. ASSUME NEW s \in Sessions, Logout(s) PROVE (Confirming /\ RequiredIsHeld)'
  BY <1>22, SignInAssumption DEF Logout, TypeOK, Places, Confirming, RequiredIsHeld, rows
<1>23. ASSUME NEW u \in Users, DeleteUser(u) PROVE (Confirming /\ RequiredIsHeld)'
  BY <1>23, SignInAssumption DEF DeleteUser, UncoverUser, TypeOK, Places, Confirming,
     RequiredIsHeld, rows
<1>24. ASSUME NEW x \in Sessions \cup Tickets \cup Tokens, Expire(x) PROVE (Confirming /\ RequiredIsHeld)'
  BY <1>24, SignInAssumption DEF Expire, TypeOK, Places, Confirming, RequiredIsHeld, rows
<1>25. CASE UNCHANGED vars
  BY <1>25 DEF vars, rows, TypeOK, Places, Confirming, RequiredIsHeld, rows
<1>. QED
  BY <1>1, <1>2, <1>3, <1>4, <1>5, <1>6, <1>7, <1>8, <1>9, <1>10, <1>11, <1>12, <1>13, <1>14,
     <1>15, <1>16, <1>17, <1>18, <1>19, <1>20, <1>21, <1>22, <1>23, <1>24, <1>25 DEF Next, Step

\* A covered login stays one, or is over.
LEMMA CoveredStep == TypeOK /\ Places /\ CoveredAsk /\ [Next]_vars => CoveredAsk'
<1>. SUFFICES ASSUME TypeOK, Places, CoveredAsk, [Next]_vars PROVE CoveredAsk'
  OBVIOUS
<1>1. ASSUME NEW r \in Requests, NEW u \in Users, LoginCheck(r, u) PROVE CoveredAsk'
  BY <1>1, SignInAssumption DEF LoginCheck, Goto, TypeOK, Places, CoveredAsk, rows
<1>2. ASSUME NEW r \in Requests, LoginFactor(r) PROVE CoveredAsk'
  BY <1>2, SignInAssumption DEF LoginFactor, Goto, TypeOK, Places, CoveredAsk, rows
<1>3. ASSUME NEW r \in Requests, NEW c \in Challenges, LoginChallenge(r, c) PROVE CoveredAsk'
  BY <1>3, SignInAssumption DEF LoginChallenge, Return, Uncover, Fresh, TypeOK, Places,
     CoveredAsk, rows
<1>4. ASSUME NEW r \in Requests, NEW c \in Challenges, TotpRead(r, c) PROVE CoveredAsk'
  BY <1>4, SignInAssumption DEF TotpRead, Redeem, Goto, TypeOK, Places, CoveredAsk, rows
<1>5. ASSUME NEW r \in Requests, NEW x \in States, CallbackRead(r, x) PROVE CoveredAsk'
  BY <1>5, SignInAssumption DEF CallbackRead, Redeem, Goto, TypeOK, Places, CoveredAsk, rows
<1>6. ASSUME NEW r \in Requests, Spend(r) PROVE CoveredAsk'
  BY <1>6, SignInAssumption DEF Spend, Return, Uncover, Goto, TypeOK, Places, CoveredAsk, rows
<1>7. ASSUME NEW r \in Requests, TotpVerify(r) PROVE CoveredAsk'
  BY <1>7, SignInAssumption DEF TotpVerify, Goto, TypeOK, Places, CoveredAsk, rows
<1>8. ASSUME NEW r \in Requests, TotpUser(r) PROVE CoveredAsk'
  BY <1>8, SignInAssumption DEF TotpUser, Goto, TypeOK, Places, CoveredAsk, rows
<1>9. ASSUME NEW r \in Requests, NEW u \in Users, CallbackExchange(r, u) PROVE CoveredAsk'
  BY <1>9, SignInAssumption DEF CallbackExchange, Goto, TypeOK, Places, CoveredAsk, rows
<1>10. ASSUME NEW r \in Requests, NEW s \in Sessions, Mint(r, s) PROVE CoveredAsk'
  BY <1>10, SignInAssumption DEF Mint, Return, Uncover, Fresh, TypeOK, Places, CoveredAsk, rows
<1>11. ASSUME NEW r \in Requests, NEW s \in Sessions, SessionLookup(r, s) PROVE CoveredAsk'
  BY <1>11, SignInAssumption DEF SessionLookup, Admit, Goto, TypeOK, Places, CoveredAsk, rows
<1>12. ASSUME NEW r \in Requests, NEW t \in Tokens, TokenLookup(r, t) PROVE CoveredAsk'
  BY <1>12, SignInAssumption DEF TokenLookup, Admit, Goto, TypeOK, Places, CoveredAsk, rows
<1>13. ASSUME NEW r \in Requests, NEW t \in Tokens, CreateToken(r, t) PROVE CoveredAsk'
  BY <1>13, SignInAssumption DEF CreateToken, Return, Uncover, Fresh, TypeOK, Places, CoveredAsk,
     rows
<1>14. ASSUME NEW r \in Requests, NEW t \in Tokens, RevokeToken(r, t) PROVE CoveredAsk'
  BY <1>14, SignInAssumption DEF RevokeToken, Return, Uncover, TypeOK, Places, CoveredAsk, rows
<1>15. ASSUME NEW r \in Requests, NEW k \in Secrets, Enroll(r, k) PROVE CoveredAsk'
  BY <1>15, SignInAssumption DEF Enroll, Fresh, Return, UncoverUser, Stamping, TypeOK, Places,
     CoveredAsk, rows
<1>16. ASSUME NEW r \in Requests, ConfirmRead(r) PROVE CoveredAsk'
  BY <1>16, SignInAssumption DEF ConfirmRead, Goto, TypeOK, Places, CoveredAsk, rows
<1>17. ASSUME NEW r \in Requests, ConfirmStamp(r) PROVE CoveredAsk'
  BY <1>17, SignInAssumption DEF ConfirmStamp, Return, Uncover, TypeOK, Places, CoveredAsk, rows
<1>18. ASSUME NEW r \in Requests, Disable(r) PROVE CoveredAsk'
  BY <1>18, SignInAssumption DEF Disable, Return, UncoverUser, TypeOK, Places, CoveredAsk, rows
<1>19. ASSUME NEW r \in Requests, Abandon(r) PROVE CoveredAsk'
  BY <1>19, SignInAssumption DEF Abandon, Return, Uncover, TypeOK, Places, CoveredAsk, rows
<1>20. ASSUME NEW x \in States, OidcStart(x) PROVE CoveredAsk'
  BY <1>20, SignInAssumption DEF OidcStart, Fresh, TypeOK, Places, CoveredAsk, rows
<1>21. ASSUME NEW s \in Sessions, SessionReap(s) PROVE CoveredAsk'
  BY <1>21, SignInAssumption DEF SessionReap, TypeOK, Places, CoveredAsk, rows
<1>22. ASSUME NEW s \in Sessions, Logout(s) PROVE CoveredAsk'
  BY <1>22, SignInAssumption DEF Logout, TypeOK, Places, CoveredAsk, rows
<1>23. ASSUME NEW u \in Users, DeleteUser(u) PROVE CoveredAsk'
  BY <1>23, SignInAssumption DEF DeleteUser, UncoverUser, TypeOK, Places, CoveredAsk, rows
<1>24. ASSUME NEW x \in Sessions \cup Tickets \cup Tokens, Expire(x) PROVE CoveredAsk'
  BY <1>24, SignInAssumption DEF Expire, TypeOK, Places, CoveredAsk, rows
<1>25. CASE UNCHANGED vars
  BY <1>25 DEF vars, rows, TypeOK, Places, CoveredAsk, rows
<1>. QED
  BY <1>1, <1>2, <1>3, <1>4, <1>5, <1>6, <1>7, <1>8, <1>9, <1>10, <1>11, <1>12, <1>13, <1>14,
     <1>15, <1>16, <1>17, <1>18, <1>19, <1>20, <1>21, <1>22, <1>23, <1>24, <1>25 DEF Next, Step

\* No step makes up a ticket.
LEMMA DrawnStep == TypeOK /\ Places /\ Drawn /\ [Next]_vars => Drawn'
<1>. SUFFICES ASSUME TypeOK, Places, Drawn, [Next]_vars PROVE Drawn'
  OBVIOUS
<1>1. ASSUME NEW r \in Requests, NEW u \in Users, LoginCheck(r, u) PROVE Drawn'
  BY <1>1, SignInAssumption DEF LoginCheck, Goto, TypeOK, Places, Drawn, rows, Tickets
<1>2. ASSUME NEW r \in Requests, LoginFactor(r) PROVE Drawn'
  BY <1>2, SignInAssumption DEF LoginFactor, Goto, TypeOK, Places, Drawn, rows, Tickets
<1>3. ASSUME NEW r \in Requests, NEW c \in Challenges, LoginChallenge(r, c) PROVE Drawn'
  BY <1>3, SignInAssumption DEF LoginChallenge, Return, Uncover, Fresh, TypeOK, Places, Drawn,
     rows, Tickets
<1>4. ASSUME NEW r \in Requests, NEW c \in Challenges, TotpRead(r, c) PROVE Drawn'
  BY <1>4, SignInAssumption DEF TotpRead, Redeem, Goto, TypeOK, Places, Drawn, rows, Tickets
<1>5. ASSUME NEW r \in Requests, NEW x \in States, CallbackRead(r, x) PROVE Drawn'
  BY <1>5, SignInAssumption DEF CallbackRead, Redeem, Goto, TypeOK, Places, Drawn, rows, Tickets
<1>6. ASSUME NEW r \in Requests, Spend(r) PROVE Drawn'
  BY <1>6, SignInAssumption DEF Spend, Return, Uncover, Goto, TypeOK, Places, Drawn, rows, Tickets
<1>7. ASSUME NEW r \in Requests, TotpVerify(r) PROVE Drawn'
  BY <1>7, SignInAssumption DEF TotpVerify, Goto, TypeOK, Places, Drawn, rows, Tickets
<1>8. ASSUME NEW r \in Requests, TotpUser(r) PROVE Drawn'
  BY <1>8, SignInAssumption DEF TotpUser, Goto, TypeOK, Places, Drawn, rows, Tickets
<1>9. ASSUME NEW r \in Requests, NEW u \in Users, CallbackExchange(r, u) PROVE Drawn'
  BY <1>9, SignInAssumption DEF CallbackExchange, Goto, TypeOK, Places, Drawn, rows, Tickets
<1>10. ASSUME NEW r \in Requests, NEW s \in Sessions, Mint(r, s) PROVE Drawn'
  BY <1>10, SignInAssumption DEF Mint, Return, Uncover, Fresh, TypeOK, Places, Drawn, rows, Tickets
<1>11. ASSUME NEW r \in Requests, NEW s \in Sessions, SessionLookup(r, s) PROVE Drawn'
  BY <1>11, SignInAssumption DEF SessionLookup, Admit, Goto, TypeOK, Places, Drawn, rows, Tickets
<1>12. ASSUME NEW r \in Requests, NEW t \in Tokens, TokenLookup(r, t) PROVE Drawn'
  BY <1>12, SignInAssumption DEF TokenLookup, Admit, Goto, TypeOK, Places, Drawn, rows, Tickets
<1>13. ASSUME NEW r \in Requests, NEW t \in Tokens, CreateToken(r, t) PROVE Drawn'
  BY <1>13, SignInAssumption DEF CreateToken, Return, Uncover, Fresh, TypeOK, Places, Drawn,
     rows, Tickets
<1>14. ASSUME NEW r \in Requests, NEW t \in Tokens, RevokeToken(r, t) PROVE Drawn'
  BY <1>14, SignInAssumption DEF RevokeToken, Return, Uncover, TypeOK, Places, Drawn, rows, Tickets
<1>15. ASSUME NEW r \in Requests, NEW k \in Secrets, Enroll(r, k) PROVE Drawn'
  BY <1>15, SignInAssumption DEF Enroll, Fresh, Return, UncoverUser, Stamping, TypeOK, Places,
     Drawn, rows, Tickets
<1>16. ASSUME NEW r \in Requests, ConfirmRead(r) PROVE Drawn'
  BY <1>16, SignInAssumption DEF ConfirmRead, Goto, TypeOK, Places, Drawn, rows, Tickets
<1>17. ASSUME NEW r \in Requests, ConfirmStamp(r) PROVE Drawn'
  BY <1>17, SignInAssumption DEF ConfirmStamp, Return, Uncover, TypeOK, Places, Drawn, rows,
     Tickets
<1>18. ASSUME NEW r \in Requests, Disable(r) PROVE Drawn'
  BY <1>18, SignInAssumption DEF Disable, Return, UncoverUser, TypeOK, Places, Drawn, rows, Tickets
<1>19. ASSUME NEW r \in Requests, Abandon(r) PROVE Drawn'
  BY <1>19, SignInAssumption DEF Abandon, Return, Uncover, TypeOK, Places, Drawn, rows, Tickets
<1>20. ASSUME NEW x \in States, OidcStart(x) PROVE Drawn'
  BY <1>20, SignInAssumption DEF OidcStart, Fresh, TypeOK, Places, Drawn, rows, Tickets
<1>21. ASSUME NEW s \in Sessions, SessionReap(s) PROVE Drawn'
  BY <1>21, SignInAssumption DEF SessionReap, TypeOK, Places, Drawn, rows, Tickets
<1>22. ASSUME NEW s \in Sessions, Logout(s) PROVE Drawn'
  BY <1>22, SignInAssumption DEF Logout, TypeOK, Places, Drawn, rows, Tickets
<1>23. ASSUME NEW u \in Users, DeleteUser(u) PROVE Drawn'
  BY <1>23, SignInAssumption DEF DeleteUser, UncoverUser, TypeOK, Places, Drawn, rows, Tickets
<1>24. ASSUME NEW x \in Sessions \cup Tickets \cup Tokens, Expire(x) PROVE Drawn'
  BY <1>24, SignInAssumption DEF Expire, TypeOK, Places, Drawn, rows, Tickets
<1>25. CASE UNCHANGED vars
  BY <1>25 DEF vars, rows, TypeOK, Places, Drawn, rows, Tickets
<1>. QED
  BY <1>1, <1>2, <1>3, <1>4, <1>5, <1>6, <1>7, <1>8, <1>9, <1>10, <1>11, <1>12, <1>13, <1>14,
     <1>15, <1>16, <1>17, <1>18, <1>19, <1>20, <1>21, <1>22, <1>23, <1>24, <1>25 DEF Next, Step

\* A ticket passes from its row to one request to one session.
LEMMA HoldersStep ==
    TypeOK /\ Places /\ Drawn /\ Holders /\ TicketSpentOnce /\ [Next]_vars => (Holders /\ TicketSpentOnce)'
<1>. SUFFICES ASSUME TypeOK, Places, Drawn, Holders, TicketSpentOnce, [Next]_vars
             PROVE (Holders /\ TicketSpentOnce)'
  OBVIOUS
<1>1. ASSUME NEW r \in Requests, NEW u \in Users, LoginCheck(r, u) PROVE (Holders /\ TicketSpentOnce)'
  BY <1>1, SignInAssumption DEF LoginCheck, Goto, TypeOK, Places, Drawn, Holders,
     TicketSpentOnce, rows, Tickets
<1>2. ASSUME NEW r \in Requests, LoginFactor(r) PROVE (Holders /\ TicketSpentOnce)'
  BY <1>2, SignInAssumption DEF LoginFactor, Goto, TypeOK, Places, Drawn, Holders,
     TicketSpentOnce, rows, Tickets
<1>3. ASSUME NEW r \in Requests, NEW c \in Challenges, LoginChallenge(r, c) PROVE (Holders /\ TicketSpentOnce)'
  BY <1>3, SignInAssumption DEF LoginChallenge, Return, Uncover, Fresh, TypeOK, Places, Drawn,
     Holders, TicketSpentOnce, rows, Tickets
<1>4. ASSUME NEW r \in Requests, NEW c \in Challenges, TotpRead(r, c) PROVE (Holders /\ TicketSpentOnce)'
  BY <1>4, SignInAssumption DEF TotpRead, Redeem, Goto, TypeOK, Places, Drawn, Holders,
     TicketSpentOnce, rows, Tickets
<1>5. ASSUME NEW r \in Requests, NEW x \in States, CallbackRead(r, x) PROVE (Holders /\ TicketSpentOnce)'
  BY <1>5, SignInAssumption DEF CallbackRead, Redeem, Goto, TypeOK, Places, Drawn, Holders,
     TicketSpentOnce, rows, Tickets
<1>6. ASSUME NEW r \in Requests, Spend(r) PROVE (Holders /\ TicketSpentOnce)'
  BY <1>6, SignInAssumption DEF Spend, Return, Uncover, Goto, TypeOK, Places, Drawn, Holders,
     TicketSpentOnce, rows, Tickets
<1>7. ASSUME NEW r \in Requests, TotpVerify(r) PROVE (Holders /\ TicketSpentOnce)'
  BY <1>7, SignInAssumption DEF TotpVerify, Goto, TypeOK, Places, Drawn, Holders,
     TicketSpentOnce, rows, Tickets
<1>8. ASSUME NEW r \in Requests, TotpUser(r) PROVE (Holders /\ TicketSpentOnce)'
  BY <1>8, SignInAssumption DEF TotpUser, Goto, TypeOK, Places, Drawn, Holders, TicketSpentOnce,
     rows, Tickets
<1>9. ASSUME NEW r \in Requests, NEW u \in Users, CallbackExchange(r, u) PROVE (Holders /\ TicketSpentOnce)'
  BY <1>9, SignInAssumption DEF CallbackExchange, Goto, TypeOK, Places, Drawn, Holders,
     TicketSpentOnce, rows, Tickets
<1>10. ASSUME NEW r \in Requests, NEW s \in Sessions, Mint(r, s) PROVE (Holders /\ TicketSpentOnce)'
  BY <1>10, SignInAssumption DEF Mint, Return, Uncover, Fresh, TypeOK, Places, Drawn, Holders,
     TicketSpentOnce, rows, Tickets
<1>11. ASSUME NEW r \in Requests, NEW s \in Sessions, SessionLookup(r, s) PROVE (Holders /\ TicketSpentOnce)'
  BY <1>11, SignInAssumption DEF SessionLookup, Admit, Goto, TypeOK, Places, Drawn, Holders,
     TicketSpentOnce, rows, Tickets
<1>12. ASSUME NEW r \in Requests, NEW t \in Tokens, TokenLookup(r, t) PROVE (Holders /\ TicketSpentOnce)'
  BY <1>12, SignInAssumption DEF TokenLookup, Admit, Goto, TypeOK, Places, Drawn, Holders,
     TicketSpentOnce, rows, Tickets
<1>13. ASSUME NEW r \in Requests, NEW t \in Tokens, CreateToken(r, t) PROVE (Holders /\ TicketSpentOnce)'
  BY <1>13, SignInAssumption DEF CreateToken, Return, Uncover, Fresh, TypeOK, Places, Drawn,
     Holders, TicketSpentOnce, rows, Tickets
<1>14. ASSUME NEW r \in Requests, NEW t \in Tokens, RevokeToken(r, t) PROVE (Holders /\ TicketSpentOnce)'
  BY <1>14, SignInAssumption DEF RevokeToken, Return, Uncover, TypeOK, Places, Drawn, Holders,
     TicketSpentOnce, rows, Tickets
<1>15. ASSUME NEW r \in Requests, NEW k \in Secrets, Enroll(r, k) PROVE (Holders /\ TicketSpentOnce)'
  BY <1>15, SignInAssumption DEF Enroll, Fresh, Return, UncoverUser, Stamping, TypeOK, Places,
     Drawn, Holders, TicketSpentOnce, rows, Tickets
<1>16. ASSUME NEW r \in Requests, ConfirmRead(r) PROVE (Holders /\ TicketSpentOnce)'
  BY <1>16, SignInAssumption DEF ConfirmRead, Goto, TypeOK, Places, Drawn, Holders,
     TicketSpentOnce, rows, Tickets
<1>17. ASSUME NEW r \in Requests, ConfirmStamp(r) PROVE (Holders /\ TicketSpentOnce)'
  BY <1>17, SignInAssumption DEF ConfirmStamp, Return, Uncover, TypeOK, Places, Drawn, Holders,
     TicketSpentOnce, rows, Tickets
<1>18. ASSUME NEW r \in Requests, Disable(r) PROVE (Holders /\ TicketSpentOnce)'
  BY <1>18, SignInAssumption DEF Disable, Return, UncoverUser, TypeOK, Places, Drawn, Holders,
     TicketSpentOnce, rows, Tickets
<1>19. ASSUME NEW r \in Requests, Abandon(r) PROVE (Holders /\ TicketSpentOnce)'
  BY <1>19, SignInAssumption DEF Abandon, Return, Uncover, TypeOK, Places, Drawn, Holders,
     TicketSpentOnce, rows, Tickets
<1>20. ASSUME NEW x \in States, OidcStart(x) PROVE (Holders /\ TicketSpentOnce)'
  BY <1>20, SignInAssumption DEF OidcStart, Fresh, TypeOK, Places, Drawn, Holders,
     TicketSpentOnce, rows, Tickets
<1>21. ASSUME NEW s \in Sessions, SessionReap(s) PROVE (Holders /\ TicketSpentOnce)'
  BY <1>21, SignInAssumption DEF SessionReap, TypeOK, Places, Drawn, Holders, TicketSpentOnce,
     rows, Tickets
<1>22. ASSUME NEW s \in Sessions, Logout(s) PROVE (Holders /\ TicketSpentOnce)'
  BY <1>22, SignInAssumption DEF Logout, TypeOK, Places, Drawn, Holders, TicketSpentOnce, rows,
     Tickets
<1>23. ASSUME NEW u \in Users, DeleteUser(u) PROVE (Holders /\ TicketSpentOnce)'
  BY <1>23, SignInAssumption DEF DeleteUser, UncoverUser, TypeOK, Places, Drawn, Holders,
     TicketSpentOnce, rows, Tickets
<1>24. ASSUME NEW x \in Sessions \cup Tickets \cup Tokens, Expire(x) PROVE (Holders /\ TicketSpentOnce)'
  BY <1>24, SignInAssumption DEF Expire, TypeOK, Places, Drawn, Holders, TicketSpentOnce, rows,
     Tickets
<1>25. CASE UNCHANGED vars
  BY <1>25 DEF vars, rows, TypeOK, Places, Drawn, Holders, TicketSpentOnce, rows, Tickets
<1>. QED
  BY <1>1, <1>2, <1>3, <1>4, <1>5, <1>6, <1>7, <1>8, <1>9, <1>10, <1>11, <1>12, <1>13, <1>14,
     <1>15, <1>16, <1>17, <1>18, <1>19, <1>20, <1>21, <1>22, <1>23, <1>24, <1>25 DEF Next, Step
-----------------------------------------------------------------------------
(* The theorems.                                                           *)

IInv ==
    /\ TypeOK
    /\ Places
    /\ NothingOutlivesUser
    /\ Confirming
    /\ RequiredIsHeld
    /\ CoveredAsk
    /\ Drawn
    /\ Holders
    /\ TicketSpentOnce

LEMMA InitInv == Init => IInv
  BY SignInAssumption
  DEF Init, IInv, TypeOK, Places, NothingOutlivesUser, Confirming, RequiredIsHeld, CoveredAsk,
      Drawn, Holders, TicketSpentOnce, Tickets, Phases

LEMMA StepInv == IInv /\ [Next]_vars => IInv'
  BY TypeStep, PlacesStep, PresentStep, FactorStep, CoveredStep, DrawnStep, HoldersStep DEF IInv

LEMMA AlwaysInv == Spec => []IInv
  BY InitInv, StepInv, PTL DEF Spec

\* Requests, rows and ids keep their types.
THEOREM SignInTypeCorrect == Spec => []TypeOK
<1>1. IInv => TypeOK
  BY DEF IInv
<1>. QED
  BY <1>1, AlwaysInv, PTL

\* Unless an enrolment crossed a confirmation, the factor a user needs is one it holds.
THEOREM NobodyLockedOut == Spec => []RequiredIsHeld
<1>1. IInv => RequiredIsHeld
  BY DEF IInv
<1>. QED
  BY <1>1, AlwaysInv, PTL

\* A challenge or a state yields one session, unless two requests read it or its DELETE was
\* lost.
THEOREM TicketsAreSpent == Spec => []TicketSpentOnce
<1>1. IInv => TicketSpentOnce
  BY DEF IInv
<1>. QED
  BY <1>1, AlwaysInv, PTL

\* The password alone does not sign in a user whose factor has been in force since before.
THEOREM FactorAlwaysAsked == Spec => []FactorIsAsked
<1>1. IInv => FactorIsAsked
  BY DEF IInv, CoveredAsk, FactorIsAsked
<1>. QED
  BY <1>1, AlwaysInv, PTL

\* A deleted user leaves nothing behind, whatever was under way.
THEOREM DeletionIsComplete == Spec => []NothingOutlivesUser
<1>1. IInv => NothingOutlivesUser
  BY DEF IInv
<1>. QED
  BY <1>1, AlwaysInv, PTL

=============================================================================
