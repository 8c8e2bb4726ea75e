------------------------------- MODULE BaoToken -------------------------------
(***************************************************************************)
(* The OpenBao client (services/openbao.rs): one token, shared by all tasks *)
(* of the server, refreshed shortly before its lease ends, and one retry of *)
(* a request that OpenBao refused.  No task holds a lock across a request,  *)
(* so tasks that find the token stale log in side by side.                  *)
(*                                                                         *)
(* A request to OpenBao is served at some moment between its sending and    *)
(* the client's HTTP timeout, and answered later still; what a task does    *)
(* between two requests takes no time of the clock's grain.                 *)
(***************************************************************************)
EXTENDS Naturals, FiniteSets

CONSTANTS
    Tasks,       \* tasks of the server that read or write secrets
    Boot,        \* the task that connects at boot
    Lease,       \* the lease of a token that has one
    Skew,        \* RENEW_SKEW_SECS
    HttpTimeout, \* of the reqwest client
    MaxTime,     \* bound on the clock
    MaxFaults,   \* bound on failed requests, refusals and revocations
    NoLease

ASSUME TokenAssumption ==
    /\ Boot \notin Tasks /\ IsFiniteSet(Tasks)
    /\ Lease \in Nat /\ Skew \in Nat /\ HttpTimeout \in Nat
    /\ Lease > Skew
    \* An expiry noted late by one round trip still leaves one to the request.
    /\ Skew >= 2 * HttpTimeout
    /\ MaxTime \in Nat /\ MaxFaults \in Nat
    /\ NoLease \notin Nat

VARIABLES
    now,
    method,     \* "approle" or "token"
    leased,     \* do tokens have a lease
    renewable,  \* may the static token be renewed
    expiry,     \* OpenBao: when each of its tokens expires, or NoLease
    revoked,    \* OpenBao: tokens revoked before their time
    tok,        \* TokenState: token, expires, renewable
    task,       \* where each task is
    faults,
    renewFailed \* has a renew-self of the static token ever failed

server == <<expiry, revoked>>
setup == <<method, leased, renewable>>
vars == <<now, setup, server, tok, task, faults, renewFailed>>

AllTasks == Tasks \union {Boot}
\* The tokens that some task or the shared state may hold at a time.
TokenIds == 1..(Cardinality(AllTasks) + 2)
Local == {"check", "recheck", "take"}
Waiting == {"login", "renew", "loggedin", "renewed", "send", "served", "refused", "lookup"}
Idle == [pc |-> "idle", token |-> 1, due |-> 0, attempt |-> 1,
         applied |-> 0, denied |-> FALSE, result |-> "none"]

--------------------------------------------------------------------------
Valid(t) == t \notin revoked /\ (expiry[t] # NoLease => now < expiry[t])
Held == {tok.token} \union {task[t].token : t \in AllTasks}

Until(from) == IF leased THEN from + Lease ELSE NoLease

Init ==
    /\ now = 0
    /\ method \in {"approle", "token"}
    /\ leased \in BOOLEAN
    /\ renewable \in IF method = "token" THEN BOOLEAN ELSE {FALSE}
    /\ expiry = [i \in TokenIds |-> IF i = 1 /\ method = "token" THEN Until(0) ELSE 0]
    /\ revoked = {}
    /\ tok = [token |-> 1, expires |-> NoLease, renewable |-> FALSE]
    /\ task = [t \in AllTasks |-> IF t = Boot THEN [Idle EXCEPT !.pc = "login",
                                                               !.due = HttpTimeout]
                                  ELSE Idle]
    /\ faults = 0
    /\ renewFailed = FALSE

Move(t, f) == task' = [task EXCEPT ![t] = f]
Goto(t, pc) == Move(t, [task[t] EXCEPT !.pc = pc])
Ask(t, pc) == Move(t, [task[t] EXCEPT !.pc = pc, !.due = now + HttpTimeout])
End(t, result) ==
    Move(t, [task[t] EXCEPT !.pc = "done", !.result = result, !.token = 1, !.due = 0])
Fault == faults < MaxFaults /\ faults' = faults + 1

\* Mutant: the token is used until its lease ends.
NeedsRefresh_NoSkew == tok.expires # NoLease /\ now >= tok.expires

NeedsRefresh == tok.expires # NoLease /\ now + Skew >= tok.expires

--------------------------------------------------------------------------
(* current_token *)

Begin(t) ==
    /\ t # Boot
    /\ task[Boot].result = "ok"
    /\ task[t].pc \in {"idle", "done"}
    /\ Move(t, [Idle EXCEPT !.pc = "check"])
    /\ UNCHANGED <<now, setup, server, tok, faults, renewFailed>>

\* Send a request with the stored token.
SendWith(t, token) ==
    Move(t, [task[t] EXCEPT !.pc = "send", !.token = token, !.due = now + HttpTimeout])

Check(t) ==
    /\ task[t].pc = "check"
    /\ IF NeedsRefresh THEN Goto(t, "recheck") ELSE SendWith(t, tok.token)
    /\ UNCHANGED <<now, setup, server, tok, faults, renewFailed>>

\* The second look at the token, after the first has let go of the lock.
Recheck(t) ==
    /\ task[t].pc = "recheck"
    /\ IF ~NeedsRefresh THEN Goto(t, "take")
       ELSE IF method = "approle" THEN Ask(t, "login")
       ELSE IF tok.renewable THEN Ask(t, "renew")
       ELSE Goto(t, "take")
    /\ UNCHANGED <<now, setup, server, tok, faults, renewFailed>>

\* After a refresh, or without one: whatever token is stored by now.
Take(t) ==
    /\ task[t].pc = "take"
    /\ SendWith(t, tok.token)
    /\ UNCHANGED <<now, setup, server, tok, faults, renewFailed>>

--------------------------------------------------------------------------
(* login and renew_self *)

\* OpenBao mints a token for an AppRole login (external).
Mint(t) ==
    /\ task[t].pc = "login" /\ method = "approle"
    /\ LET new == CHOOSE i \in TokenIds : i \notin Held IN
          /\ expiry' = [i \in TokenIds |-> IF i = new THEN Until(now)
                                          ELSE IF i \in Held THEN expiry[i] ELSE 0]
          /\ revoked' = revoked \intersect (Held \ {new})
          /\ Move(t, [task[t] EXCEPT !.pc = "loggedin", !.token = new])
    /\ UNCHANGED <<now, setup, tok, faults, renewFailed>>

\* OpenBao extends the static token's lease (external).
Renew(t) ==
    /\ task[t].pc \in {"login", "renew"} /\ method = "token"
    /\ leased /\ renewable /\ Valid(1)
    /\ expiry' = [expiry EXCEPT ![1] = Until(now)]
    /\ Move(t, [task[t] EXCEPT !.pc = IF @ = "login" THEN "loggedin" ELSE "renewed",
                               !.token = 1])
    /\ UNCHANGED <<now, setup, revoked, tok, faults, renewFailed>>

AfterLogin(t) == IF t = Boot THEN Ask(t, "lookup") ELSE Goto(t, "take")

\* Mutant: the lease of a renewed token is not noted.
Store_NoLease(t) ==
    /\ task[t].pc \in {"loggedin", "renewed"}
    /\ tok' = [token |-> task[t].token, expires |-> NoLease,
               renewable |-> method = "token"]
    /\ AfterLogin(t)
    /\ UNCHANGED <<now, setup, server, faults, renewFailed>>

\* The answer arrives: the expiry is counted from its arrival.
Store(t) ==
    /\ task[t].pc \in {"loggedin", "renewed"}
    /\ tok' = [token |-> task[t].token, expires |-> Until(now),
               renewable |-> method = "token"]
    /\ AfterLogin(t)
    /\ UNCHANGED <<now, setup, server, faults, renewFailed>>

\* An AppRole login fails, or its answer is lost, and the caller with it.
LoginFails(t) ==
    /\ task[t].pc \in {"login", "loggedin"} /\ method = "approle"
    /\ Fault
    /\ End(t, "error")
    /\ UNCHANGED <<now, setup, server, tok, renewFailed>>

CannotRenew == ~leased \/ ~renewable \/ ~Valid(1)

\* A static token that could not be renewed is taken for one without a lease
\* by login, whatever the reason; current_token keeps what it knows.
RenewFails(t) ==
    /\ method = "token"
    /\ \/ task[t].pc \in {"login", "renew"} /\ CannotRenew /\ UNCHANGED faults
       \/ task[t].pc \in {"login", "renew", "loggedin", "renewed"} /\ Fault
    /\ renewFailed' = TRUE
    /\ tok' = IF task[t].pc \in {"login", "loggedin"}
              THEN [token |-> 1, expires |-> NoLease, renewable |-> FALSE] ELSE tok
    /\ AfterLogin(t)
    /\ UNCHANGED <<now, setup, server>>

\* health_check: a token OpenBao does not know ends the boot.
LookedUp ==
    /\ task[Boot].pc = "lookup"
    /\ End(Boot, IF Valid(tok.token) THEN "ok" ELSE "error")
    /\ UNCHANGED <<now, setup, server, tok, faults, renewFailed>>

--------------------------------------------------------------------------
(* send_authed *)

\* OpenBao serves the request or refuses it (external).
Serve(t) ==
    /\ task[t].pc = "send"
    /\ IF Valid(task[t].token)
       THEN Move(t, [task[t] EXCEPT !.pc = "served", !.applied = @ + 1])
       ELSE Goto(t, "refused")
    /\ UNCHANGED <<now, setup, server, tok, faults, renewFailed>>

\* A policy may refuse a valid token (external).
Deny(t) ==
    /\ task[t].pc = "send"
    /\ Fault
    /\ Move(t, [task[t] EXCEPT !.pc = "refused", !.denied = TRUE])
    /\ UNCHANGED <<now, setup, server, tok, renewFailed>>

Answered(t) ==
    /\ task[t].pc = "served"
    /\ End(t, "ok")
    /\ UNCHANGED <<now, setup, server, tok, faults, renewFailed>>

\* Mutant: every 403 is followed by another login.
Refused_Forever(t) ==
    /\ task[t].pc = "refused"
    /\ Move(t, [task[t] EXCEPT !.pc = "login", !.attempt = 2, !.due = now + HttpTimeout])
    /\ UNCHANGED <<now, setup, server, tok, faults, renewFailed>>

\* After the first 403 authenticate anew and send once more.
Refused(t) ==
    /\ task[t].pc = "refused"
    /\ IF task[t].attempt = 1
       THEN Move(t, [task[t] EXCEPT !.pc = "login", !.attempt = 2,
                                    !.due = now + HttpTimeout, !.denied = FALSE])
       ELSE End(t, "forbidden")
    /\ UNCHANGED <<now, setup, server, tok, faults, renewFailed>>

\* Mutant: a request without an answer is sent again as well.
SendFails_Retries(t) ==
    /\ task[t].pc \in {"send", "served", "refused", "lookup"}
    /\ Fault
    /\ IF task[t].attempt = 1
       THEN Move(t, [task[t] EXCEPT !.pc = "login", !.attempt = 2,
                                    !.due = now + HttpTimeout])
       ELSE End(t, "error")
    /\ UNCHANGED <<now, setup, server, tok, renewFailed>>

\* The connection fails before or after OpenBao has served the request.
SendFails(t) ==
    /\ task[t].pc \in {"send", "served", "refused", "lookup"}
    /\ Fault
    /\ End(t, "error")
    /\ UNCHANGED <<now, setup, server, tok, renewFailed>>

--------------------------------------------------------------------------
\* An operator revokes a token (external).
Revoke ==
    /\ Fault
    /\ \E i \in Held : Valid(i) /\ revoked' = revoked \union {i}
    /\ UNCHANGED <<now, setup, expiry, tok, task, renewFailed>>

\* No request outlives its timeout.
Tick ==
    /\ now < MaxTime
    /\ \A t \in AllTasks :
          /\ task[t].pc \notin Local
          /\ task[t].pc \in Waiting => now < task[t].due
    /\ now' = now + 1
    /\ UNCHANGED <<setup, server, tok, task, faults, renewFailed>>

Step(t) ==
    \/ Check(t) \/ Recheck(t) \/ Take(t)
    \/ Mint(t) \/ Renew(t) \/ Store(t) \/ LoginFails(t) \/ RenewFails(t)
    \/ Serve(t) \/ Answered(t) \/ Refused(t)

Next ==
    \/ \E t \in AllTasks : Begin(t) \/ Step(t) \/ Deny(t) \/ SendFails(t)
    \/ LookedUp \/ Revoke \/ Tick

Spec == Init /\ [][Next]_vars

\* A request ends within the HTTP timeout and its task is polled again.
FairSpec == Spec /\ \A t \in AllTasks : WF_vars(Step(t)) /\ WF_vars(LookedUp)

--------------------------------------------------------------------------
(* Properties *)

TaskStates == [pc : {"idle", "done"} \union Local \union Waiting, token : TokenIds,
               due : Nat, attempt : {1, 2}, applied : Nat, denied : BOOLEAN,
               result : {"none", "ok", "error", "forbidden"}]

TypeOK ==
    /\ now \in 0..MaxTime
    /\ method \in {"approle", "token"} /\ leased \in BOOLEAN /\ renewable \in BOOLEAN
    /\ revoked \subseteq TokenIds
    /\ expiry \in [TokenIds -> Nat \union {NoLease}]
    /\ tok \in [token : TokenIds, expires : Nat \union {NoLease}, renewable : BOOLEAN]
    /\ task \in [AllTasks -> TaskStates]
    /\ faults \in 0..MaxFaults
    /\ renewFailed \in BOOLEAN

\* With AppRole no token lapses while a request that carries it is under way:
\* OpenBao refuses a request only because its token was revoked or a policy
\* denies it, however many tasks refresh the token side by side.
NeverLapses ==
    \A t \in Tasks :
        method = "approle" /\ task[t].pc = "refused" =>
            task[t].denied \/ task[t].token \in revoked

\* A request takes effect at most once: exactly once if the caller is told so,
\* never if it is told that the request was refused, retry or not.
AppliedOnce ==
    \A t \in Tasks :
        /\ task[t].applied <= 1
        /\ task[t].result = "ok" => task[t].applied = 1
        /\ task[t].result = "forbidden" => task[t].applied = 0

\* The server forgets the lease of a renewable static token, and so never
\* renews it again, only after a renewal of it has failed.
UntrackedHasCause ==
    method = "token" /\ leased /\ renewable /\ task[Boot].result = "ok"
        => renewFailed \/ tok.expires # NoLease

\* Every request for a secret ends: a token OpenBao keeps refusing does not
\* make a task log in for ever.
RequestEnds == \A t \in Tasks : task[t].pc = "check" ~> task[t].pc = "done"
=============================================================================
