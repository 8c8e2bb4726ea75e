---------------------------- MODULE BaoTokenProofs ----------------------------
(***************************************************************************)
(* Proofs about BaoToken, for any number of tasks and faults, any lease,   *)
(* skew and HTTP timeout that satisfy TokenAssumption.                     *)
(*                                                                         *)
(* NeverLapses rests on a chain of estimates.  A token that is stored has  *)
(* been minted at most one timeout before: its true expiry is at most that *)
(* much earlier than the one the server notes.  A token that is sent has   *)
(* more than the skew left by the server's account, so more than the skew  *)
(* less one timeout in truth, and that is more than the timeout of the     *)
(* request that carries it.                                                *)
(***************************************************************************)
EXTENDS BaoToken, FiniteSetTheorems, TLAPS

\* The boot task connects, and does nothing else.
BootConnects ==
    /\ task[Boot].pc \in {"login", "loggedin", "lookup", "done"}
    /\ task[Boot].pc # "done" => task[Boot].result = "none"

Connected == task[Boot].pc = "lookup" \/ task[Boot].result = "ok"

\* What a request has done so far follows from where its task is.
Progress ==
    \A t \in Tasks :
        /\ task[t].pc # "idle" => task[Boot].result = "ok"
        /\ task[t].pc # "lookup"
        /\ task[t].pc = "served" => task[t].applied = 1
        /\ task[t].pc \notin {"served", "done"} => task[t].applied = 0
        /\ task[t].pc # "done" => task[t].result = "none"

-----------------------------------------------------------------------------
(* Types.                                                                  *)

\* There is a token nobody holds.
LEMMA SpareToken ==
    ASSUME TypeOK PROVE \E i \in TokenIds : i \notin Held
<1>. DEFINE N == Cardinality(AllTasks)
            Own == {task[t].token : t \in AllTasks}
<1>1. IsFiniteSet(AllTasks) /\ N \in Nat
  BY TokenAssumption, FS_AddElement, FS_CardinalityType DEF AllTasks
<1>2. IsFiniteSet(Own) /\ Cardinality(Own) <= N
  <2>. DEFINE tokenOf == [t \in AllTasks |-> task[t].token]
  <2>1. tokenOf \in Surjection(AllTasks, Own)
    BY DEF Surjection
  <2>. HIDE DEF tokenOf, Own
  <2>. QED
    BY <1>1, <2>1, FS_Surjection
<1>3. IsFiniteSet(Held) /\ Cardinality(Held) <= N + 1
  <2>1. Held = Own \cup {tok.token}
    BY DEF Held
  <2>2. Cardinality(Own) \in Nat
    BY <1>2, FS_CardinalityType
  <2>. HIDE DEF Own
  <2>3. /\ IsFiniteSet(Held)
        /\ Cardinality(Held) = Cardinality(Own) \/ Cardinality(Held) = Cardinality(Own) + 1
    BY <1>2, <2>1, FS_AddElement
  <2>. HIDE DEF N
  <2>. QED
    BY <1>1, <1>2, <2>2, <2>3
<1>4. IsFiniteSet(TokenIds) /\ Cardinality(TokenIds) = N + 2
  BY <1>1, FS_Interval DEF TokenIds
<1>5. CASE TokenIds \subseteq Held
  BY <1>1, <1>3, <1>4, <1>5, FS_Subset, FS_CardinalityType
<1>. QED
  BY <1>5

Places == {"idle", "done"} \union Local \union Waiting
Results == {"none", "ok", "error", "forbidden"}

\* The states a step moves a task to are states of a task.
LEMMA MovesTyped ==
    ASSUME NEW f \in TaskStates, NEW pc \in Places, NEW due \in Nat, NEW i \in TokenIds
    PROVE  /\ [f EXCEPT !.pc = pc] \in TaskStates
           /\ [f EXCEPT !.pc = pc, !.due = due] \in TaskStates
           /\ [f EXCEPT !.pc = pc, !.token = i] \in TaskStates
           /\ [f EXCEPT !.pc = pc, !.token = i, !.due = due] \in TaskStates
           /\ [f EXCEPT !.pc = pc, !.applied = f.applied + 1] \in TaskStates
           /\ [f EXCEPT !.pc = pc, !.denied = TRUE] \in TaskStates
           /\ [f EXCEPT !.pc = pc, !.attempt = 2, !.due = due, !.denied = FALSE] \in TaskStates
<1>1. TaskStates = [pc : Places, token : TokenIds, due : Nat, attempt : {1, 2},
                    applied : Nat, denied : BOOLEAN, result : Results]
  BY DEF TaskStates, Places, Results
<1>9. f.applied + 1 \in Nat
  BY <1>1
<1>2. [f EXCEPT !.pc = pc] \in TaskStates
  BY <1>1
<1>3. [f EXCEPT !.pc = pc, !.due = due] \in TaskStates
  BY <1>1
<1>4. [f EXCEPT !.pc = pc, !.token = i] \in TaskStates
  BY <1>1
<1>5. [f EXCEPT !.pc = pc, !.token = i, !.due = due] \in TaskStates
  BY <1>1
<1>6. [f EXCEPT !.pc = pc, !.applied = f.applied + 1] \in TaskStates
  BY <1>1, <1>9
<1>7. [f EXCEPT !.pc = pc, !.denied = TRUE] \in TaskStates
  BY <1>1
<1>8. [f EXCEPT !.pc = pc, !.attempt = 2, !.due = due, !.denied = FALSE] \in TaskStates
  BY <1>1
<1>. QED
  BY <1>2, <1>3, <1>4, <1>5, <1>6, <1>7, <1>8

LEMMA EndTyped ==
    ASSUME NEW f \in TaskStates, NEW pc \in Places, NEW result \in Results,
           NEW i \in TokenIds, NEW due \in Nat
    PROVE  [f EXCEPT !.pc = pc, !.result = result, !.token = i, !.due = due] \in TaskStates
<1>1. TaskStates = [pc : Places, token : TokenIds, due : Nat, attempt : {1, 2},
                    applied : Nat, denied : BOOLEAN, result : Results]
  BY DEF TaskStates, Places, Results
<1>. QED
  BY <1>1

\* Every variable keeps its type.
LEMMA TypeStep == TypeOK /\ [Next]_vars => TypeOK'
<1>. SUFFICES ASSUME TypeOK, [Next]_vars PROVE TypeOK'
  OBVIOUS
<1>1. 1 \in TokenIds /\ Boot \in AllTasks /\ Tasks \subseteq AllTasks
  <2>1. Cardinality(AllTasks) \in Nat
    BY TokenAssumption, FS_AddElement, FS_CardinalityType DEF AllTasks
  <2>. QED
    BY <2>1 DEF TokenIds, AllTasks
<1>2. \A n \in Nat : Until(n) \in Nat \union {NoLease}
  BY TokenAssumption DEF Until
<1>3. now \in Nat /\ now + HttpTimeout \in Nat /\ 0 \in Nat
  BY TokenAssumption DEF TypeOK
<1>4. \A t \in AllTasks, f \in TaskStates : Move(t, f) => task' \in [AllTasks -> TaskStates]
  BY DEF Move, TypeOK
<1>5. \A t \in AllTasks, pc \in Places :
         Goto(t, pc) \/ Ask(t, pc) => task' \in [AllTasks -> TaskStates]
  BY <1>3, <1>4, <1>1, MovesTyped DEF Goto, Ask, TypeOK
<1>6. \A t \in AllTasks, i \in TokenIds :
         SendWith(t, i) => task' \in [AllTasks -> TaskStates]
  BY <1>3, <1>4, MovesTyped DEF SendWith, TypeOK, Places, Waiting
<1>7. \A t \in AllTasks, result \in {"ok", "error", "forbidden"} :
         End(t, result) => task' \in [AllTasks -> TaskStates]
  BY <1>1, <1>3, <1>4, EndTyped DEF End, TypeOK, Places, Results
<1>8. \A t \in AllTasks : AfterLogin(t) => task' \in [AllTasks -> TaskStates]
  BY <1>5 DEF AfterLogin, Places, Local, Waiting
<1>9. tok \in [token : TokenIds, expires : Nat \union {NoLease}, renewable : BOOLEAN]
  BY DEF TypeOK
<1>10. \A t \in AllTasks : task[t] \in TaskStates /\ task[t].token \in TokenIds
  BY DEF TypeOK, TaskStates
<1>. DEFINE Rest == /\ now' \in 0..MaxTime /\ setup' = setup
                    /\ revoked' \subseteq TokenIds
                    /\ expiry' \in [TokenIds -> Nat \union {NoLease}]
                    /\ tok' \in [token : TokenIds, expires : Nat \union {NoLease},
                                 renewable : BOOLEAN]
                    /\ faults' \in 0..MaxFaults /\ renewFailed' \in BOOLEAN
<1>11. Rest /\ task' \in [AllTasks -> TaskStates] => TypeOK'
  BY DEF TypeOK, setup
<1>12. UNCHANGED <<now, setup, server, tok, renewFailed>> /\ (UNCHANGED faults \/ Fault)
          => Rest
  BY TokenAssumption DEF TypeOK, server, Fault
<1>13. ASSUME NEW t \in AllTasks, Begin(t) PROVE TypeOK'
  <2>1. [Idle EXCEPT !.pc = "check"] \in TaskStates
    BY <1>1 DEF Idle, TaskStates, Local
  <2>. HIDE DEF Rest
  <2>. QED
    BY <1>4, <1>11, <1>12, <1>13, <2>1 DEF Begin
<1>14. ASSUME NEW t \in AllTasks, Check(t) \/ Recheck(t) \/ Take(t) PROVE TypeOK'
  <2>1. {"recheck", "take", "login", "renew"} \subseteq Places
    BY DEF Places, Local, Waiting
  <2>. HIDE DEF Rest
  <2>. QED
    BY <1>5, <1>6, <1>9, <1>11, <1>12, <1>14, <2>1 DEF Check, Recheck, Take
<1>15. ASSUME NEW t \in AllTasks, Mint(t) PROVE TypeOK'
  <2>. DEFINE new == CHOOSE i \in TokenIds : i \notin Held
  <2>1. new \in TokenIds
    BY SpareToken
  <2>. HIDE DEF new
  <2>2. /\ expiry' = [i \in TokenIds |-> IF i = new THEN Until(now)
                                          ELSE IF i \in Held THEN expiry[i] ELSE 0]
        /\ revoked' = revoked \intersect (Held \ {new})
        /\ Move(t, [task[t] EXCEPT !.pc = "loggedin", !.token = new])
        /\ UNCHANGED <<now, setup, tok, faults, renewFailed>>
    BY <1>15 DEF Mint, new
  <2>3. task' \in [AllTasks -> TaskStates]
    BY <1>3, <1>4, <1>10, <2>1, <2>2, MovesTyped DEF Places, Waiting
  <2>4. Rest
    BY <1>2, <1>3, <2>1, <2>2 DEF TypeOK
  <2>. QED
    BY <1>11, <2>3, <2>4
<1>16. ASSUME NEW t \in AllTasks, Renew(t) PROVE TypeOK'
  <2>1. task' \in [AllTasks -> TaskStates]
    <3>1. {"loggedin", "renewed"} \subseteq Places
      BY DEF Places, Waiting
    <3>. QED
      BY <1>1, <1>3, <1>4, <1>10, <1>16, <3>1, MovesTyped DEF Renew
  <2>2. Rest
    BY <1>1, <1>2, <1>3, <1>16 DEF Renew, TypeOK
  <2>. QED
    BY <1>11, <2>1, <2>2
<1>17. ASSUME NEW t \in AllTasks, Store(t) PROVE TypeOK'
  <2>1. Rest
    BY <1>2, <1>3, <1>10, <1>17 DEF Store, TypeOK, server
  <2>. QED
    BY <1>8, <1>11, <1>17, <2>1 DEF Store
<1>18. ASSUME NEW t \in AllTasks, LoginFails(t) \/ SendFails(t) \/ Answered(t)
       PROVE  TypeOK'
  <2>. HIDE DEF Rest
  <2>. QED
    BY <1>7, <1>11, <1>12, <1>18 DEF LoginFails, SendFails, Answered
<1>19. ASSUME NEW t \in AllTasks, RenewFails(t) PROVE TypeOK'
  <2>1. tok' \in [token : TokenIds, expires : Nat \union {NoLease}, renewable : BOOLEAN]
    BY <1>1, <1>9, <1>19 DEF RenewFails
  <2>2. Rest
    BY <1>19, <2>1, TokenAssumption DEF RenewFails, TypeOK, server, Fault
  <2>. QED
    BY <1>8, <1>11, <1>19, <2>2 DEF RenewFails
<1>20. ASSUME NEW t \in AllTasks, Serve(t) \/ Deny(t) PROVE TypeOK'
  <2>1. {"served", "refused"} \subseteq Places
    BY DEF Places, Waiting
  <2>2. task' \in [AllTasks -> TaskStates]
    BY <1>1, <1>3, <1>4, <1>5, <1>10, <1>20, <2>1, MovesTyped DEF Serve, Deny
  <2>. HIDE DEF Rest
  <2>. QED
    BY <1>11, <1>12, <1>20, <2>2 DEF Serve, Deny
<1>21. ASSUME NEW t \in AllTasks, Refused(t) PROVE TypeOK'
  <2>1. "login" \in Places
    BY DEF Places, Waiting
  <2>2. task' \in [AllTasks -> TaskStates]
    BY <1>1, <1>3, <1>4, <1>7, <1>10, <1>21, <2>1, MovesTyped DEF Refused
  <2>. HIDE DEF Rest
  <2>. QED
    BY <1>11, <1>12, <1>21, <2>2 DEF Refused
<1>22. CASE LookedUp
  <2>. HIDE DEF Rest
  <2>. QED
    BY <1>1, <1>7, <1>11, <1>12, <1>22 DEF LookedUp
<1>23. CASE Revoke
  <2>1. Held \subseteq TokenIds
    BY <1>9, <1>10 DEF Held
  <2>. QED
    BY <1>23, <2>1, TokenAssumption DEF Revoke, TypeOK, Fault, setup
<1>24. CASE Tick
  BY <1>24, TokenAssumption DEF Tick, TypeOK, setup, server
<1>25. CASE UNCHANGED vars
  BY <1>25 DEF vars, TypeOK, setup, server
<1>. QED
  BY <1>13, <1>14, <1>15, <1>16, <1>17, <1>18, <1>19, <1>20, <1>21, <1>22, <1>23, <1>24,
     <1>25, Zenon DEF Next, Step

-----------------------------------------------------------------------------
(* Requests.                                                               *)

RequestInv == BootConnects /\ Progress /\ AppliedOnce

\* What may be said of the task that moved; the others are as they were.
Fine(t, f) ==
    /\ t = Boot => /\ f.pc \in {"login", "loggedin", "lookup", "done"}
                   /\ f.pc # "done" => f.result = "none"
                   /\ task[Boot].pc = "done" => f.result = task[Boot].result
    /\ t # Boot => /\ f.pc # "idle" => task[Boot].result = "ok"
                   /\ f.pc # "lookup"
                   /\ f.pc = "served" => f.applied = 1
                   /\ f.pc \notin {"served", "done"} => f.applied = 0
                   /\ f.pc # "done" => f.result = "none"
                   /\ f.applied <= 1
                   /\ f.result = "ok" => f.applied = 1
                   /\ f.result = "forbidden" => f.applied = 0

LEMMA OneMoves ==
    ASSUME TypeOK, RequestInv, NEW t \in AllTasks, NEW f, Move(t, f), Fine(t, f)
    PROVE  RequestInv'
<1>1. Boot \in AllTasks /\ Tasks \subseteq AllTasks /\ Boot \notin Tasks
  BY TokenAssumption DEF AllTasks
<1>2. task'[t] = f /\ \A u \in AllTasks \ {t} : task'[u] = task[u]
  BY DEF Move, TypeOK
<1>3. task[Boot].result = "ok" => task'[Boot].result = "ok"
  BY <1>1, <1>2 DEF Fine, RequestInv, BootConnects
<1>4. BootConnects'
  BY <1>1, <1>2 DEF Fine, RequestInv, BootConnects
<1>5. Progress'
  BY <1>1, <1>2, <1>3 DEF Fine, RequestInv, Progress
<1>6. AppliedOnce'
  BY <1>1, <1>2 DEF Fine, RequestInv, AppliedOnce
<1>. QED
  BY <1>4, <1>5, <1>6 DEF RequestInv

\* A task that moves on to another place, and neither serves nor ends.
LEMMA GoesOn ==
    ASSUME TypeOK, RequestInv, NEW t \in AllTasks, NEW f \in TaskStates, Move(t, f),
           task[t].pc \notin {"idle", "served", "done"},
           f.applied = task[t].applied, f.result = task[t].result,
           f.pc \notin {"idle", "served", "done"},
           t = Boot => f.pc \in {"login", "loggedin", "lookup"},
           t # Boot => f.pc # "lookup"
    PROVE  RequestInv'
<1>1. t = Boot \/ t \in Tasks
  BY DEF AllTasks
<1>2. Fine(t, f)
  BY <1>1 DEF Fine, RequestInv, BootConnects, Progress, AppliedOnce
<1>. QED
  BY <1>2, OneMoves

\* A task that ends; whether it was served is known to its place.
LEMMA Ends ==
    ASSUME TypeOK, RequestInv, NEW t \in AllTasks, NEW result \in {"ok", "error", "forbidden"},
           End(t, result), task[t].pc \notin {"idle", "done"},
           t # Boot /\ result = "ok" => task[t].pc = "served",
           result = "forbidden" => task[t].pc # "served"
    PROVE  RequestInv'
<1>. DEFINE f == [task[t] EXCEPT !.pc = "done", !.result = result, !.token = 1, !.due = 0]
<1>1. t = Boot \/ t \in Tasks
  BY DEF AllTasks
<1>2. task[t] \in TaskStates
  BY DEF TypeOK
<1>3. f.pc = "done" /\ f.result = result /\ f.applied = task[t].applied
  BY <1>2 DEF TaskStates
<1>4. t # Boot => task[t].applied = IF task[t].pc = "served" THEN 1 ELSE 0
  BY <1>1 DEF RequestInv, Progress
<1>5. Move(t, f)
  BY DEF End
<1>. HIDE DEF f
<1>6. Fine(t, f)
  BY <1>1, <1>3, <1>4 DEF Fine, RequestInv, BootConnects, Progress, AppliedOnce
<1>. QED
  BY <1>5, <1>6, OneMoves

LEMMA RequestInvStep == TypeOK /\ RequestInv /\ [Next]_vars => RequestInv'
<1>. SUFFICES ASSUME TypeOK, RequestInv, [Next]_vars PROVE RequestInv'
  OBVIOUS
<1>1. \A t \in AllTasks : task[t] \in TaskStates
  BY DEF TypeOK
<1>2. now + HttpTimeout \in Nat /\ now \in Nat
  BY TokenAssumption DEF TypeOK
<1>3. ASSUME NEW t \in AllTasks, NEW pc \in Places, Goto(t, pc) \/ Ask(t, pc),
             task[t].pc \notin {"idle", "served", "done"},
             pc \notin {"idle", "served", "done"},
             t = Boot => pc \in {"login", "loggedin", "lookup"},
             t # Boot => pc # "lookup"
      PROVE  RequestInv'
  <2>1. CASE Goto(t, pc)
    <3>. DEFINE f == [task[t] EXCEPT !.pc = pc]
    <3>1. f \in TaskStates /\ f.applied = task[t].applied /\ f.result = task[t].result
          /\ f.pc = pc
      BY <1>1 DEF TaskStates, Places
    <3>2. Move(t, f)
      BY <2>1 DEF Goto
    <3>. HIDE DEF f
    <3>. QED
      BY <1>3, <3>1, <3>2, GoesOn
  <2>2. CASE Ask(t, pc)
    <3>. DEFINE f == [task[t] EXCEPT !.pc = pc, !.due = now + HttpTimeout]
    <3>1. f \in TaskStates /\ f.applied = task[t].applied /\ f.result = task[t].result
          /\ f.pc = pc
      BY <1>1, <1>2 DEF TaskStates, Places
    <3>2. Move(t, f)
      BY <2>2 DEF Ask
    <3>. HIDE DEF f
    <3>. QED
      BY <1>3, <3>1, <3>2, GoesOn
  <2>. QED
    BY <1>3, <2>1, <2>2
<1>. USE DEF Places, Local, Waiting
<1>4. ASSUME NEW t \in AllTasks, Begin(t) PROVE RequestInv'
  <2>1. Fine(t, [Idle EXCEPT !.pc = "check"])
    BY <1>4 DEF Begin, Fine, Idle
  <2>. QED
    BY <1>4, <2>1, OneMoves DEF Begin
<1>5. ASSUME NEW t \in AllTasks, AfterLogin(t),
             task[t].pc \notin {"idle", "served", "done"}
      PROVE  RequestInv'
  BY <1>3, <1>5 DEF AfterLogin
<1>6. ASSUME NEW t \in AllTasks, NEW i \in TokenIds, SendWith(t, i),
             task[t].pc \in {"check", "take"}
      PROVE  RequestInv'
  <2>. DEFINE f == [task[t] EXCEPT !.pc = "send", !.token = i, !.due = now + HttpTimeout]
  <2>1. f \in TaskStates /\ f.applied = task[t].applied /\ f.result = task[t].result
        /\ f.pc = "send"
    BY <1>1, <1>2 DEF TaskStates
  <2>2. Move(t, f) /\ t # Boot
    BY <1>6 DEF SendWith, RequestInv, BootConnects
  <2>. HIDE DEF f
  <2>. QED
    BY <1>6, <2>1, <2>2, GoesOn
<1>7. tok.token \in TokenIds
  BY DEF TypeOK
<1>8. ASSUME NEW t \in AllTasks, Check(t) \/ Recheck(t) \/ Take(t) PROVE RequestInv'
  <2>1. t # Boot
    BY <1>8 DEF Check, Recheck, Take, RequestInv, BootConnects
  <2>. QED
    BY <1>3, <1>6, <1>7, <1>8, <2>1 DEF Check, Recheck, Take
<1>9. ASSUME NEW t \in AllTasks, NEW i, NEW pc \in {"loggedin", "renewed"},
             i \in TokenIds, task[t].pc \in {"login", "renew"},
             t = Boot => pc = "loggedin",
             Move(t, [task[t] EXCEPT !.pc = pc, !.token = i])
      PROVE  RequestInv'
  <2>. DEFINE f == [task[t] EXCEPT !.pc = pc, !.token = i]
  <2>1. f \in TaskStates /\ f.applied = task[t].applied /\ f.result = task[t].result
        /\ f.pc = pc
    BY <1>1, <1>9 DEF TaskStates
  <2>. HIDE DEF f
  <2>. QED
    BY <1>9, <2>1, GoesOn DEF f
<1>10. ASSUME NEW t \in AllTasks, Mint(t) PROVE RequestInv'
  <2>1. (CHOOSE i \in TokenIds : i \notin Held) \in TokenIds
    BY SpareToken
  <2>. QED
    BY <1>9, <1>10, <2>1 DEF Mint
<1>11. ASSUME NEW t \in AllTasks, Renew(t) PROVE RequestInv'
  <2>1. 1 \in TokenIds
    <3>1. Cardinality(AllTasks) \in Nat
      BY TokenAssumption, FS_AddElement, FS_CardinalityType DEF AllTasks
    <3>. QED
      BY <3>1 DEF TokenIds
  <2>2. t = Boot => task[t].pc = "login"
    BY <1>11 DEF Renew, RequestInv, BootConnects
  <2>. QED
    BY <1>9, <1>11, <2>1, <2>2 DEF Renew
<1>12. ASSUME NEW t \in AllTasks, Store(t) \/ RenewFails(t) PROVE RequestInv'
  BY <1>5, <1>12 DEF Store, RenewFails
<1>13. ASSUME NEW t \in AllTasks, LoginFails(t) \/ SendFails(t) \/ Answered(t)
       PROVE  RequestInv'
  BY <1>13, Ends DEF LoginFails, SendFails, Answered
<1>14. ASSUME NEW t \in AllTasks, Serve(t), Valid(task[t].token) PROVE RequestInv'
  <2>. DEFINE f == [task[t] EXCEPT !.pc = "served", !.applied = @ + 1]
  <2>1. t \in Tasks
    BY <1>14 DEF Serve, RequestInv, BootConnects, AllTasks
  <2>2. task[t].applied = 0 /\ task[t].result = "none" /\ task[Boot].result = "ok"
    BY <1>14, <2>1 DEF Serve, RequestInv, Progress
  <2>3. f.pc = "served" /\ f.applied = 1 /\ f.result = "none"
    BY <1>1, <2>2 DEF TaskStates
  <2>4. Fine(t, f)
    BY <2>1, <2>2, <2>3, TokenAssumption DEF Fine
  <2>5. Move(t, f)
    BY <1>14 DEF Serve
  <2>. HIDE DEF f
  <2>. QED
    BY <2>4, <2>5, OneMoves
<1>15. ASSUME NEW t \in AllTasks, Serve(t), ~Valid(task[t].token) PROVE RequestInv'
  <2>1. t # Boot
    BY <1>15 DEF Serve, RequestInv, BootConnects
  <2>. QED
    BY <1>3, <1>15, <2>1 DEF Serve
<1>16. ASSUME NEW t \in AllTasks, Deny(t) PROVE RequestInv'
  <2>. DEFINE f == [task[t] EXCEPT !.pc = "refused", !.denied = TRUE]
  <2>1. f \in TaskStates /\ f.applied = task[t].applied /\ f.result = task[t].result
        /\ f.pc = "refused"
    BY <1>1 DEF TaskStates
  <2>2. Move(t, f) /\ t # Boot /\ task[t].pc = "send"
    BY <1>16 DEF Deny, RequestInv, BootConnects
  <2>. HIDE DEF f
  <2>. QED
    BY <2>1, <2>2, GoesOn
<1>17. ASSUME NEW t \in AllTasks, Refused(t) PROVE RequestInv'
  <2>1. t # Boot /\ task[t].pc = "refused"
    BY <1>17 DEF Refused, RequestInv, BootConnects
  <2>2. CASE task[t].attempt = 1
    <3>. DEFINE f == [task[t] EXCEPT !.pc = "login", !.attempt = 2,
                                     !.due = now + HttpTimeout, !.denied = FALSE]
    <3>1. f \in TaskStates /\ f.applied = task[t].applied /\ f.result = task[t].result
          /\ f.pc = "login"
      BY <1>1, <1>2 DEF TaskStates
    <3>2. Move(t, f)
      BY <1>17, <2>2 DEF Refused
    <3>. HIDE DEF f
    <3>. QED
      BY <2>1, <3>1, <3>2, GoesOn
  <2>3. CASE task[t].attempt # 1
    BY <1>17, <2>1, <2>3, Ends DEF Refused
  <2>. QED
    BY <2>2, <2>3
<1>18. CASE LookedUp
  <2>1. Boot \in AllTasks
    BY DEF AllTasks
  <2>. QED
    BY <1>18, <2>1, Ends DEF LookedUp
<1>19. CASE Revoke \/ Tick \/ UNCHANGED vars
  BY <1>19 DEF Revoke, Tick, vars, RequestInv, BootConnects, Progress, AppliedOnce
<1>. QED
  BY <1>4, <1>8, <1>10, <1>11, <1>12, <1>13, <1>14, <1>15, <1>16, <1>17, <1>18,
     <1>19, Zenon DEF Next, Step

\* Once the boot has stored a token, the lease of a static one is known unless
\* a renewal failed.
Tracked ==
    Connected /\ method = "token" /\ leased /\ renewable
        => renewFailed \/ tok.expires # NoLease

LEMMA TrackedStep == TypeOK /\ RequestInv /\ Tracked /\ [Next]_vars => Tracked'
<1>. SUFFICES ASSUME TypeOK, RequestInv, Tracked, [Next]_vars PROVE Tracked'
  OBVIOUS
<1>1. Boot \in AllTasks /\ Tasks \subseteq AllTasks
  BY DEF AllTasks
<1>2. task \in [AllTasks -> TaskStates] /\ now \in Nat
  BY TokenAssumption DEF TypeOK
<1>3. leased => Until(now) # NoLease
  BY <1>2, TokenAssumption DEF Until
<1>. USE <1>1, <1>2 DEF RequestInv, BootConnects, Tracked, Connected, Move, Goto, Ask, End,
         SendWith, AfterLogin, TaskStates, setup
<1>4. ASSUME NEW t \in AllTasks, Begin(t) PROVE Tracked'
  BY <1>4 DEF Begin
<1>5. ASSUME NEW t \in AllTasks, Check(t) \/ Recheck(t) \/ Take(t) PROVE Tracked'
  BY <1>5 DEF Check, Recheck, Take
<1>6. ASSUME NEW t \in AllTasks, Mint(t) \/ Renew(t) \/ LoginFails(t) PROVE Tracked'
  <2>1. UNCHANGED <<method, leased, renewable, renewFailed, tok>>
    BY <1>6 DEF Mint, Renew, LoginFails
  <2>2. Connected' => Connected
    <3>1. CASE Mint(t)
      <4>1. PICK i : Move(t, [task[t] EXCEPT !.pc = "loggedin", !.token = i])
        BY <3>1 DEF Mint
      <4>. QED
        BY <4>1
    <3>2. CASE Renew(t)
      <4>1. PICK pc \in {"loggedin", "renewed"} :
               Move(t, [task[t] EXCEPT !.pc = pc, !.token = 1])
        BY <3>2 DEF Renew
      <4>. QED
        BY <4>1
    <3>3. CASE LoginFails(t)
      BY <3>3 DEF LoginFails
    <3>. QED
      BY <1>6, <3>1, <3>2, <3>3
  <2>. QED
    BY <2>1, <2>2
<1>7. ASSUME NEW t \in AllTasks, Store(t) PROVE Tracked'
  BY <1>3, <1>7 DEF Store
<1>8. ASSUME NEW t \in AllTasks, RenewFails(t) PROVE Tracked'
  BY <1>8 DEF RenewFails
<1>9. ASSUME NEW t \in AllTasks, Serve(t) \/ Deny(t) \/ Answered(t) PROVE Tracked'
  BY <1>9 DEF Serve, Deny, Answered
<1>10. ASSUME NEW t \in AllTasks, Refused(t) \/ SendFails(t) PROVE Tracked'
  BY <1>10 DEF Refused, SendFails
<1>11. CASE LookedUp
  BY <1>11 DEF LookedUp
<1>12. CASE Revoke \/ Tick \/ UNCHANGED vars
  BY <1>12 DEF Revoke, Tick, vars
<1>. QED
  BY <1>4, <1>5, <1>6, <1>7, <1>8, <1>9, <1>10, <1>11, <1>12, Zenon DEF Next, Step

-----------------------------------------------------------------------------
(* Leases, with AppRole.                                                   *)

\* What a task at f may rely on.
Good(f) ==
    /\ f.pc \in Waiting => now <= f.due /\ f.due <= now + HttpTimeout
    /\ f.pc = "loggedin" =>
          IF leased THEN /\ expiry[f.token] # NoLease
                         /\ expiry[f.token] + HttpTimeout >= f.due + Lease
                    ELSE expiry[f.token] = NoLease
    /\ f.pc = "take" /\ leased => now + Skew < tok.expires
    /\ f.pc = "send" /\ expiry[f.token] # NoLease => expiry[f.token] > f.due
    /\ f.pc = "refused" => f.denied \/ f.token \in revoked
    /\ f.pc \notin {"renew", "renewed"}

\* The server notes the expiry of its token at most one timeout late.
NotedInTime ==
    IF leased THEN /\ tok.expires # NoLease /\ expiry[tok.token] # NoLease
                   /\ expiry[tok.token] + HttpTimeout >= tok.expires
              ELSE tok.expires = NoLease /\ expiry[tok.token] = NoLease

LeaseInv ==
    method = "approle" => /\ \A t \in AllTasks : Good(task[t])
                          /\ Connected => NotedInTime

LEMMA LeaseStep == TypeOK /\ RequestInv /\ LeaseInv /\ [Next]_vars => LeaseInv'
<1>. SUFFICES ASSUME TypeOK, RequestInv, LeaseInv, [Next]_vars PROVE LeaseInv'
  OBVIOUS
<1>0. UNCHANGED setup
  <2>1. ASSUME NEW t \in AllTasks, Begin(t) \/ Step(t) \/ Deny(t) \/ SendFails(t)
        PROVE  UNCHANGED setup
    BY <2>1, Zenon DEF Step, Begin, Check, Recheck, Take, Mint, Renew, Store, LoginFails,
       RenewFails, Serve, Answered, Refused, Deny, SendFails
  <2>2. CASE LookedUp \/ Revoke \/ Tick \/ UNCHANGED vars
    BY <2>2 DEF LookedUp, Revoke, Tick, vars
  <2>. QED
    BY <2>1, <2>2, Zenon DEF Next
<1>. SUFFICES ASSUME method = "approle" PROVE LeaseInv'
  BY <1>0 DEF LeaseInv, setup
<1>. USE <1>0
<1>1. Boot \in AllTasks /\ Tasks \subseteq AllTasks /\ \A t \in AllTasks : t = Boot \/ t \in Tasks
  BY DEF AllTasks
<1>2. /\ task \in [AllTasks -> TaskStates] /\ now \in Nat
      /\ expiry \in [TokenIds -> Nat \union {NoLease}]
      /\ tok \in [token : TokenIds, expires : Nat \union {NoLease}, renewable : BOOLEAN]
  BY TokenAssumption DEF TypeOK
<1>3. /\ Lease \in Nat /\ Skew \in Nat /\ HttpTimeout \in Nat /\ Lease > Skew
      /\ Skew >= 2 * HttpTimeout /\ NoLease \notin Nat
  BY TokenAssumption
<1>4. \A t \in Tasks : task[t].pc # "idle" => Connected
  BY DEF RequestInv, Progress, Connected
<1>5. \A t \in AllTasks : Good(task[t])
  BY DEF LeaseInv
<1>6. Connected => NotedInTime
  BY DEF LeaseInv
<1>7. task[Boot].pc \in {"login", "loggedin", "lookup", "done"}
  BY DEF RequestInv, BootConnects
<1>8. \A t \in AllTasks : task[t].token \in Held
  BY DEF Held
<1>. USE <1>1, <1>2 DEF Waiting
\* A step of one task that changes nothing else.
<1>9. ASSUME NEW t \in AllTasks, UNCHANGED <<now, server, tok>>,
             \A u \in AllTasks \ {t} : task'[u] = task[u],
             Good(task'[t]), Connected' => Connected
      PROVE  LeaseInv'
  <2>1. \A f : Good(f)' <=> Good(f)
    BY <1>9 DEF Good, server, setup
  <2>2. NotedInTime' <=> NotedInTime
    BY <1>9 DEF NotedInTime, server, setup
  <2>3. \A u \in AllTasks : Good(task[u])'
    BY <1>5, <1>9 DEF Good, server, setup
  <2>. QED
    BY <1>6, <1>9, <2>2, <2>3 DEF LeaseInv
<1>10. ASSUME NEW t \in Tasks PROVE (task'[Boot] = task[Boot]) => (Connected' <=> Connected)
  BY DEF Connected
<1>11. ASSUME NEW t \in AllTasks, Begin(t) PROVE LeaseInv'
  <2>1. task'[t].pc = "check" /\ \A u \in AllTasks \ {t} : task'[u] = task[u]
    BY <1>11 DEF Begin, Move, Idle
  <2>2. Good(task'[t])
    BY <2>1 DEF Good
  <2>3. Connected' => Connected
    BY <1>11, <2>1 DEF Begin, Connected
  <2>. QED
    BY <1>9, <1>11, <2>1, <2>2, <2>3 DEF Begin
<1>12. ASSUME NEW t \in AllTasks, NEW pc, Goto(t, pc) PROVE
          /\ \A u \in AllTasks \ {t} : task'[u] = task[u]
          /\ task'[t].pc = pc /\ task'[t].token = task[t].token
          /\ task'[t].due = task[t].due /\ task'[t].denied = task[t].denied
          /\ task'[t].result = task[t].result
  BY <1>12 DEF Goto, Move, TaskStates
<1>13. ASSUME NEW t \in AllTasks, NEW pc, Ask(t, pc) PROVE
          /\ \A u \in AllTasks \ {t} : task'[u] = task[u]
          /\ task'[t].pc = pc /\ task'[t].due = now + HttpTimeout
          /\ task'[t].result = task[t].result
  BY <1>13 DEF Ask, Move, TaskStates
<1>14. ASSUME NEW t \in AllTasks, SendWith(t, tok.token) PROVE
          /\ \A u \in AllTasks \ {t} : task'[u] = task[u]
          /\ task'[t].pc = "send" /\ task'[t].due = now + HttpTimeout
          /\ task'[t].token = tok.token
  BY <1>14 DEF SendWith, Move, TaskStates
<1>15. ASSUME NEW t \in AllTasks, NEW result, End(t, result) PROVE
          /\ \A u \in AllTasks \ {t} : task'[u] = task[u]
          /\ task'[t].pc = "done" /\ task'[t].result = result
  BY <1>15 DEF End, Move, TaskStates
\* A stored token that is fresh enough to be sent.
<1>16. ASSUME NEW t \in AllTasks, SendWith(t, tok.token), Connected,
              leased => now + Skew < tok.expires
       PROVE  Good(task'[t])
  <2>1. leased => expiry[tok.token] > now + HttpTimeout
    BY <1>3, <1>6, <1>16 DEF NotedInTime
  <2>. QED
    BY <1>3, <1>6, <1>14, <1>16, <2>1 DEF Good, NotedInTime
<1>17. ASSUME NEW t \in AllTasks, Check(t) \/ Recheck(t) \/ Take(t) PROVE LeaseInv'
  <2>1. t \in Tasks /\ t # Boot /\ Connected
    BY <1>4, <1>7, <1>17 DEF Check, Recheck, Take
  <2>2. leased => tok.expires \in Nat
    BY <1>6, <2>1 DEF NotedInTime
  <2>3. ~NeedsRefresh => (leased => now + Skew < tok.expires)
    BY <1>3, <1>6, <2>1, <2>2 DEF NeedsRefresh, NotedInTime
  <2>4. /\ \A u \in AllTasks \ {t} : task'[u] = task[u]
        /\ UNCHANGED <<now, server, tok>>
    BY <1>12, <1>13, <1>14, <1>17 DEF Check, Recheck, Take
  <2>5. Connected' => Connected
    BY <2>1
  <2>6. CASE Check(t)
    <3>1. ASSUME NeedsRefresh PROVE Good(task'[t])
      BY <1>12, <2>6, <3>1 DEF Check, Good
    <3>2. ASSUME ~NeedsRefresh PROVE Good(task'[t])
      BY <1>16, <2>1, <2>3, <2>6, <3>2 DEF Check
    <3>. QED
      BY <1>9, <2>4, <2>5, <3>1, <3>2
  <2>7. CASE Recheck(t)
    <3>1. CASE NeedsRefresh
      <4>1. Ask(t, "login")
        BY <2>7, <3>1 DEF Recheck
      <4>2. Good(task'[t])
        BY <1>3, <1>13, <4>1 DEF Good
      <4>. QED
        BY <1>9, <2>4, <2>5, <4>2
    <3>2. CASE ~NeedsRefresh
      <4>1. Good(task'[t])
        BY <1>12, <2>3, <2>7, <3>2 DEF Recheck, Good
      <4>. QED
        BY <1>9, <2>4, <2>5, <4>1
    <3>. QED
      BY <3>1, <3>2
  <2>8. CASE Take(t)
    <3>1. leased => now + Skew < tok.expires
      BY <1>5, <2>8 DEF Take, Good
    <3>2. Good(task'[t])
      BY <1>16, <2>1, <2>8, <3>1 DEF Take
    <3>. QED
      BY <1>9, <2>4, <2>5, <3>2
  <2>. QED
    BY <1>17, <2>6, <2>7, <2>8
<1>18. ASSUME NEW t \in AllTasks, Mint(t) PROVE LeaseInv'
  <2>. DEFINE new == CHOOSE i \in TokenIds : i \notin Held
  <2>1. new \in TokenIds /\ new \notin Held
    BY SpareToken
  <2>. HIDE DEF new
  <2>2. /\ expiry' = [i \in TokenIds |-> IF i = new THEN Until(now)
                                          ELSE IF i \in Held THEN expiry[i] ELSE 0]
        /\ revoked' = revoked \intersect (Held \ {new})
        /\ Move(t, [task[t] EXCEPT !.pc = "loggedin", !.token = new])
        /\ UNCHANGED <<now, setup, tok, faults, renewFailed>>
        /\ task[t].pc = "login"
    BY <1>18 DEF Mint, new
  <2>3. /\ \A u \in AllTasks \ {t} : task'[u] = task[u]
        /\ task'[t].pc = "loggedin" /\ task'[t].token = new /\ task'[t].due = task[t].due
        /\ task'[t].result = task[t].result
    BY <2>2 DEF Move, TaskStates
  <2>4. \A i \in Held : i \in TokenIds => expiry'[i] = expiry[i] /\ (i \in revoked => i \in revoked')
    BY <2>1, <2>2
  <2>5. expiry'[new] = Until(now)
    BY <2>1, <2>2
  <2>6. \A u \in AllTasks \ {t} : Good(task[u])'
    <3>1. SUFFICES ASSUME NEW u \in AllTasks \ {t} PROVE Good(task[u])'
      OBVIOUS
    <3>2. Good(task[u]) /\ task'[u] = task[u] /\ task[u].token \in Held
          /\ task[u].token \in TokenIds
      BY <1>5, <1>8, <2>3 DEF TaskStates
    <3>3. /\ expiry'[task[u].token] = expiry[task[u].token]
          /\ task[u].token \in revoked => task[u].token \in revoked'
      BY <2>4, <3>2
    <3>. QED
      BY <2>2, <3>2, <3>3 DEF Good, setup
  <2>7. Good(task[t])'
    <3>1. task[t].due <= now + HttpTimeout /\ now <= task[t].due /\ task[t].due \in Nat
      BY <1>5, <2>2 DEF Good, TaskStates
    <3>. QED
      BY <1>3, <2>2, <2>3, <2>5, <3>1 DEF Good, Until, setup
  <2>8. Connected' => Connected
    BY <1>7, <2>2, <2>3 DEF Connected
  <2>9. NotedInTime => NotedInTime'
    BY <2>2, <2>4 DEF NotedInTime, Held, setup
  <2>. QED
    BY <1>6, <2>6, <2>7, <2>8, <2>9 DEF LeaseInv
<1>19. ASSUME NEW t \in AllTasks, Renew(t) \/ RenewFails(t) PROVE LeaseInv'
  BY <1>19 DEF Renew, RenewFails
<1>20. ASSUME NEW t \in AllTasks, Store(t) PROVE LeaseInv'
  <2>1. task[t].pc = "loggedin" \/ task[t].pc = "renewed"
    BY <1>20 DEF Store
  <2>2. /\ tok'.token = task[t].token /\ tok'.expires = Until(now)
        /\ UNCHANGED <<now, server>> /\ AfterLogin(t)
    BY <1>20 DEF Store
  <2>3. /\ task[t].pc = "loggedin" /\ now <= task[t].due /\ task[t].due \in Nat
        /\ task[t].token \in TokenIds
        /\ IF leased THEN /\ expiry[task[t].token] # NoLease
                          /\ expiry[task[t].token] + HttpTimeout >= task[t].due + Lease
                     ELSE expiry[task[t].token] = NoLease
    BY <1>5, <2>1 DEF Good, TaskStates
  <2>4. NotedInTime'
    BY <1>3, <2>2, <2>3 DEF NotedInTime, Until, server, setup
  <2>5. leased => now + Skew < tok'.expires
    BY <1>3, <2>2 DEF Until
  <2>6. \A u \in AllTasks \ {t} : Good(task[u])' /\ task'[u] = task[u]
    <3>1. ASSUME NEW u \in AllTasks \ {t} PROVE task'[u] = task[u]
      BY <2>2 DEF AfterLogin, Ask, Goto, Move
    <3>. QED
      BY <1>5, <2>2, <2>5, <3>1 DEF Good, server, setup
  <2>7. Good(task[t])'
    <3>1. CASE Ask(t, "lookup")
      BY <1>3, <1>13, <2>2, <3>1 DEF Good
    <3>2. CASE Goto(t, "take")
      BY <1>3, <1>12, <2>2, <2>5, <3>2 DEF Good, setup
    <3>. QED
      BY <2>2, <3>1, <3>2 DEF AfterLogin
  <2>. QED
    BY <2>4, <2>6, <2>7 DEF LeaseInv
<1>21. ASSUME NEW t \in AllTasks, LoginFails(t) \/ SendFails(t) \/ Answered(t)
       PROVE  LeaseInv'
  <2>1. PICK result : End(t, result) /\ (t = Boot => result = "error")
    BY <1>7, <1>21 DEF LoginFails, SendFails, Answered
  <2>2. Good(task'[t])
    BY <1>15, <2>1 DEF Good
  <2>3. Connected' => Connected
    BY <1>15, <2>1 DEF Connected
  <2>. QED
    BY <1>9, <1>15, <1>21, <2>1, <2>2, <2>3 DEF LoginFails, SendFails, Answered
<1>22. ASSUME NEW t \in AllTasks, Serve(t) \/ Deny(t) \/ Refused(t) PROVE LeaseInv'
  <2>1. t # Boot
    BY <1>7, <1>22 DEF Serve, Deny, Refused
  <2>2. UNCHANGED <<now, server, tok>> /\ \A u \in AllTasks \ {t} : task'[u] = task[u]
    BY <1>12, <1>15, <1>22 DEF Serve, Deny, Refused, Move
  <2>3. Connected' => Connected
    BY <2>1, <2>2 DEF Connected
  <2>4. CASE Deny(t)
    <3>1. Good(task'[t])
      BY <1>5, <2>4 DEF Deny, Good, Move, TaskStates
    <3>. QED
      BY <1>9, <2>2, <2>3, <3>1
  <2>5. CASE Refused(t)
    <3>1. CASE task[t].attempt = 1
      <4>0. task'[t].pc = "login" /\ task'[t].due = now + HttpTimeout
        <5>. DEFINE f == [task[t] EXCEPT !.pc = "login", !.attempt = 2,
                                         !.due = now + HttpTimeout, !.denied = FALSE]
        <5>1. task[t] \in TaskStates /\ task' = [task EXCEPT ![t] = f]
          BY <2>5, <3>1 DEF Refused, Move
        <5>2. f.pc = "login" /\ f.due = now + HttpTimeout
          BY <5>1 DEF TaskStates
        <5>. QED
          BY <5>1, <5>2
      <4>1. Good(task'[t])
        BY <1>3, <4>0 DEF Good
      <4>. QED
        BY <1>9, <2>2, <2>3, <4>1
    <3>2. CASE task[t].attempt # 1
      <4>1. Good(task'[t])
        BY <1>15, <2>5, <3>2 DEF Refused, Good
      <4>. QED
        BY <1>9, <2>2, <2>3, <4>1
    <3>. QED
      BY <3>1, <3>2
  <2>6. CASE Serve(t) /\ Valid(task[t].token)
    <3>0. task'[t].pc = "served" /\ task'[t].due = task[t].due /\ task[t].pc = "send"
      <4>. DEFINE f == [task[t] EXCEPT !.pc = "served", !.applied = @ + 1]
      <4>1. task[t] \in TaskStates /\ task[t].pc = "send" /\ task' = [task EXCEPT ![t] = f]
        BY <2>6 DEF Serve, Move
      <4>2. f.pc = "served" /\ f.due = task[t].due
        BY <4>1 DEF TaskStates
      <4>. QED
        BY <4>1, <4>2
    <3>1. Good(task'[t])
      BY <1>5, <3>0 DEF Good
    <3>. QED
      BY <1>9, <2>2, <2>3, <3>1
  <2>7. CASE Serve(t) /\ ~Valid(task[t].token)
    <3>1. task[t].token \in revoked
      <4>1. /\ task[t].pc = "send" /\ now <= task[t].due /\ task[t].due \in Nat
            /\ task[t].token \in TokenIds
            /\ expiry[task[t].token] # NoLease => expiry[task[t].token] > task[t].due
        BY <1>5, <2>7 DEF Serve, Good, TaskStates
      <4>. QED
        BY <2>7, <4>1 DEF Valid
    <3>2. Good(task'[t])
      BY <1>5, <1>12, <2>7, <3>1 DEF Serve, Good
    <3>. QED
      BY <1>9, <2>2, <2>3, <3>2
  <2>. QED
    BY <1>22, <2>4, <2>5, <2>6, <2>7
<1>23. CASE LookedUp
  <2>1. UNCHANGED <<now, server, tok>> /\ Connected /\ task'[Boot].pc = "done"
        /\ \A u \in AllTasks \ {Boot} : task'[u] = task[u]
    BY <1>15, <1>23 DEF LookedUp, Connected
  <2>2. Good(task'[Boot])
    BY <2>1 DEF Good
  <2>. QED
    BY <1>9, <2>1, <2>2
<1>24. CASE Revoke
  <2>1. revoked \subseteq revoked' /\ UNCHANGED <<now, expiry, tok, task>>
    BY <1>24 DEF Revoke
  <2>2. \A t \in AllTasks : Good(task[t])'
    BY <1>5, <2>1 DEF Good, setup
  <2>. QED
    BY <1>6, <2>1, <2>2 DEF LeaseInv, Connected, NotedInTime, setup
<1>25. CASE Tick
  <2>1. now' = now + 1 /\ UNCHANGED <<server, tok, task>>
        /\ \A t \in AllTasks : task[t].pc # "take" /\ (task[t].pc \in Waiting => now < task[t].due)
    BY <1>25 DEF Tick, Local
  <2>2. ASSUME NEW t \in AllTasks PROVE Good(task[t])'
    <3>1. Good(task[t]) /\ task[t].due \in Nat
      BY <1>5 DEF TaskStates
    <3>. QED
      BY <1>3, <2>1, <3>1 DEF Good, setup, server
  <2>. QED
    BY <1>6, <2>1, <2>2 DEF LeaseInv, Connected, NotedInTime, setup, server
<1>26. CASE UNCHANGED vars
  BY <1>5, <1>6, <1>26 DEF vars, server, setup, LeaseInv, Good, Connected, NotedInTime
<1>. QED
  BY <1>11, <1>17, <1>18, <1>19, <1>20, <1>21, <1>22, <1>23, <1>24, <1>25, <1>26, Zenon
     DEF Next, Step

-----------------------------------------------------------------------------
(* The theorems.                                                           *)

Invariant == TypeOK /\ RequestInv /\ Tracked /\ LeaseInv

LEMMA Initially == Init => Invariant
<1>. SUFFICES ASSUME Init PROVE Invariant
  OBVIOUS
<1>1. 1 \in TokenIds /\ Boot \in AllTasks /\ Tasks \subseteq AllTasks /\ Boot \notin Tasks
  <2>1. Cardinality(AllTasks) \in Nat
    BY TokenAssumption, FS_AddElement, FS_CardinalityType DEF AllTasks
  <2>. QED
    BY <2>1, TokenAssumption DEF TokenIds, AllTasks
<1>2. Idle \in TaskStates /\ [Idle EXCEPT !.pc = "login", !.due = HttpTimeout] \in TaskStates
  BY <1>1, TokenAssumption DEF Idle, TaskStates, Waiting
<1>3. TypeOK
  <2>1. HttpTimeout \in Nat /\ Lease \in Nat /\ MaxTime \in Nat /\ MaxFaults \in Nat
    BY TokenAssumption
  <2>2. expiry \in [TokenIds -> Nat \union {NoLease}]
    BY <2>1 DEF Init, Until
  <2>3. /\ tok \in [token : TokenIds, expires : Nat \union {NoLease}, renewable : BOOLEAN]
        /\ task \in [AllTasks -> TaskStates]
    BY <1>1, <1>2 DEF Init
  <2>4. method \in {"approle", "token"} /\ leased \in BOOLEAN /\ renewable \in BOOLEAN
    BY DEF Init
  <2>5. now \in 0..MaxTime /\ faults \in 0..MaxFaults /\ revoked \subseteq TokenIds
    BY <2>1 DEF Init
  <2>6. renewFailed \in BOOLEAN
    BY DEF Init
  <2>. QED
    BY <2>2, <2>3, <2>4, <2>5, <2>6, Zenon DEF TypeOK
<1>4. /\ task[Boot] = [Idle EXCEPT !.pc = "login", !.due = HttpTimeout]
      /\ \A t \in Tasks : task[t] = Idle
  BY <1>1 DEF Init
<1>5. RequestInv
  BY <1>4 DEF RequestInv, BootConnects, Progress, AppliedOnce, Idle
<1>6. ~Connected
  BY <1>4 DEF Connected, Idle
<1>7. \A t \in AllTasks : t = Boot \/ t \in Tasks
  BY DEF AllTasks
<1>8. \A t \in AllTasks : Good(task[t])
  BY <1>4, <1>7, TokenAssumption DEF Good, Idle, Waiting, Init
<1>. QED
  BY <1>3, <1>5, <1>6, <1>8 DEF Invariant, Tracked, LeaseInv

LEMMA InvariantHolds == Spec => []Invariant
<1>1. Invariant /\ [Next]_vars => Invariant'
  BY TypeStep, RequestInvStep, TrackedStep, LeaseStep DEF Invariant
<1>. QED
  BY Initially, <1>1, PTL DEF Spec

\* Every variable keeps its type, the stored token and the tasks' included.
THEOREM BaoTypeCorrect == Spec => []TypeOK
<1>1. Invariant => TypeOK
  BY DEF Invariant
<1>. QED
  BY InvariantHolds, <1>1, PTL

\* A request sent again after a 403 takes effect at most once, and its answer
\* tells the truth about it (send_authed).
THEOREM RetryIsSafe == Spec => []AppliedOnce
<1>1. Invariant => AppliedOnce
  BY DEF Invariant, RequestInv
<1>. QED
  BY InvariantHolds, <1>1, PTL

\* A static token's lease is forgotten only after a renewal failed (login).
THEOREM LeaseIsTracked == Spec => []UntrackedHasCause
<1>1. Invariant => UntrackedHasCause
  BY DEF Invariant, Tracked, Connected, UntrackedHasCause
<1>. QED
  BY InvariantHolds, <1>1, PTL

\* RENEW_SKEW_SECS leaves every AppRole request a valid token, whatever the
\* number of tasks that refresh it side by side (current_token).
THEOREM SkewIsEnough == Spec => []NeverLapses
<1>1. Invariant => NeverLapses
  BY DEF Invariant, LeaseInv, Good, NeverLapses, AllTasks
<1>. QED
  BY InvariantHolds, <1>1, PTL
=============================================================================
