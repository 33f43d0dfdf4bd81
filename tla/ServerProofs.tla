------------------------------ MODULE ServerProofs ------------------------------
(***************************************************************************)
(* Proofs of the properties of Accounts and of Server, for all accounts,   *)
(* sessions, requests and processes.  The lemmas about the steps of        *)
(* Accounts serve both: in Server, a process that exits may cut requests   *)
(* off, and the steps of the requests are those of Accounts.               *)
(***************************************************************************)
EXTENDS Server, TLAPS

-----------------------------------------------------------------------------
(* The invariant of Accounts.                                              *)

Calls == [pc : {"new", "arrived", "checked", "admitted", "ok", "unauthorized", "refused",
                "failed", "lost"},
          kind : Kinds, user : Emails \cup {"none"}, token : Tokens \cup {"none"},
          dead : BOOLEAN, late : BOOLEAN]

AccountsTyped ==
    /\ users \in [Emails -> {"none", "active", "inactive"}]
    /\ sessions \in [Tokens -> SessionRow \cup {NoSession}]
    /\ requests \in [Requests -> Calls]
    /\ effects \subseteq Requests

\* Nobody has a session who has no account.
SessionsOwned ==
    \A t \in Tokens : sessions[t] # NoSession => users[sessions[t].user] # "none"

\* The session can admit nobody any more: nothing takes back its end.
Over(t) ==
    \/ sessions[t].revoked
    \/ sessions[t].expired
    \/ users[sessions[t].user] = "inactive"

\* What is known of a request at each of its steps.
Private(c) == c.kind # "login"
CallOK(c) ==
    /\ c.pc = "checked" => /\ c.kind = "login" /\ c.user \in Emails
                           /\ users[c.user] # "none"
    /\ c.pc = "admitted" => Private(c)
    /\ Private(c) => c.token \in Tokens /\ sessions[c.token] # NoSession
    /\ c.dead => Private(c) /\ Over(c.token)
    /\ c.late /\ Private(c) => sessions[c.token].revoked
    /\ c.kind = "logout" /\ c.pc = "ok" => sessions[c.token].revoked
    /\ Private(c) /\ (c.dead \/ c.late) => c.pc \notin {"admitted", "ok"}

EffectsKnown ==
    \A q \in effects : requests[q].kind = "operate" /\ requests[q].pc \in {"ok", "failed"}
NoEffects ==
    \A q \in effects : ~ requests[q].dead /\ ~ requests[q].late

AccountsInv ==
    /\ AccountsTyped
    /\ SessionsOwned
    /\ \A q \in Requests : CallOK(requests[q])
    /\ EffectsKnown
    /\ NoEffects

-----------------------------------------------------------------------------
(* The invariant of Server.                                                *)

ProcRows ==
    [main : {"off"} \cup Running \cup Ended, signalled : BOOLEAN,
     worker : {"none", "recovering", "looping", "failed", "cancelled"},
     listener : {"none", "binding", "open", "closed", "failed"}, rival : BOOLEAN,
     fit : BOOLEAN]

ServerTyped ==
    /\ applied \in {0, 1}
    /\ proc \in [Procs -> ProcRows]
    /\ at \in [Requests -> Procs \cup {"none"}]
    /\ faults \in Nat

HasAccount == users[BootstrapEmail] # "none"

\* What a process has done before it is where it is; and that a start in a fit
\* environment meets what makes it fail only when others were running.
RowOK(row) ==
    /\ row.main \in {"migrated", "creating", "seeded"} \cup Launched => applied = 1
    /\ row.main \in {"seeded"} \cup Launched => HasAccount
    /\ row.listener # "none" \/ row.worker # "none" => row.main \in Launched
    /\ row.main = "joining" => row.listener # "open"
    /\ row.listener = "failed" /\ row.fit => row.rival
    /\ row.main = "migrating" /\ applied # 0 => row.rival
    /\ row.main = "creating" /\ row.fit /\ HasAccount => row.rival
    /\ row.main = "unable" /\ row.fit => row.rival

\* Two processes that run know of each other.
RivalsKnown ==
    \A p, x \in Procs :
        p # x /\ proc[p].main \in Running /\ proc[x].main \in Running => proc[p].rival

OneListener ==
    \A p, x \in Procs : proc[p].listener = "open" /\ proc[x].listener = "open" => p = x

JoiningIsDrained ==
    \A p \in Procs : proc[p].main = "joining" => InFlightAt(p) = {}

ServerInv ==
    /\ AccountsInv
    /\ ServerTyped
    /\ \A p \in Procs : RowOK(proc[p])
    /\ RivalsKnown
    /\ OneListener
    /\ JoiningIsDrained

-----------------------------------------------------------------------------
(* Steps of Accounts.                                                      *)

\* A row of sessions is told apart from none.
LEMMA SessionRows == \A s \in SessionRow : s # NoSession
<1>1. \A s \in SessionRow : "revoked" \in DOMAIN s
  BY DEF SessionRow
<1>2. "revoked" \notin DOMAIN NoSession
  BY DEF NoSession
<1>. QED
  BY <1>1, <1>2

\* What no step takes back: accounts, their deactivation, sessions, their end.
Lasting ==
    /\ \A e \in Emails : /\ users[e] # "none" => users'[e] # "none"
                         /\ users[e] = "inactive" => users'[e] = "inactive"
    /\ \A t \in Tokens : sessions[t] # NoSession =>
          /\ sessions'[t] # NoSession /\ sessions'[t].user = sessions[t].user
          /\ sessions[t].revoked => sessions'[t].revoked
          /\ sessions[t].expired => sessions'[t].expired

LEMMA CallLasts ==
  ASSUME AccountsTyped, Lasting, NEW c, CallOK(c)
  PROVE  CallOK(c)'
<1>1. ASSUME Private(c), Over(c.token)
      PROVE  Over(c.token)'
  <2>1. c.token \in Tokens /\ sessions[c.token] \in SessionRow
    BY <1>1 DEF CallOK, AccountsTyped
  <2>2. sessions[c.token].user \in Emails
    BY <2>1 DEF SessionRow
  <2>. QED
    BY <1>1, <2>1, <2>2 DEF Over, CallOK, Lasting
<1>. QED
  BY <1>1 DEF CallOK, Private, Lasting

\* A step of one call.
LEMMA CallStep ==
  ASSUME AccountsInv, Lasting, NEW q \in Requests, q \notin effects,
         users' \in [Emails -> {"none", "active", "inactive"}],
         sessions' \in [Tokens -> SessionRow \cup {NoSession}],
         SessionsOwned',
         NEW c \in Calls, requests' = [requests EXCEPT ![q] = c],
         CallOK(c)',
         \/ effects' = effects
         \/ /\ effects' = effects \cup {q}
            /\ c.kind = "operate" /\ c.pc \in {"ok", "failed"} /\ ~ c.dead /\ ~ c.late
  PROVE  AccountsInv'
<1>. USE DEF AccountsInv
<1>1. AccountsTyped'
  BY DEF AccountsTyped
<1>2. requests'[q] = c /\ \A x \in Requests : x # q => requests'[x] = requests[x]
  BY DEF AccountsTyped
<1>3. \A x \in Requests : CallOK(requests[x])'
  <2>. TAKE x \in Requests
  <2>1. PICK d : d = requests'[x]
    OBVIOUS
  <2>2. CallOK(d)'
    BY <1>2, <2>1, CallLasts
  <2>. QED
    BY <2>1, <2>2
<1>4. \A x \in effects : x \in Requests /\ x # q
  BY DEF AccountsTyped
<1>5. EffectsKnown' /\ NoEffects'
  BY <1>2, <1>4 DEF EffectsKnown, NoEffects
<1>. QED
  BY <1>1, <1>3, <1>5

\* A step of no call.
LEMMA SilentStep ==
  ASSUME AccountsInv, Lasting,
         users' \in [Emails -> {"none", "active", "inactive"}],
         sessions' \in [Tokens -> SessionRow \cup {NoSession}],
         SessionsOwned', UNCHANGED <<requests, effects>>
  PROVE  AccountsInv'
<1>. USE DEF AccountsInv
<1>1. AccountsTyped' /\ EffectsKnown' /\ NoEffects'
  BY DEF AccountsTyped, EffectsKnown, NoEffects
<1>2. \A x \in Requests : CallOK(requests[x])'
  <2>. TAKE x \in Requests
  <2>1. PICK d : d = requests'[x]
    OBVIOUS
  <2>2. CallOK(d)'
    BY <2>1, CallLasts
  <2>. QED
    BY <2>1, <2>2
<1>. QED
  BY <1>1, <1>2

\* An answer that changes nothing else.
LEMMA AnswerStep ==
  ASSUME AccountsInv, NEW q \in Requests, InFlight(q),
         NEW status \in {"admitted", "ok", "unauthorized", "refused", "failed"},
         Answer(q, status), UNCHANGED <<users, sessions>>,
         status = "admitted" => Private(requests[q]) /\ Admits(requests[q].token),
         status = "ok" => requests[q].pc = "admitted" /\ requests[q].kind # "logout",
         \/ UNCHANGED effects
         \/ /\ effects' = effects \cup {q} /\ requests[q].kind = "operate"
            /\ requests[q].pc = "admitted" /\ status \in {"ok", "failed"}
  PROVE  AccountsInv'
<1>0. PICK c : c = [requests[q] EXCEPT !.pc = status]
  OBVIOUS
<1>1. /\ requests[q] \in Calls /\ CallOK(requests[q]) /\ q \notin effects
      /\ SessionsOwned /\ AccountsTyped
  BY DEF AccountsInv, AccountsTyped, EffectsKnown, InFlight
<1>2. /\ c \in Calls /\ c.pc = status /\ c.kind = requests[q].kind /\ c.user = requests[q].user
      /\ c.token = requests[q].token /\ c.dead = requests[q].dead /\ c.late = requests[q].late
  BY <1>0, <1>1 DEF Calls
<1>3. requests' = [requests EXCEPT ![q] = c]
  BY <1>0, <1>1 DEF Answer, AccountsTyped
<1>4. Lasting
  BY DEF Lasting
<1>5. ASSUME Admits(c.token) PROVE ~ Over(c.token) /\ ~ sessions[c.token].revoked
  BY <1>5 DEF Admits, ActiveAt, Over
<1>6. /\ CallOK(c)
      /\ requests[q].pc = "admitted" => ~ c.dead /\ ~ c.late
  BY <1>1, <1>2, <1>5 DEF CallOK, Private
<1>7. CallOK(c)' /\ SessionsOwned'
  BY <1>1, <1>4, <1>6, CallLasts DEF SessionsOwned
<1>. QED
  BY <1>1, <1>2, <1>3, <1>4, <1>6, <1>7, CallStep DEF AccountsTyped

\* A request that arrives: its mark tells whether its session is over.
LEMMA ArriveStep ==
  ASSUME AccountsInv, NEW q \in Requests, Receive(q)
  PROVE  AccountsInv'
<1>. USE DEF AccountsInv
<1>1. PICK kind \in Kinds, t \in Tokens \cup {"none"} :
         /\ Arrive(q, kind, t)
         /\ kind # "login" => t \in Tokens /\ sessions[t] # NoSession
  BY DEF Receive, Kinds
<1>. DEFINE After == \E other \in Requests :
                        /\ requests[other].pc = "ok"
                        /\ requests[other].kind = "logout"
                        /\ requests[other].token = t
<1>0. PICK c : c = [pc |-> "arrived", kind |-> kind, user |-> "none", token |-> t,
                    dead |-> kind # "login" /\ ~ Admits(t), late |-> After]
  OBVIOUS
<1>2. /\ c.pc = "arrived" /\ c.kind = kind /\ c.token = t
      /\ c.dead <=> kind # "login" /\ ~ Admits(t)
      /\ c.late <=> After
  BY <1>0
<1>3. After /\ kind # "login" => sessions[t].revoked
  BY DEF CallOK
<1>4. requests' = [requests EXCEPT ![q] = c] /\ requests[q].pc = "new"
  BY <1>0, <1>1 DEF Arrive
<1>5. c \in Calls
  BY <1>0 DEF Calls
<1>. HIDE DEF After
<1>6. ASSUME kind # "login", ~ Admits(t)
      PROVE  Over(t)
  <2>1. sessions[t] \in SessionRow /\ sessions[t] # NoSession
    BY <1>1, <1>6 DEF AccountsTyped
  <2>2. users[sessions[t].user] \in {"active", "inactive"}
    BY <1>1, <1>6, <2>1 DEF AccountsTyped, SessionsOwned, SessionRow
  <2>. QED
    BY <1>6, <2>1, <2>2 DEF Admits, ActiveAt, Over
<1>7. CallOK(c)
  BY <1>1, <1>2, <1>3, <1>6 DEF CallOK, Private
<1>8. UNCHANGED <<users, sessions, effects>> /\ q \notin effects
  BY <1>1, <1>4 DEF Arrive, EffectsKnown
<1>9. Lasting /\ SessionsOwned'
  BY <1>8 DEF Lasting, SessionsOwned
<1>10. CallOK(c)'
  BY <1>7, <1>9, CallLasts
<1>. QED
  BY <1>4, <1>5, <1>8, <1>9, <1>10, CallStep DEF AccountsTyped

\* A session starts; none that there was is touched.
LEMMA SessionStarts ==
  ASSUME AccountsInv, NEW q \in Requests, NEW t \in Tokens, CreateSession(q, t)
  PROVE  AccountsInv' /\ Lasting
<1>. USE DEF AccountsInv
<1>0. PICK c, row : /\ \/ c = [requests[q] EXCEPT !.pc = "ok", !.token = t]
                       \/ c = [requests[q] EXCEPT !.pc = "failed"]
                    /\ row = NewSession(q)
                    /\ requests' = [requests EXCEPT ![q] = c]
  BY DEF CreateSession, Answer, AccountsTyped
<1>1. /\ requests[q].pc = "checked" /\ requests[q] \in Calls /\ CallOK(requests[q])
      /\ q \notin effects /\ sessions[t] = NoSession /\ UNCHANGED <<users, effects>>
      /\ requests[q].kind = "login" /\ requests[q].user \in Emails
      /\ users[requests[q].user] # "none"
  BY DEF CreateSession, AccountsTyped, EffectsKnown, CallOK
<1>2. row \in SessionRow /\ row.user = requests[q].user
  BY <1>0, <1>1 DEF NewSession, SessionRow
<1>3. sessions' = [sessions EXCEPT ![t] = row] /\ requests' = [requests EXCEPT ![q] = c]
  BY <1>0 DEF CreateSession, AccountsTyped
<1>4. /\ c \in Calls /\ c.pc \in {"ok", "failed"} /\ c.kind = "login" /\ ~ c.dead
  BY <1>0, <1>1 DEF Calls, CallOK, Private
<1>5. sessions'[t] = row /\ \A other \in Tokens : other # t => sessions'[other] = sessions[other]
  BY <1>3 DEF AccountsTyped
<1>6. sessions' \in [Tokens -> SessionRow \cup {NoSession}]
  BY <1>2, <1>3 DEF AccountsTyped
<1>7. Lasting
  BY <1>1, <1>5 DEF Lasting
<1>8. SessionsOwned'
  BY <1>1, <1>2, <1>5 DEF SessionsOwned
<1>9. CallOK(c)'
  BY <1>4 DEF CallOK, Private
<1>10. AccountsInv'
  BY <1>1, <1>3, <1>4, <1>6, <1>7, <1>8, <1>9, CallStep DEF AccountsTyped
<1>. QED
  BY <1>7, <1>10

\* A session is ended: its row stays.
LEMMA SessionEnds ==
  ASSUME AccountsTyped, SessionsOwned, NEW t \in Tokens, sessions[t] # NoSession,
         NEW row, \/ row = [sessions[t] EXCEPT !.revoked = TRUE]
                  \/ row = [sessions[t] EXCEPT !.expired = TRUE],
         sessions' = [sessions EXCEPT ![t] = row], UNCHANGED users
  PROVE  /\ Lasting /\ SessionsOwned'
         /\ sessions' \in [Tokens -> SessionRow \cup {NoSession}]
         /\ sessions'[t] = row
<1>1. sessions[t] \in SessionRow
  BY DEF AccountsTyped
<1>2. /\ row \in SessionRow /\ row.user = sessions[t].user
      /\ sessions[t].revoked => row.revoked
      /\ sessions[t].expired => row.expired
  BY <1>1 DEF SessionRow
<1>3. row # NoSession
  BY <1>2, SessionRows
<1>4. sessions'[t] = row /\ \A other \in Tokens : other # t => sessions'[other] = sessions[other]
  BY DEF AccountsTyped
<1>5. sessions' \in [Tokens -> SessionRow \cup {NoSession}]
  BY <1>2 DEF AccountsTyped
<1>6. Lasting
  BY <1>2, <1>3, <1>4 DEF Lasting
<1>7. SessionsOwned'
  BY <1>2, <1>4 DEF SessionsOwned
<1>. QED
  BY <1>4, <1>5, <1>6, <1>7

\* A logout ends its session, whatever is answered.
LEMMA LogoutStep ==
  ASSUME AccountsInv, NEW q \in Requests, Logout(q)
  PROVE  AccountsInv' /\ Lasting
<1>. USE DEF AccountsInv
<1>1. /\ requests[q].pc = "admitted" /\ requests[q].kind = "logout"
      /\ requests[q] \in Calls /\ CallOK(requests[q]) /\ q \notin effects
      /\ UNCHANGED <<users, effects>>
  BY DEF Logout, AccountsTyped, EffectsKnown
<1>2. PICK t \in Tokens : t = requests[q].token /\ sessions[t] # NoSession
  BY <1>1 DEF CallOK, Private
<1>3. PICK status \in {"ok", "failed"} : Answer(q, status)
  BY DEF Logout
<1>4. PICK c, row : /\ c = [requests[q] EXCEPT !.pc = status]
                    /\ row = [sessions[t] EXCEPT !.revoked = TRUE]
  OBVIOUS
<1>5. /\ c \in Calls /\ c.pc = status /\ c.kind = "logout" /\ c.token = t
      /\ ~ c.dead /\ ~ c.late
  BY <1>1, <1>2, <1>4 DEF Calls, CallOK, Private
<1>6. sessions' = [sessions EXCEPT ![t] = row] /\ requests' = [requests EXCEPT ![q] = c]
  BY <1>1, <1>2, <1>3, <1>4 DEF Logout, Revoked, Answer, AccountsTyped
<1>7. /\ Lasting /\ SessionsOwned' /\ sessions'[t] = row
      /\ sessions' \in [Tokens -> SessionRow \cup {NoSession}]
  BY <1>1, <1>2, <1>4, <1>6, SessionEnds
<1>8. row.revoked
  BY <1>2, <1>4 DEF AccountsTyped, SessionRow
<1>9. CallOK(c)'
  BY <1>2, <1>5, <1>7, <1>8 DEF CallOK, Private, Lasting
<1>10. AccountsInv'
  BY <1>1, <1>5, <1>6, <1>7, <1>9, CallStep DEF AccountsTyped
<1>. QED
  BY <1>7, <1>10

\* A login's password is checked.
LEMMA CheckLoginStep ==
  ASSUME AccountsInv, NEW q \in Requests, NEW e \in Emails, CheckLogin(q, e)
  PROVE  AccountsInv'
<1>. USE DEF AccountsInv
<1>1. /\ requests[q].pc = "arrived" /\ requests[q].kind = "login"
      /\ requests[q] \in Calls /\ CallOK(requests[q]) /\ q \notin effects
      /\ UNCHANGED <<users, sessions, effects>>
  BY DEF CheckLogin, AccountsTyped, EffectsKnown
<1>2. CASE Answer(q, "unauthorized")
  BY <1>1, <1>2, AnswerStep DEF InFlight
<1>3. CASE users[e] = "active"
           /\ requests' = [requests EXCEPT ![q].pc = "checked", ![q].user = e]
  <2>1. PICK c : c = [requests[q] EXCEPT !.pc = "checked", !.user = e]
    OBVIOUS
  <2>2. /\ c \in Calls /\ c.pc = "checked" /\ c.kind = "login" /\ c.user = e /\ ~ c.dead
    BY <1>1, <2>1 DEF Calls, CallOK, Private
  <2>3. requests' = [requests EXCEPT ![q] = c]
    BY <1>1, <1>3, <2>1 DEF AccountsTyped
  <2>4. Lasting /\ SessionsOwned' /\ CallOK(c)'
    BY <1>1, <1>3, <2>2 DEF Lasting, SessionsOwned, CallOK, Private
  <2>. QED
    BY <1>1, <2>2, <2>3, <2>4, CallStep DEF AccountsTyped
<1>. QED
  BY <1>2, <1>3 DEF CheckLogin

\* Every step of a handler.
LEMMA HandleStep ==
  ASSUME AccountsInv, NEW q \in Requests, Handle(q)
  PROVE  /\ AccountsInv'
         /\ UNCHANGED users
         /\ InFlight(q)
         /\ \A x \in Requests : x # q => requests'[x] = requests[x]
<1>. USE DEF AccountsInv
<1>1. /\ UNCHANGED users
      /\ InFlight(q)
      /\ \A x \in Requests : x # q => requests'[x] = requests[x]
  BY DEF Handle, Authenticate, Logout, ListCohorts, Operate, Fail, CheckLogin, CreateSession,
         Answer, InFlight, AccountsTyped
<1>2. ASSUME Authenticate(q) PROVE AccountsInv'
  <2>1. /\ InFlight(q) /\ Private(requests[q]) /\ UNCHANGED <<users, sessions, effects>>
        /\ \/ Answer(q, "admitted") /\ Admits(requests[q].token)
           \/ Answer(q, "unauthorized")
    BY <1>2 DEF Authenticate, Admitted, InFlight, Private
  <2>. QED
    BY <2>1, AnswerStep
<1>3. ASSUME ListCohorts(q) PROVE AccountsInv'
  BY <1>1, <1>3, AnswerStep DEF ListCohorts
<1>4. ASSUME Operate(q) PROVE AccountsInv'
  BY <1>1, <1>4, AnswerStep DEF Operate
<1>5. ASSUME Fail(q) PROVE AccountsInv'
  BY <1>1, <1>5, AnswerStep DEF Fail
<1>. QED
  BY <1>1, <1>2, <1>3, <1>4, <1>5, LogoutStep, CheckLoginStep, SessionStarts DEF Handle

\* An account is made, or deactivated; a session expires.
LEMMA OutsideStep ==
  ASSUME AccountsInv, External \/ \E e \in Emails : CreateUser(e)
  PROVE  AccountsInv'
<1>. USE DEF AccountsInv
<1>1. ASSUME NEW t \in Tokens, Expire(t) PROVE AccountsInv'
  <2>1. PICK row : row = [sessions[t] EXCEPT !.expired = TRUE]
    OBVIOUS
  <2>2. sessions' = [sessions EXCEPT ![t] = row] /\ sessions[t] # NoSession
        /\ UNCHANGED <<users, requests, effects>>
    BY <1>1, <2>1 DEF Expire, AccountsTyped
  <2>3. /\ Lasting /\ SessionsOwned'
        /\ sessions' \in [Tokens -> SessionRow \cup {NoSession}]
    BY <2>1, <2>2, SessionEnds
  <2>. QED
    BY <2>2, <2>3, SilentStep DEF AccountsTyped
<1>2. ASSUME NEW e \in Emails, Deactivate(e) \/ CreateUser(e) PROVE AccountsInv'
  <2>1. /\ users' \in [Emails -> {"none", "active", "inactive"}]
        /\ \A x \in Emails : /\ users[x] # "none" => users'[x] # "none"
                             /\ users[x] = "inactive" => users'[x] = "inactive"
        /\ UNCHANGED <<sessions, requests, effects>>
    BY <1>2 DEF Deactivate, CreateUser, AccountsTyped
  <2>2. Lasting
    BY <2>1 DEF Lasting
  <2>3. \A t \in Tokens : sessions[t] # NoSession => sessions[t].user \in Emails
    BY DEF AccountsTyped, SessionRow
  <2>4. SessionsOwned'
    BY <2>1, <2>3 DEF SessionsOwned
  <2>. QED
    BY <2>1, <2>2, <2>4, SilentStep DEF AccountsTyped
<1>. QED
  BY <1>1, <1>2 DEF External

LEMMA AccountsStart == AccountsInit => AccountsInv
<1>. SUFFICES ASSUME AccountsInit PROVE AccountsInv
  OBVIOUS
<1>1. AccountsTyped
  BY DEF AccountsInit, AccountsTyped, SessionRow, Calls, Kinds, NewRequest
<1>2. \A t \in Tokens : sessions[t] # NoSession => users[sessions[t].user] = "active"
  BY DEF AccountsInit
<1>3. \A q \in Requests : CallOK(requests[q])
  BY DEF AccountsInit, CallOK, Private, NewRequest
<1>. QED
  BY <1>1, <1>2, <1>3 DEF AccountsInit, AccountsInv, SessionsOwned, EffectsKnown, NoEffects

\* The inductive invariant of Accounts.
THEOREM AccountsInvariant == AccountsSpec => []AccountsInv
<1>1. AccountsInv /\ [AccountsNext]_accountVars => AccountsInv'
  <2>. SUFFICES ASSUME AccountsInv, [AccountsNext]_accountVars PROVE AccountsInv'
    OBVIOUS
  <2>1. ASSUME UNCHANGED accountVars PROVE AccountsInv'
    <3>1. Lasting /\ SessionsOwned'
      BY <2>1 DEF accountVars, Lasting, AccountsInv, SessionsOwned
    <3>. QED
      BY <2>1, <3>1, SilentStep DEF accountVars, AccountsInv, AccountsTyped
  <2>. QED
    BY <2>1, ArriveStep, HandleStep, OutsideStep DEF AccountsNext
<1>. QED
  BY <1>1, AccountsStart, PTL DEF AccountsSpec

LEMMA AccountsTypesHold == AccountsInv => AccountsTypeOK
  BY DEF AccountsInv, AccountsTyped, Calls, AccountsTypeOK, InFlight, Answered

LEMMA DeadAreOut == AccountsInv => DeadStaysOut
  BY DEF AccountsInv, CallOK, NoEffects, DeadStaysOut

\* The tables users and sessions and the requests in flight are what auth.go
\* and the handlers make of them.
THEOREM AccountsTypes == AccountsSpec => []AccountsTypeOK
  BY AccountsInvariant, AccountsTypesHold, PTL

\* No request of a session that is over is let in, and no operation is carried
\* out for one that came after an answered logout.
THEOREM DeadSessionsStayOut == AccountsSpec => []DeadStaysOut
  BY AccountsInvariant, DeadAreOut, PTL

-----------------------------------------------------------------------------
(* Steps of Server.                                                        *)

\* Requests that are cut off.
LEMMA LoseStep ==
  ASSUME AccountsInv, NEW S, \A q \in S : InFlight(q),
         requests' = [q \in Requests |-> IF q \in S THEN [requests[q] EXCEPT !.pc = "lost"]
                                                    ELSE requests[q]],
         UNCHANGED <<users, sessions, effects>>
  PROVE  AccountsInv'
<1>. USE DEF AccountsInv
<1>1. Lasting /\ SessionsOwned'
  BY DEF Lasting, SessionsOwned
<1>2. ASSUME NEW q \in Requests
      PROVE  /\ requests'[q] \in Calls /\ CallOK(requests[q])'
             /\ q \in S => q \notin effects
             /\ q \notin S => requests'[q] = requests[q]
  <2>1. PICK c, d : c = requests[q] /\ d = requests'[q]
    OBVIOUS
  <2>2. c \in Calls /\ CallOK(c)'
    BY <1>1, <2>1, CallLasts DEF AccountsTyped
  <2>3. CASE q \in S
    <3>1. d = [c EXCEPT !.pc = "lost"]
      BY <2>1, <2>3
    <3>2. d \in Calls /\ CallOK(d)'
      BY <2>2, <3>1 DEF Calls, CallOK, Private
    <3>3. q \notin effects
      BY <2>3 DEF EffectsKnown, InFlight
    <3>. QED
      BY <2>1, <2>3, <3>2, <3>3
  <2>4. CASE q \notin S
    BY <2>1, <2>2, <2>4
  <2>. QED
    BY <2>3, <2>4
<1>3. AccountsTyped'
  BY <1>2 DEF AccountsTyped
<1>4. EffectsKnown' /\ NoEffects'
  BY <1>2 DEF EffectsKnown, NoEffects, AccountsTyped
<1>. QED
  BY <1>1, <1>2, <1>3, <1>4

\* A step of one process: what its new row must satisfy.
LEMMA MoveStep ==
  ASSUME ServerInv, NEW p \in Procs, NEW row \in ProcRows,
         proc' = [proc EXCEPT ![p] = row],
         RowOK(row)', \A x \in Procs \ {p} : RowOK(proc[x])',
         row.main \in Running => proc[p].main \in Running /\ row.rival = proc[p].rival,
         row.listener = "open" => \/ proc[p].listener = "open"
                                  \/ \A x \in Procs : proc[x].listener # "open",
         row.main = "joining" => InFlightAt(p) = {},
         AccountsInv', \A q \in Requests : InFlight(q)' => InFlight(q),
         applied' \in {0, 1}, at' = at, faults' \in Nat
  PROVE  ServerInv'
<1>. USE DEF ServerInv
<1>1. proc'[p] = row /\ \A x \in Procs : x # p => proc'[x] = proc[x]
  BY DEF ServerTyped
<1>2. ServerTyped'
  BY DEF ServerTyped
<1>3. \A x \in Procs : RowOK(proc[x])'
  BY <1>1
<1>4. RivalsKnown'
  BY <1>1 DEF RivalsKnown
<1>5. OneListener'
  BY <1>1 DEF OneListener
<1>6. \A x \in Procs : InFlightAt(x) = {} => InFlightAt(x)' = {}
  BY DEF InFlightAt
<1>7. JoiningIsDrained'
  BY <1>1, <1>6 DEF JoiningIsDrained
<1>. QED
  BY <1>2, <1>3, <1>4, <1>5, <1>7

\* A step of one process that changes nothing but its row.
LEMMA LocalStep ==
  ASSUME ServerInv, NEW p \in Procs, NEW row \in ProcRows,
         proc' = [proc EXCEPT ![p] = row],
         RowOK(row),
         row.main \in Running => proc[p].main \in Running /\ row.rival = proc[p].rival,
         row.listener = "open" => \/ proc[p].listener = "open"
                                  \/ \A x \in Procs : proc[x].listener # "open",
         row.main = "joining" => InFlightAt(p) = {},
         UNCHANGED <<accountVars, applied, at>>, faults' \in Nat
  PROVE  ServerInv'
<1>. USE DEF ServerInv
<1>1. UNCHANGED <<users, sessions, requests, effects, applied, at>>
  BY DEF accountVars
<1>2. RowOK(row)' /\ \A x \in Procs \ {p} : RowOK(proc[x])'
  <2>1. \A d : RowOK(d) => RowOK(d)'
    BY <1>1 DEF RowOK, HasAccount
  <2>2. \A x \in Procs \ {p} : proc'[x] = proc[x]
    BY DEF ServerTyped
  <2>. QED
    BY <2>1, <2>2
<1>3. AccountsInv'
  <2>1. Lasting /\ SessionsOwned'
    BY <1>1 DEF Lasting, SessionsOwned, AccountsInv
  <2>. QED
    BY <1>1, <2>1, SilentStep DEF AccountsInv, AccountsTyped
<1>4. \A q \in Requests : InFlight(q)' => InFlight(q)
  BY <1>1 DEF InFlight
<1>5. applied' \in {0, 1} /\ at' = at
  BY <1>1 DEF ServerTyped
<1>. QED
  BY <1>2, <1>3, <1>4, <1>5, MoveStep

\* A process ends; nothing it did is undone.
LEMMA ExitStep ==
  ASSUME ServerInv, NEW p \in Procs, NEW why \in Ended, Exit(p, why),
         why = "unable" /\ proc[p].fit => proc[p].rival,
         faults' \in Nat
  PROVE  ServerInv'
<1>. USE DEF ServerInv
<1>1. PICK row : row = [Off EXCEPT !.main = why, !.rival = why = "unable" /\ proc[p].rival,
                                  !.fit = why = "unable" /\ proc[p].fit]
  OBVIOUS
<1>2. /\ row \in ProcRows /\ row.main = why /\ row.worker = "none" /\ row.listener = "none"
      /\ row.rival <=> why = "unable" /\ proc[p].rival
      /\ row.fit <=> why = "unable" /\ proc[p].fit
  BY <1>1 DEF Off, ProcRows
<1>3. proc' = [proc EXCEPT ![p] = row] /\ UNCHANGED <<users, sessions, effects, applied, at>>
  BY <1>1 DEF Exit
<1>4. AccountsInv'
  <2>1. PICK S : S = {q \in Requests : at[q] = p /\ InFlight(q)}
    OBVIOUS
  <2>2. requests' = [q \in Requests |-> IF q \in S THEN [requests[q] EXCEPT !.pc = "lost"]
                                                   ELSE requests[q]]
    BY <2>1 DEF Exit
  <2>3. \A q \in S : InFlight(q)
    BY <2>1
  <2>. QED
    BY <1>3, <2>2, <2>3, LoseStep
<1>5. \A q \in Requests : InFlight(q)' => InFlight(q)
  <2>. SUFFICES ASSUME NEW q \in Requests, InFlight(q)' PROVE InFlight(q)
    OBVIOUS
  <2>1. requests[q] \in Calls
    BY DEF AccountsInv, AccountsTyped
  <2>2. requests'[q] = requests[q] \/ requests'[q] = [requests[q] EXCEPT !.pc = "lost"]
    BY DEF Exit
  <2>. QED
    BY <2>1, <2>2 DEF InFlight, Calls
<1>6. why \notin Running /\ why \notin {"migrated", "creating", "seeded", "joining", "migrating"}
  BY DEF Running, Starting, Launched, Ended
<1>7. RowOK(row)'
  BY <1>2, <1>6 DEF RowOK, Running
<1>8. \A x \in Procs \ {p} : RowOK(proc[x])'
  <2>1. \A d : RowOK(d) => RowOK(d)'
    BY <1>3 DEF RowOK, HasAccount
  <2>2. \A x \in Procs \ {p} : proc'[x] = proc[x]
    BY <1>3 DEF ServerTyped
  <2>. QED
    BY <2>1, <2>2
<1>9. applied' \in {0, 1} /\ at' = at
  BY <1>3 DEF ServerTyped
<1>. QED
  BY <1>2, <1>3, <1>4, <1>5, <1>6, <1>7, <1>8, <1>9, MoveStep

\* A process starts: it and those that run are rivals.
LEMMA StartStep ==
  ASSUME ServerInv, NEW p \in Procs, Start(p)
  PROVE  ServerInv'
<1>. USE DEF ServerInv
<1>. DEFINE others == {x \in Procs : proc[x].main \in Running}
<1>1. PICK fit \in BOOLEAN :
      /\ proc[p].main = "off" /\ UNCHANGED <<users, sessions, requests, effects, applied, at, faults>>
      /\ proc' = [x \in Procs |->
            IF x = p THEN [Off EXCEPT !.main = "opened", !.rival = others # {}, !.fit = fit]
            ELSE IF x \in others THEN [proc[x] EXCEPT !.rival = TRUE] ELSE proc[x]]
  BY DEF Start, accountVars
<1>2. /\ proc'[p] = [Off EXCEPT !.main = "opened", !.rival = others # {}, !.fit = fit]
      /\ proc'[p] \in ProcRows /\ proc'[p].main = "opened"
      /\ proc'[p].listener = "none" /\ proc'[p].worker = "none"
      /\ proc'[p].rival <=> others # {}
  BY <1>1 DEF Off, ProcRows, Running, Starting
<1>3. ASSUME NEW x \in Procs, x # p
      PROVE  /\ proc'[x] \in ProcRows /\ proc'[x].main = proc[x].main
             /\ proc'[x].listener = proc[x].listener /\ proc'[x].worker = proc[x].worker
             /\ proc[x].rival => proc'[x].rival
             /\ proc'[x].fit = proc[x].fit
             /\ x \in others => proc'[x].rival
  BY <1>1, <1>3 DEF ServerTyped, ProcRows
<1>4. ServerTyped'
  <2>1. \A x \in Procs : proc'[x] \in ProcRows
    BY <1>2, <1>3
  <2>2. proc' \in [Procs -> ProcRows]
    BY <1>1, <2>1
  <2>. QED
    BY <1>1, <2>2 DEF ServerTyped
<1>5. ASSUME NEW x \in Procs PROVE RowOK(proc[x])'
  <2>1. PICK c, d : c = proc[x] /\ d = proc'[x]
    OBVIOUS
  <2>2. CASE x = p
    <3>1. d.main = "opened" /\ d.listener = "none" /\ d.worker = "none"
      BY <1>2, <2>1, <2>2
    <3>2. RowOK(d)'
      BY <3>1 DEF RowOK, Launched
    <3>. QED
      BY <2>1, <3>2
  <2>3. CASE x # p
    <3>1. /\ d.main = c.main /\ d.listener = c.listener /\ d.worker = c.worker
          /\ c.rival => d.rival
          /\ d.fit = c.fit
      BY <1>3, <2>1, <2>3
    <3>2. RowOK(c)
      BY <2>1
    <3>3. UNCHANGED <<applied, users>>
      BY <1>1
    <3>4. RowOK(d)'
      BY <3>1, <3>2, <3>3 DEF RowOK, HasAccount
    <3>. QED
      BY <2>1, <3>4
  <2>. QED
    BY <2>2, <2>3
<1>6. RivalsKnown'
  <2>. SUFFICES ASSUME NEW y \in Procs, NEW z \in Procs, y # z,
                       proc'[y].main \in Running, proc'[z].main \in Running
                PROVE  proc'[y].rival
    BY DEF RivalsKnown
  <2>1. CASE y = p
    BY <1>2, <1>3, <2>1
  <2>2. CASE y # p
    BY <1>3, <2>2
  <2>. QED
    BY <2>1, <2>2
<1>7. OneListener'
  <2>1. \A x \in Procs : proc'[x].listener = "open" => proc[x].listener = "open"
    BY <1>2, <1>3
  <2>. QED
    BY <2>1 DEF OneListener
<1>8. JoiningIsDrained'
  <2>1. \A x \in Procs : proc'[x].main = "joining" => proc[x].main = "joining"
    BY <1>2, <1>3
  <2>2. \A x \in Procs : InFlightAt(x)' = InFlightAt(x)
    BY <1>1 DEF InFlightAt, InFlight
  <2>. QED
    BY <2>1, <2>2 DEF JoiningIsDrained
<1>9. AccountsInv'
  <2>1. Lasting /\ SessionsOwned'
    BY <1>1 DEF Lasting, SessionsOwned, AccountsInv
  <2>. QED
    BY <1>1, <2>1, SilentStep DEF AccountsInv, AccountsTyped
<1>. QED
  BY <1>4, <1>5, <1>6, <1>7, <1>8, <1>9

\* What the invariant says of the row of one process.
LEMMA RowOfProc ==
  ASSUME ServerInv, NEW p \in Procs
  PROVE  proc[p] \in ProcRows /\ RowOK(proc[p]) /\ faults \in Nat
  BY DEF ServerInv, ServerTyped

\* A step of main that changes only where it is.
LEMMA ToStep ==
  ASSUME ServerInv, NEW p \in Procs, proc[p].main \in Running,
         NEW main \in Running, To(p, main), UNCHANGED <<accountVars, applied, at, faults>>,
         main \in {"migrated", "creating", "seeded"} \cup Launched => applied = 1,
         main \in {"seeded"} \cup Launched => HasAccount,
         proc[p].main \in Launched => main \in Launched,
         main = "migrating" => applied = 0,
         main = "creating" => ~ (proc[p].fit /\ HasAccount),
         main = "joining" => InFlightAt(p) = {} /\ proc[p].listener # "open"
  PROVE  ServerInv'
<1>1. proc[p] \in ProcRows /\ RowOK(proc[p]) /\ faults \in Nat
  BY RowOfProc
<1>2. PICK row : row = [proc[p] EXCEPT !.main = main]
  OBVIOUS
<1>3. /\ row \in ProcRows /\ row.main = main /\ row.worker = proc[p].worker
      /\ row.listener = proc[p].listener /\ row.rival = proc[p].rival /\ row.fit = proc[p].fit
  BY <1>1, <1>2 DEF ProcRows
<1>4. proc' = [proc EXCEPT ![p] = row]
  BY <1>2 DEF To, ServerInv, ServerTyped
<1>5. main # "unable"
  BY DEF Running, Starting, Launched
<1>6. RowOK(row)
  BY <1>1, <1>3, <1>5 DEF RowOK
<1>. QED
  BY <1>1, <1>3, <1>4, <1>6, LocalStep

\* A step of the worker or the listener, or a signal, that may wake main.
LEMMA PartStep ==
  ASSUME ServerInv, NEW p \in Procs, proc[p].main \in Running,
         NEW row \in ProcRows, row.main = proc[p].main, row.rival = proc[p].rival,
         row.fit = proc[p].fit,
         NEW next \in {"draining", "stopping"},
         \/ proc' = [proc EXCEPT ![p] = row]
         \/ Woken(p, row, next),
         row.listener = "open" =>
            \/ proc[p].listener = "open"
            \/ row.main # "joining" /\ \A x \in Procs : proc[x].listener # "open",
         (row.listener = "none" /\ row.worker = "none") \/ proc[p].main \in Launched,
         row.listener = "failed" /\ row.fit => row.rival,
         UNCHANGED <<accountVars, applied, at>>, faults' \in Nat
  PROVE  ServerInv'
<1>1. proc[p] \in ProcRows /\ RowOK(proc[p])
  BY RowOfProc
<1>2. PICK d : d = IF proc' = [proc EXCEPT ![p] = row] THEN row ELSE [row EXCEPT !.main = next]
  OBVIOUS
<1>3. proc' = [proc EXCEPT ![p] = d]
  BY <1>2 DEF Woken
<1>4. /\ d.rival = row.rival /\ d.listener = row.listener /\ d.worker = row.worker
      /\ d.fit = row.fit
      /\ d.main = row.main \/ (row.main = "waiting" /\ d.main = next)
      /\ d \in ProcRows
  BY <1>2 DEF ProcRows, Woken, Running, Launched
<1>5. RowOK(d)
  BY <1>1, <1>4 DEF RowOK, Launched, Running, Starting
<1>6. d.main = "joining" => InFlightAt(p) = {}
  BY <1>4 DEF ServerInv, JoiningIsDrained
<1>7. d.main \in Running => proc[p].main \in Running /\ d.rival = proc[p].rival
  BY <1>4
<1>8. d.listener = "open" => \/ proc[p].listener = "open"
                             \/ \A x \in Procs : proc[x].listener # "open"
  BY <1>4
<1>. QED
  BY <1>3, <1>4, <1>5, <1>6, <1>7, <1>8, LocalStep

\* The migration is applied, once: who else was about to has a rival.
LEMMA MigrationStep ==
  ASSUME ServerInv, NEW p \in Procs, ApplyMigration(p)
  PROVE  ServerInv'
<1>. USE DEF ServerInv
<1>1. proc[p] \in ProcRows /\ RowOK(proc[p]) /\ faults \in Nat /\ proc[p].main = "migrating"
  BY RowOfProc DEF ApplyMigration
<1>2. CASE ~ Applies /\ Unable(p)
  BY <1>1, <1>2, ExitStep DEF Applies, Unable, RowOK, Ended
<1>3. CASE /\ Applies /\ applied' = applied + 1 /\ To(p, "migrated")
           /\ UNCHANGED <<accountVars, at, faults>>
  <2>1. PICK row : row = [proc[p] EXCEPT !.main = "migrated"]
    OBVIOUS
  <2>2. /\ row \in ProcRows /\ row.main = "migrated" /\ row.listener = proc[p].listener
        /\ row.rival = proc[p].rival /\ row.listener = "none" /\ row.worker = "none"
    BY <1>1, <2>1 DEF ProcRows, Running, Starting, RowOK, Launched
  <2>3. /\ proc' = [proc EXCEPT ![p] = row] /\ applied = 0 /\ applied' = 1
        /\ UNCHANGED <<users, sessions, requests, effects, at, faults>>
    BY <1>3, <2>1 DEF To, ServerTyped, Applies, accountVars
  <2>4. RowOK(row)'
    BY <2>2, <2>3 DEF RowOK, Launched
  <2>5. \A x \in Procs \ {p} : RowOK(proc[x])'
    <3>. TAKE x \in Procs \ {p}
    <3>1. PICK d : d = proc[x]
      OBVIOUS
    <3>2. d = proc'[x] /\ RowOK(d) /\ (d.main = "migrating" => d.rival)
      BY <1>1, <2>3, <3>1 DEF ServerTyped, RivalsKnown, Running, Starting
    <3>3. RowOK(d)'
      BY <2>3, <3>2 DEF RowOK, HasAccount
    <3>. QED
      BY <3>2, <3>3
  <2>6. AccountsInv'
    <3>1. Lasting /\ SessionsOwned'
      BY <2>3 DEF Lasting, SessionsOwned, AccountsInv
    <3>. QED
      BY <2>3, <3>1, SilentStep DEF AccountsInv, AccountsTyped
  <2>7. \A q \in Requests : InFlight(q)' => InFlight(q)
    BY <2>3 DEF InFlight
  <2>. QED
    BY <1>1, <2>2, <2>3, <2>4, <2>5, <2>6, <2>7, MoveStep DEF Running, Starting
<1>. QED
  BY <1>2, <1>3 DEF ApplyMigration

\* The account is made: who else was about to has a rival.
LEMMA BootstrapStep ==
  ASSUME ServerInv, NEW p \in Procs, CreateBootstrap(p)
  PROVE  ServerInv'
<1>. USE DEF ServerInv
<1>1. proc[p] \in ProcRows /\ RowOK(proc[p]) /\ faults \in Nat /\ proc[p].main = "creating"
  BY RowOfProc DEF CreateBootstrap
<1>2. CASE (users[BootstrapEmail] # "none" \/ ~ proc[p].fit) /\ Unable(p)
  BY <1>1, <1>2, ExitStep DEF Unable, RowOK, Ended, HasAccount
<1>3. CASE /\ CreateUser(BootstrapEmail) /\ To(p, "seeded")
           /\ UNCHANGED <<applied, at, faults>>
  <2>1. PICK row : row = [proc[p] EXCEPT !.main = "seeded"]
    OBVIOUS
  <2>2. /\ row \in ProcRows /\ row.main = "seeded" /\ row.listener = proc[p].listener
        /\ row.rival = proc[p].rival /\ row.listener = "none" /\ row.worker = "none"
        /\ applied = 1
    BY <1>1, <2>1 DEF ProcRows, Running, Starting, RowOK, Launched
  <2>3. /\ proc' = [proc EXCEPT ![p] = row]
        /\ UNCHANGED <<sessions, requests, effects, applied, at, faults>>
    BY <1>3, <2>1 DEF To, ServerTyped, CreateUser
  <2>4. AccountsInv'
    BY <1>3, OutsideStep, ServerAssumption
  <2>5. HasAccount'
    BY <1>3, ServerAssumption DEF CreateUser, HasAccount, AccountsInv, AccountsTyped
  <2>6. RowOK(row)'
    BY <2>2, <2>3, <2>5 DEF RowOK, Launched
  <2>7. \A x \in Procs \ {p} : RowOK(proc[x])'
    <3>. TAKE x \in Procs \ {p}
    <3>1. PICK d : d = proc[x]
      OBVIOUS
    <3>2. d = proc'[x] /\ RowOK(d) /\ (d.main = "creating" => d.rival)
      BY <1>1, <2>3, <3>1 DEF ServerTyped, RivalsKnown, Running, Starting
    <3>3. RowOK(d)'
      BY <2>3, <2>5, <3>2 DEF RowOK
    <3>. QED
      BY <3>2, <3>3
  <2>8. \A q \in Requests : InFlight(q)' => InFlight(q)
    BY <2>3 DEF InFlight
  <2>. QED
    BY <1>1, <2>2, <2>3, <2>4, <2>6, <2>7, <2>8, MoveStep DEF Running, Starting, ServerTyped
<1>. QED
  BY <1>2, <1>3 DEF CreateBootstrap

\* A step of a request: one that arrives finds its process listening, so not
\* joining; any other leaves no more in flight than before.
LEMMA RequestStep ==
  ASSUME ServerInv, NEW q \in Requests,
         \/ Serve(q)
         \/ \E p \in Procs : RequestArrives(p, q)
  PROVE  ServerInv'
<1>. USE DEF ServerInv
<1>1. CASE Serve(q)
  <2>1. /\ AccountsInv' /\ UNCHANGED <<users, applied, proc, at, faults>>
        /\ \A x \in Requests : InFlight(x)' => InFlight(x)
    BY <1>1, HandleStep DEF Serve, serverVars, InFlight
  <2>2. \A d : RowOK(d) => RowOK(d)'
    BY <2>1 DEF RowOK, HasAccount
  <2>3. (\A x \in Procs : RowOK(proc[x]))'
    BY <2>1, <2>2
  <2>4. \A p \in Procs : InFlightAt(p) = {} => InFlightAt(p)' = {}
    BY <2>1 DEF InFlightAt
  <2>. QED
    BY <2>1, <2>3, <2>4 DEF ServerTyped, RivalsKnown, OneListener, JoiningIsDrained
<1>2. ASSUME NEW p \in Procs, RequestArrives(p, q)
      PROVE  ServerInv'
  <2>1. /\ AccountsInv' /\ UNCHANGED <<users, applied, proc, faults>>
        /\ at' = [at EXCEPT ![q] = p] /\ proc[p].main # "joining"
        /\ \A x \in Requests : x # q => requests'[x] = requests[x]
    <3>1. UNCHANGED users /\ \A x \in Requests : x # q => requests'[x] = requests[x]
      BY <1>2 DEF RequestArrives, Receive, Arrive, AccountsInv, AccountsTyped
    <3>. QED
      BY <1>2, <3>1, ArriveStep DEF RequestArrives, RowOK
  <2>2. \A d : RowOK(d) => RowOK(d)'
    BY <2>1 DEF RowOK, HasAccount
  <2>3. (\A x \in Procs : RowOK(proc[x]))'
    BY <2>1, <2>2
  <2>4. ASSUME NEW x \in Procs, x # p, InFlightAt(x) = {}
        PROVE  InFlightAt(x)' = {}
    BY <2>1, <2>4 DEF InFlightAt, InFlight, ServerTyped
  <2>5. JoiningIsDrained'
    BY <2>1, <2>4 DEF JoiningIsDrained
  <2>. QED
    BY <2>1, <2>3, <2>5 DEF ServerTyped, RivalsKnown, OneListener
<1>. QED
  BY <1>1, <1>2

\* Every step of main.
LEMMA MainStep ==
  ASSUME ServerInv, NEW p \in Procs, Main(p)
  PROVE  ServerInv'
<1>. USE DEF ServerInv
<1>1. /\ proc[p] \in ProcRows /\ RowOK(proc[p]) /\ faults \in Nat /\ applied \in {0, 1}
      /\ JoiningIsDrained
  BY RowOfProc DEF ServerTyped
<1>2. CASE CheckMigration(p)
  BY <1>1, <1>2, ToStep DEF CheckMigration, Running, Starting, Launched
<1>3. CASE FindBootstrap(p)
  BY <1>1, <1>3, ToStep DEF FindBootstrap, Finds, HasAccount, RowOK, Running, Starting, Launched
<1>4. CASE Interrupted(p)
  BY <1>1, <1>4, ExitStep DEF Interrupted, Ended
<1>5. CASE StatementFails(p)
  <2>1. proc[p].fit => proc[p].rival
    BY <1>5 DEF StatementFails, RivalsKnown, Running
  <2>. QED
    BY <1>1, <1>5, <2>1, ExitStep DEF StatementFails, Unable, Ended
<1>6. CASE Launch(p)
  <2>1. PICK row : row = [proc[p] EXCEPT !.main = "launched", !.worker = "recovering",
                                         !.listener = "binding"]
    OBVIOUS
  <2>2. /\ row \in ProcRows /\ row.main = "launched" /\ row.listener = "binding"
        /\ row.rival = proc[p].rival /\ row.fit = proc[p].fit
    BY <1>1, <2>1 DEF ProcRows, Running, Launched
  <2>3. /\ proc' = [proc EXCEPT ![p] = row] /\ proc[p].main = "seeded"
        /\ UNCHANGED <<accountVars, applied, at, faults>>
    BY <1>6, <2>1 DEF Launch, ServerTyped
  <2>4. RowOK(row)
    BY <1>1, <2>2, <2>3 DEF RowOK, Launched
  <2>. QED
    BY <1>1, <2>2, <2>3, <2>4, LocalStep DEF Running, Starting
<1>7. CASE Select(p)
  <2>1. PICK main \in {"waiting", "draining", "stopping"} : To(p, main)
    BY <1>7 DEF Select
  <2>2. proc[p].main = "launched" /\ UNCHANGED <<accountVars, applied, at, faults>>
    BY <1>7 DEF Select
  <2>. QED
    BY <1>1, <2>1, <2>2, ToStep DEF RowOK, Running, Launched
<1>8. CASE Drain(p)
  <2>1. proc[p].main = "draining" /\ UNCHANGED <<accountVars, applied, at, faults>>
    BY <1>8 DEF Drain
  <2>2. CASE proc' = [proc EXCEPT ![p].listener = "closed"]
    <3>1. PICK row : row = [proc[p] EXCEPT !.listener = "closed"]
      OBVIOUS
    <3>2. /\ row \in ProcRows /\ row.main = proc[p].main /\ row.listener = "closed"
          /\ row.rival = proc[p].rival /\ row.fit = proc[p].fit
      BY <1>1, <3>1 DEF ProcRows
    <3>3. proc' = [proc EXCEPT ![p] = row]
      BY <2>2, <3>1 DEF ServerTyped
    <3>. QED
      BY <1>1, <2>1, <3>2, <3>3, PartStep DEF Running, Launched
  <2>3. CASE proc[p].listener # "open" /\ Drained(p) /\ To(p, "joining")
    BY <1>1, <2>1, <2>3, ToStep DEF Drained, RowOK, Running, Launched
  <2>. QED
    BY <1>8, <2>2, <2>3 DEF Drain
<1>9. CASE DrainTimesOut(p)
  BY <1>1, <1>9, ExitStep DEF DrainTimesOut, Ended
<1>10. CASE Join(p)
  BY <1>1, <1>10, ExitStep DEF Join, Ended
<1>11. CASE Stop(p)
  BY <1>1, <1>11, ExitStep DEF Stop, Ended, RowOK
<1>. QED
  BY <1>2, <1>3, <1>4, <1>5, <1>6, <1>7, <1>8, <1>9, <1>10, <1>11, MigrationStep, BootstrapStep DEF Main

\* Every step of the worker and the listener, a signal and a crash.
LEMMA PartsStep ==
  ASSUME ServerInv, NEW p \in Procs,
         Worker(p) \/ Listen(p) \/ SignalArrives(p) \/ RecoverFails(p) \/ Crash(p)
  PROVE  ServerInv'
<1>. USE DEF ServerInv
<1>1. proc[p] \in ProcRows /\ RowOK(proc[p]) /\ faults \in Nat /\ proc \in [Procs -> ProcRows]
  BY RowOfProc DEF ServerTyped
<1>2. proc[p].main \in Launched => proc[p].main \in Running
  BY DEF Running
<1>3. ASSUME NEW worker \in {"looping", "cancelled", "failed"},
             proc[p].worker # "none",
             proc' = [proc EXCEPT ![p].worker = worker]
               \/ Woken(p, [proc[p] EXCEPT !.worker = worker], "stopping"),
             UNCHANGED <<accountVars, applied, at>>, faults' \in Nat
      PROVE  ServerInv'
  <2>1. PICK row : row = [proc[p] EXCEPT !.worker = worker]
    OBVIOUS
  <2>2. /\ row \in ProcRows /\ row.main = proc[p].main /\ row.listener = proc[p].listener
        /\ row.rival = proc[p].rival /\ row.fit = proc[p].fit
    BY <1>1, <2>1 DEF ProcRows
  <2>3. proc' = [proc EXCEPT ![p] = row] \/ Woken(p, row, "stopping")
    BY <1>1, <1>3, <2>1
  <2>4. proc[p].main \in Launched
    BY <1>1, <1>3 DEF RowOK
  <2>. QED
    BY <1>1, <1>2, <1>3, <2>2, <2>3, <2>4, PartStep DEF RowOK
<1>4. ASSUME NEW listener \in {"open", "closed", "failed"},
             proc[p].listener = "binding",
             proc' = [proc EXCEPT ![p].listener = listener]
               \/ Woken(p, [proc[p] EXCEPT !.listener = listener], "stopping"),
             listener = "open" => /\ proc[p].main # "joining"
                                  /\ \A x \in Procs : proc[x].listener # "open",
             listener = "failed" /\ proc[p].fit => proc[p].rival,
             UNCHANGED <<accountVars, applied, at, faults>>
      PROVE  ServerInv'
  <2>1. PICK row : row = [proc[p] EXCEPT !.listener = listener]
    OBVIOUS
  <2>2. /\ row \in ProcRows /\ row.main = proc[p].main /\ row.listener = listener
        /\ row.rival = proc[p].rival /\ row.fit = proc[p].fit
    BY <1>1, <2>1 DEF ProcRows
  <2>3. proc' = [proc EXCEPT ![p] = row] \/ Woken(p, row, "stopping")
    BY <1>1, <1>4, <2>1
  <2>4. proc[p].main \in Launched
    BY <1>1, <1>4 DEF RowOK
  <2>. QED
    BY <1>1, <1>2, <1>4, <2>2, <2>3, <2>4, PartStep
<1>5. CASE Worker(p)
  BY <1>1, <1>3, <1>5 DEF Worker, Recover, WorkerEnds
<1>6. CASE RecoverFails(p)
  BY <1>1, <1>3, <1>6 DEF RecoverFails
<1>7. CASE Listen(p)
  <2>1. ASSUME NEW x \in Procs, proc[x].listener = "open" PROVE proc[p].rival
    <3>1. proc[x].main \in Running /\ proc[p].main \in Running /\ x # p
      BY <1>1, <1>7, <2>1 DEF RowOK, Running, Listen
    <3>. QED
      BY <3>1 DEF RivalsKnown
  <2>. QED
    BY <1>4, <1>7, <2>1 DEF Listen
<1>8. CASE SignalArrives(p)
  <2>1. PICK row : row = [proc[p] EXCEPT !.signalled = TRUE]
    OBVIOUS
  <2>2. /\ row \in ProcRows /\ row.main = proc[p].main /\ row.listener = proc[p].listener
        /\ row.worker = proc[p].worker /\ row.rival = proc[p].rival /\ row.fit = proc[p].fit
    BY <1>1, <2>1 DEF ProcRows
  <2>. QED
    BY <1>1, <1>8, <2>1, <2>2, PartStep DEF SignalArrives, RowOK
<1>9. CASE Crash(p)
  BY <1>1, <1>9, ExitStep DEF Crash, Ended
<1>. QED
  BY <1>5, <1>6, <1>7, <1>8, <1>9

LEMMA ServerStep ==
  ASSUME ServerInv, [Next]_vars
  PROVE  ServerInv'
<1>1. ASSUME UNCHANGED vars PROVE ServerInv'
  <2>1. UNCHANGED <<users, sessions, requests, effects, applied, proc, at, faults>>
    BY <1>1 DEF vars, accountVars, serverVars
  <2>2. AccountsInv'
    <3>1. Lasting /\ SessionsOwned'
      BY <2>1 DEF Lasting, SessionsOwned, ServerInv, AccountsInv
    <3>. QED
      BY <2>1, <3>1, SilentStep DEF ServerInv, AccountsInv, AccountsTyped
  <2>3. \A d : RowOK(d) => RowOK(d)'
    BY <2>1 DEF RowOK, HasAccount
  <2>4. (\A p \in Procs : RowOK(proc[p]))'
    BY <2>1, <2>3 DEF ServerInv
  <2>. QED
    BY <2>1, <2>2, <2>4 DEF ServerInv, ServerTyped, RivalsKnown, OneListener,
                            JoiningIsDrained, InFlightAt, InFlight
<1>. QED
  BY <1>1, StartStep, MainStep, PartsStep, RequestStep DEF Next

\* The inductive invariant of Server.
THEOREM ServerInvariant == Spec => []ServerInv
<1>1. ServerInit => ServerInv
  <2>. SUFFICES ASSUME ServerInit PROVE ServerInv
    OBVIOUS
  <2>1. AccountsInv
    BY AccountsStart DEF ServerInit
  <2>2. Off \in ProcRows /\ Off.main = "off" /\ Off.worker = "none" /\ Off.listener = "none"
    BY DEF Off, ProcRows
  <2>3. ServerTyped
    BY <2>2 DEF ServerInit, ServerTyped
  <2>4. \A p \in Procs : proc[p] = Off
    BY DEF ServerInit
  <2>5. RowOK(Off) /\ Off.main \notin Running
    BY <2>2 DEF RowOK, Running, Starting, Launched
  <2>. QED
    BY <2>1, <2>2, <2>3, <2>4, <2>5 DEF ServerInv, RivalsKnown, OneListener, JoiningIsDrained
<1>. QED
  BY <1>1, ServerStep, PTL DEF Spec

\* The migration is applied at most once; every process, its worker and its
\* listener are where main.go can have them.
THEOREM ServerTypes == Spec => []ServerTypeOK
<1>1. ServerInv => ServerTypeOK
  BY AccountsTypesHold DEF ServerInv, ServerTyped, ProcRows, ServerTypeOK
<1>. QED
  BY <1>1, ServerInvariant, PTL

\* A process that serves has a schema and the bootstrap account, and no two
\* processes listen.
THEOREM ServersArePrepared == Spec => []ServingPrepared
<1>1. ServerInv => ServingPrepared
  BY DEF ServerInv, RowOK, HasAccount, OneListener, ServingPrepared
<1>. QED
  BY <1>1, ServerInvariant, PTL

\* A start in a fit environment fails only beside another process, whatever
\* other starts did to the database, and in whatever environment they were.
THEOREM StartsAreIdempotent == Spec => []FailedStartHadRival
<1>1. ServerInv => FailedStartHadRival
  BY DEF ServerInv, RowOK, FailedStartHadRival
<1>. QED
  BY <1>1, ServerInvariant, PTL

\* The composition keeps what Accounts promises: a session that is over admits
\* nobody, also while processes start, stop and are killed.
THEOREM DeadStayOutOfServer == Spec => []DeadStaysOut
<1>1. ServerInv => DeadStaysOut
  BY DeadAreOut DEF ServerInv
<1>. QED
  BY <1>1, ServerInvariant, PTL

\* A process that exits with status 0 after a shutdown has answered all its
\* requests and its worker has returned.
THEOREM CleanExits == Spec => CleanExitCutsNobody
<1>1. ASSUME ServerInv, [Next]_vars, NEW p \in Procs,
             proc[p].main # "clean", proc'[p].main = "clean"
      PROVE  InFlightAt(p) = {} /\ proc[p].worker = "cancelled"
  <2>1. proc \in [Procs -> ProcRows]
    BY <1>1 DEF ServerInv, ServerTyped
  <2>2. ASSUME NEW x \in Procs, NEW main, To(x, main), main # "clean" PROVE FALSE
    BY <1>1, <2>1, <2>2 DEF To, ProcRows
  <2>3. ASSUME NEW x \in Procs, NEW why, Exit(x, why)
        PROVE  why = "clean" /\ x = p
    <3>1. proc' = [proc EXCEPT ![x] = [Off EXCEPT !.main = why,
                                   !.rival = why = "unable" /\ proc[x].rival,
                                   !.fit = why = "unable" /\ proc[x].fit]]
      BY <2>3 DEF Exit
    <3>2. x = p
      BY <1>1, <2>1, <3>1
    <3>3. proc'[p].main = why
      BY <2>1, <3>1, <3>2 DEF Off
    <3>. QED
      BY <1>1, <3>2, <3>3
  <2>4. ASSUME NEW x \in Procs, NEW row \in ProcRows, row.main = proc[x].main \/ row.main # "clean",
               \/ Woken(x, row, "draining") \/ Woken(x, row, "stopping")
               \/ proc' = [proc EXCEPT ![x] = row]
        PROVE  FALSE
    <3>1. \A next : [row EXCEPT !.main = next].main = next
      BY DEF ProcRows
    <3>2. \/ proc'[p] = proc[p]
          \/ x = p /\ proc'[p] = row
          \/ \E next \in {"draining", "stopping"} :
                x = p /\ proc'[p] = [row EXCEPT !.main = next]
      BY <2>1, <2>4 DEF Woken
    <3>. QED
      BY <1>1, <2>4, <3>1, <3>2
  <2>5. ASSUME NEW x \in Procs, Start(x) PROVE FALSE
    BY <1>1, <2>1, <2>5 DEF Start, Off, ProcRows
  <2>6. ASSUME NEW x \in Procs, Main(x) PROVE Join(p)
    <3>1. PICK launched : launched = [proc[x] EXCEPT !.main = "launched", !.worker = "recovering",
                                                     !.listener = "binding"]
      OBVIOUS
    <3>2. launched \in ProcRows /\ launched.main = "launched"
      BY <2>1, <3>1 DEF ProcRows, Running, Launched
    <3>3. ~ Launch(x)
      <4>1. Launch(x) => proc' = [proc EXCEPT ![x] = launched]
        BY <2>1, <3>1 DEF Launch
      <4>. QED
        BY <2>4, <3>2, <4>1
    <3>4. PICK closed : closed = [proc[x] EXCEPT !.listener = "closed"]
      OBVIOUS
    <3>5. closed \in ProcRows /\ closed.main = proc[x].main
      BY <2>1, <3>4 DEF ProcRows
    <3>6. ~ Drain(x)
      <4>1. Drain(x) => To(x, "joining") \/ proc' = [proc EXCEPT ![x] = closed]
        BY <2>1, <3>4 DEF Drain
      <4>. QED
        BY <2>2, <2>4, <3>5, <4>1
    <3>7. ~ To(x, "migrated") /\ ~ To(x, "seeded")
      BY <2>2
    <3>8. ~ Exit(x, "unable") /\ ~ Exit(x, "broken") /\ ~ Exit(x, "quit")
      BY <2>3
    <3>9. ~ CheckMigration(x) /\ ~ FindBootstrap(x)
      BY <2>2 DEF CheckMigration, FindBootstrap
    <3>10. ~ Select(x)
      BY <2>2 DEF Select
    <3>11. /\ ~ ApplyMigration(x) /\ ~ CreateBootstrap(x)
           /\ ~ StatementFails(x) /\ ~ Interrupted(x)
      BY <3>7, <3>8 DEF ApplyMigration, CreateBootstrap, StatementFails, Interrupted, Unable
    <3>12. ~ DrainTimesOut(x) /\ ~ Stop(x)
      BY <3>8 DEF DrainTimesOut, Stop
    <3>13. Join(x)
      BY <2>6, <3>3, <3>6, <3>9, <3>10, <3>11, <3>12 DEF Main
    <3>. QED
      BY <2>3, <3>13 DEF Join
  <2>7. ASSUME NEW x \in Procs, Worker(x) \/ RecoverFails(x) PROVE FALSE
    <3>1. PICK worker \in {"looping", "failed", "cancelled"} :
             \/ proc' = [proc EXCEPT ![x].worker = worker]
             \/ Woken(x, [proc[x] EXCEPT !.worker = worker], "stopping")
      BY <2>7 DEF Worker, Recover, RecoverFails, WorkerEnds
    <3>2. PICK row : row = [proc[x] EXCEPT !.worker = worker]
      OBVIOUS
    <3>3. row \in ProcRows /\ row.main = proc[x].main
      BY <2>1, <3>2 DEF ProcRows
    <3>. QED
      BY <2>1, <2>4, <3>1, <3>2, <3>3
  <2>8. ASSUME NEW x \in Procs, Listen(x) PROVE FALSE
    <3>1. PICK listener \in {"open", "closed", "failed"} :
             \/ proc' = [proc EXCEPT ![x].listener = listener]
             \/ Woken(x, [proc[x] EXCEPT !.listener = listener], "stopping")
      BY <2>8 DEF Listen
    <3>2. PICK row : row = [proc[x] EXCEPT !.listener = listener]
      OBVIOUS
    <3>3. row \in ProcRows /\ row.main = proc[x].main
      BY <2>1, <3>2 DEF ProcRows
    <3>. QED
      BY <2>1, <2>4, <3>1, <3>2, <3>3
  <2>9. ASSUME NEW x \in Procs, SignalArrives(x) PROVE FALSE
    <3>1. PICK row : row = [proc[x] EXCEPT !.signalled = TRUE]
      OBVIOUS
    <3>2. row \in ProcRows /\ row.main = proc[x].main
      BY <2>1, <3>1 DEF ProcRows
    <3>. QED
      BY <2>4, <2>9, <3>1, <3>2 DEF SignalArrives
  <2>10. ASSUME NEW x \in Procs, Crash(x) PROVE FALSE
    BY <2>3, <2>10 DEF Crash
  <2>11. ASSUME UNCHANGED proc PROVE FALSE
    BY <1>1, <2>11
  <2>12. Join(p)
    BY <1>1, <2>5, <2>6, <2>7, <2>8, <2>9, <2>10, <2>11
       DEF Next, Serve, RequestArrives, serverVars, vars
  <2>13. proc[p].worker = "cancelled"
    BY <2>3, <2>12 DEF Join, Joined
  <2>. QED
    BY <1>1, <2>12, <2>13 DEF ServerInv, JoiningIsDrained, Join
<1>2. ServerInv /\ [Next]_vars =>
        [\A p \in Procs : proc[p].main # "clean" /\ proc'[p].main = "clean"
          => InFlightAt(p) = {} /\ proc[p].worker = "cancelled"]_vars
  BY <1>1
<1>. QED
  BY <1>2, ServerInvariant, PTL DEF Spec, CleanExitCutsNobody
===============================================================================
