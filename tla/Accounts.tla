------------------------------- MODULE Accounts -------------------------------
(***************************************************************************)
(* Accounts, sessions and the life of an HTTP request: internal/service/   *)
(* auth.go over the tables users and sessions, behind the middleware and   *)
(* the handlers of internal/httpapi.  Every statement on the database is a *)
(* step of its own; only the operation a private route calls (modelled in  *)
(* CohortBooking and Attendance) is one step here.                         *)
(*                                                                         *)
(* Emails are stored trimmed and in lower case: an account is named by its *)
(* normalised email.  Of a session's end only whether it has come matters, *)
(* so Expire may happen at any time.                                       *)
(***************************************************************************)
EXTENDS Naturals, FiniteSets

CONSTANTS
    Emails,     \* normalised
    Tokens,     \* one per session; a token is random and never drawn twice
    Requests    \* HTTP requests, each sent once

VARIABLES
    users,      \* table users: none, active or inactive
    sessions,   \* table sessions, by token
    requests,   \* what is known of each request
    effects     \* history: requests whose operation was carried out

accountVars == <<users, sessions, requests, effects>>

NoSession == [user |-> "none"]
SessionRow == [user : Emails, expired : BOOLEAN, revoked : BOOLEAN]

\* dead: when the request arrived, its session was over already; late: a
\* logout of its session had been answered by then
NewRequest == [pc |-> "new", kind |-> "login", user |-> "none", token |-> "none",
               dead |-> FALSE, late |-> FALSE]
Kinds == {"login", "logout", "list", "operate"}
InFlight(q) == requests[q].pc \in {"arrived", "checked", "admitted"}
Answered(q) == requests[q].pc \in {"ok", "unauthorized", "refused", "failed"}

AccountsInit ==
    /\ users \in [Emails -> {"none", "active"}]
    /\ sessions \in [Tokens -> [user : {e \in Emails : users[e] = "active"},
                                expired : {FALSE}, revoked : {FALSE}]
                                 \cup {NoSession}]
    /\ requests = [q \in Requests |-> NewRequest]
    /\ effects = {}

-----------------------------------------------------------------------------
ActiveAt(s) == ~ s.revoked /\ ~ s.expired

Admits(t) ==
    /\ sessions[t] # NoSession
    /\ ActiveAt(sessions[t])
    /\ users[sessions[t].user] = "active"

Answer(q, status) == requests' = [requests EXCEPT ![q].pc = status]

\* the mux: login is public, every other route is behind authenticate
Arrive(q, kind, t) ==
    /\ requests[q].pc = "new"
    /\ requests' = [requests EXCEPT ![q] =
          [pc |-> "arrived", kind |-> kind, user |-> "none", token |-> t,
           dead |-> kind # "login" /\ ~ Admits(t),
           late |-> \E other \in Requests :
                       /\ requests[other].pc = "ok"
                       /\ requests[other].kind = "logout"
                       /\ requests[other].token = t]]
    /\ UNCHANGED <<users, sessions, effects>>

Receive(q) ==
    \/ Arrive(q, "login", "none")
    \/ \E kind \in Kinds \ {"login"}, t \in Tokens :
          sessions[t] # NoSession /\ Arrive(q, kind, t)

BugAdmitted(t) == sessions[t] # NoSession
Admitted(t) == Admits(t)

Authenticate(q) ==
    /\ requests[q].pc = "arrived" /\ requests[q].kind # "login"
    /\ Answer(q, IF Admitted(requests[q].token) THEN "admitted"
                 ELSE "unauthorized")
    /\ UNCHANGED <<users, sessions, effects>>

\* The password is right, or wrong.
CheckLogin(q, e) ==
    /\ requests[q].pc = "arrived" /\ requests[q].kind = "login"
    /\ \/ /\ users[e] = "active"
          /\ requests' = [requests EXCEPT ![q].pc = "checked", ![q].user = e]
       \/ Answer(q, "unauthorized")
    /\ UNCHANGED <<users, sessions, effects>>

BugNewSession(q) == [user |-> NewRequest.user, expired |-> FALSE, revoked |-> FALSE]
NewSession(q) == [user |-> requests[q].user, expired |-> FALSE, revoked |-> FALSE]

\* The client may have gone when the session is stored: its token is lost.
CreateSession(q, t) ==
    /\ requests[q].pc = "checked"
    /\ sessions[t] = NoSession
    /\ sessions' = [sessions EXCEPT ![t] = NewSession(q)]
    /\ \/ requests' = [requests EXCEPT ![q].pc = "ok", ![q].token = t]
       \/ Answer(q, "failed")
    /\ UNCHANGED <<users, effects>>

Revoked(s) == [s EXCEPT !.revoked = TRUE]

\* RevokeSession changes a session that is not revoked yet; finding none is
\* answered in the same way.
Logout(q) ==
    /\ requests[q].pc = "admitted" /\ requests[q].kind = "logout"
    /\ sessions' = [sessions EXCEPT ![requests[q].token] = Revoked(@)]
    /\ \E status \in {"ok", "failed"} : Answer(q, status)
    /\ UNCHANGED <<users, effects>>

ListCohorts(q) ==
    /\ requests[q].pc = "admitted" /\ requests[q].kind = "list"
    /\ Answer(q, "ok") \/ Answer(q, "refused")
    /\ UNCHANGED <<users, sessions, effects>>

\* A handler decodes the body, calls its operation and answers what came of
\* it.  The operation took effect (and the client may have gone by then), or
\* was refused and has none.
Operate(q) ==
    /\ requests[q].pc = "admitted" /\ requests[q].kind = "operate"
    /\ \/ /\ \E status \in {"ok", "failed"} : Answer(q, status)
          /\ effects' = effects \cup {q}
       \/ Answer(q, "refused") /\ UNCHANGED effects
    /\ UNCHANGED <<users, sessions>>

\* The database is busy or a panic was recovered: an internal error.  Or the
\* client has gone, and nothing is written.
Fail(q) ==
    /\ InFlight(q)
    /\ Answer(q, "failed")
    /\ UNCHANGED <<users, sessions, effects>>

Expire(t) ==
    /\ sessions[t] # NoSession /\ ~ sessions[t].expired
    /\ sessions' = [sessions EXCEPT ![t].expired = TRUE]
    /\ UNCHANGED <<users, requests, effects>>

\* done in the database by hand: no code sets active to 0, all of it checks
Deactivate(e) ==
    /\ users[e] = "active"
    /\ users' = [users EXCEPT ![e] = "inactive"]
    /\ UNCHANGED <<sessions, requests, effects>>

CreateUser(e) ==
    /\ users[e] = "none"
    /\ users' = [users EXCEPT ![e] = "active"]
    /\ UNCHANGED <<sessions, requests, effects>>

Handle(q) ==
    \/ Authenticate(q) \/ Logout(q) \/ ListCohorts(q) \/ Operate(q)
    \/ Fail(q)
    \/ \E e \in Emails : CheckLogin(q, e)
    \/ \E t \in Tokens : CreateSession(q, t)

External == (\E t \in Tokens : Expire(t)) \/ (\E e \in Emails : Deactivate(e))

AccountsNext ==
    \/ \E q \in Requests :
          \/ Receive(q)
          \/ Handle(q)
    \/ External
    \/ \E e \in Emails : CreateUser(e)

AccountsSpec == AccountsInit /\ [][AccountsNext]_accountVars

-----------------------------------------------------------------------------
(* Properties.                                                             *)

AccountsTypeOK ==
    /\ users \in [Emails -> {"none", "active", "inactive"}]
    /\ sessions \in [Tokens -> SessionRow \cup {NoSession}]
    /\ \A q \in Requests :
          /\ InFlight(q) \/ Answered(q) \/ requests[q].pc \in {"new", "lost"}
          /\ requests[q].kind \in Kinds
    /\ effects \subseteq Requests

\* A request that came after the end of its session - logged out, expired or
\* its user deactivated - is never admitted, however its steps interleave
\* with logins, logouts and other requests.  And an answered logout is such an
\* end: no operation of a later request is carried out, also when another
\* logout of the session came first and this one found nothing to revoke.
DeadStaysOut ==
    \A q \in Requests :
        /\ requests[q].dead => requests[q].pc \notin {"admitted", "ok"}
        /\ requests[q].dead \/ requests[q].late => q \notin effects
===============================================================================
