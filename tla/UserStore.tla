------------------------------ MODULE UserStore ------------------------------
(***************************************************************************)
(* The Vuex user module of store/modules/user.ts: its state, its          *)
(* mutations and its actions, composed with the HTTP requests the actions *)
(* send and the backend that answers them.                                *)
(*                                                                         *)
(* Every action that calls the backend is split where the code awaits:    *)
(* the dispatch sends a request, the backend serves it, and the .then or  *)
(* .catch handler of the action applies the answer later, in any order    *)
(* with the other requests.  A request or its answer may be lost (axios   *)
(* then rejects).  location.reload() discards the page: the store is      *)
(* rebuilt from userState and the answers to requests of the old page are *)
(* never applied, but the backend still serves those requests.            *)
(***************************************************************************)
EXTENDS UserGetters, Naturals, FiniteSets

CONSTANTS
  Users,        \* user names the backend knows
  NoUser,       \* the empty username ''
  PermsOf,      \* the permissions GET /user returns for a user
  Servers,      \* the SecurityServer values GET /security-servers may return
  Versions,     \* the Version values GET /system/version may return
  Empty,        \* the empty object {} of currentSecurityServer and securityServerVersion
  NoMsg,        \* a free slot of the network
  MaxInFlight,  \* bound on the requests in flight at once
  MaxServers    \* bound on the length of the array GET /security-servers returns

ASSUME UserStoreAssumption ==
  /\ NoUser \notin Users
  /\ PermsOf \in [Users -> SUBSET Permissions]
  /\ Empty \notin Servers \cup Versions
  /\ MaxInFlight \in Nat \ {0}
  /\ MaxServers \in Nat

VARIABLES
  authenticated,          \* UserState.authenticated
  permissions,            \* UserState.permissions, as a set
  username,               \* UserState.username
  currentSecurityServer,  \* UserState.currentSecurityServer
  securityServerVersion,  \* UserState.securityServerVersion
  net,                    \* the requests in flight: a slot holds one or NoMsg
  session,                \* the user the backend session cookie belongs to
  accepted                \* history: users whose login the backend accepted since the page loaded

userVars == <<authenticated, permissions, username, currentSecurityServer, securityServerVersion>>
backendVars == <<session, accepted>>
vars == <<userVars, net, backendVars>>

Slots == 1 .. MaxInFlight

\* The requests the store's actions send.
Kinds == {"login", "user", "servers", "version", "logout", "demoLogout"}

(***************************************************************************)
(* A request, and later its answer.  `live` is FALSE once the page that   *)
(* sent it has been reloaded.  `user` and `valid` are the credentials of  *)
(* a login, `user` the answer of GET /user; `count` and `data` are the    *)
(* length and first element of the array of GET /security-servers, or    *)
(* the body of GET /system/version.                                       *)
(***************************************************************************)
Msg == [kind : Kinds, stage : {"sent", "answered"}, live : BOOLEAN,
        ok : BOOLEAN, user : Users \cup {NoUser}, valid : BOOLEAN,
        count : 0 .. MaxServers, data : Servers \cup Versions \cup {Empty}]

\* A free slot holds no request.
ASSUME NoMsgAssumption == NoMsg \notin Msg

Request(kind, user, valid) ==
  [kind |-> kind, stage |-> "sent", live |-> TRUE, ok |-> FALSE,
   user |-> user, valid |-> valid, count |-> 0, data |-> Empty]

\* userState: the state the store is built with when the page loads.
userState ==
  /\ authenticated = FALSE
  /\ permissions = {}
  /\ username = NoUser
  /\ currentSecurityServer = Empty
  /\ securityServerVersion = Empty

Init ==
  /\ userState
  /\ net = [s \in Slots |-> NoMsg]
  /\ session = NoUser
  /\ accepted = {}

(***************************************************************************)
(* The network.  A request goes into the lowest free slot.                *)
(***************************************************************************)
FreeSlot == CHOOSE s \in Slots : /\ net[s] = NoMsg
                                 /\ \A t \in Slots : t < s => net[t] # NoMsg

Send(m) ==
  /\ \E s \in Slots : net[s] = NoMsg
  /\ net' = [net EXCEPT ![FreeSlot] = m]

\* The request of slot s becomes the given answer.
Answered(s, answer) == net' = [net EXCEPT ![s] = answer]

\* The requests of a reloaded page stay on the wire, but nobody awaits them.
Orphaned(n) == [s \in Slots |-> IF n[s] = NoMsg THEN NoMsg
                                ELSE [n[s] EXCEPT !.live = FALSE]]

(***************************************************************************)
(* Getters the views guard the actions with, and mutations.               *)
(***************************************************************************)
\* getters.isAuthenticated.
isAuthenticated == authenticated

\* mutations.authUser, setPermissions, setUsername, setCurrentSecurityServer
\* and setSecurityServerVersion: each assigns one field.
authUser == authenticated' = TRUE
setPermissions(p) == permissions' = p
setUsername(u) == username' = u
setCurrentSecurityServer(srv) == currentSecurityServer' = srv
setSecurityServerVersion(v) == securityServerVersion' = v

\* Mutant: only the flag and the server are cleared; the identity stays.
clearAuthDataKeepsIdentity ==
  /\ authenticated' = FALSE
  /\ currentSecurityServer' = Empty
  /\ UNCHANGED <<permissions, username, securityServerVersion>>

\* Mutant: the permissions are left behind.
clearAuthDataKeepsPermissions ==
  /\ authenticated' = FALSE
  /\ username' = NoUser
  /\ currentSecurityServer' = Empty
  /\ UNCHANGED <<permissions, securityServerVersion>>

\* mutations.clearAuthData: securityServerVersion is not cleared.
clearAuthData ==
  /\ authenticated' = FALSE
  /\ permissions' = {}
  /\ username' = NoUser
  /\ currentSecurityServer' = Empty
  /\ UNCHANGED securityServerVersion

\* Mutant: the username survives the reload (as a persisted store would).
pageReloadKeepsUsername ==
  /\ authenticated' = FALSE
  /\ permissions' = {}
  /\ currentSecurityServer' = Empty
  /\ securityServerVersion' = Empty
  /\ accepted' = {}
  /\ UNCHANGED <<username, session>>

\* Mutant: the version survives the reload (kept outside the store).
pageReloadKeepsVersion ==
  /\ authenticated' = FALSE
  /\ permissions' = {}
  /\ username' = NoUser
  /\ currentSecurityServer' = Empty
  /\ accepted' = {}
  /\ UNCHANGED <<securityServerVersion, session>>

\* location.reload(true): the store is rebuilt from userState.
pageReload ==
  /\ authenticated' = FALSE
  /\ permissions' = {}
  /\ username' = NoUser
  /\ currentSecurityServer' = Empty
  /\ securityServerVersion' = Empty
  /\ accepted' = {}
  /\ UNCHANGED session

(***************************************************************************)
(* Dispatches of the store's actions.                                     *)
(***************************************************************************)
\* actions.login: POST /login with the credentials; the login view offers
\* it while the user is not authenticated.
login(u, valid) ==
  /\ ~isAuthenticated
  /\ Send(Request("login", u, valid))
  /\ UNCHANGED <<userVars, backendVars>>

\* actions.fetchUserData, fetchCurrentSecurityServer and
\* fetchSecurityServerVersion: a GET, dispatched once logged in.
fetch(kind) ==
  /\ isAuthenticated
  /\ Send(Request(kind, NoUser, FALSE))
  /\ UNCHANGED <<userVars, backendVars>>

\* actions.logout: commit clearAuthData, then POST /logout.
logout ==
  /\ clearAuthData
  /\ Send(Request("logout", NoUser, FALSE))
  /\ UNCHANGED backendVars

\* actions.clearAuth: commit clearAuthData only.
clearAuth ==
  /\ clearAuthData
  /\ UNCHANGED <<net, backendVars>>

\* actions.demoLogout: POST /logout, the store left as it is.
demoLogout ==
  /\ Send(Request("demoLogout", NoUser, FALSE))
  /\ UNCHANGED <<userVars, backendVars>>

\* The user reloads the page: nothing in memory survives, the cookie does.
userReload ==
  /\ pageReload
  /\ net' = Orphaned(net)

(***************************************************************************)
(* The backend serves a request of slot s.                                *)
(***************************************************************************)
Pending(s, kinds) ==
  /\ net[s] # NoMsg
  /\ net[s].stage = "sent"
  /\ net[s].kind \in kinds

\* POST /login: valid credentials open a session for the user.
serveLogin(s) ==
  LET m == net[s] IN
  /\ Pending(s, {"login"})
  /\ Answered(s, [m EXCEPT !.stage = "answered", !.ok = m.valid])
  /\ IF m.valid THEN /\ session' = m.user
                     /\ accepted' = accepted \cup {m.user}
                ELSE UNCHANGED backendVars
  /\ UNCHANGED userVars

\* The GETs need a session; without one the backend answers 401.
reject(s) ==
  /\ Pending(s, {"user", "servers", "version"})
  /\ session = NoUser
  /\ Answered(s, [net[s] EXCEPT !.stage = "answered", !.ok = FALSE])
  /\ UNCHANGED <<userVars, backendVars>>

\* GET /user answers the session's user (and so its permissions).
serveUser(s) ==
  /\ Pending(s, {"user"})
  /\ session # NoUser
  /\ Answered(s, [net[s] EXCEPT !.stage = "answered", !.ok = TRUE, !.user = session])
  /\ UNCHANGED <<userVars, backendVars>>

\* GET /security-servers?current_server=true: an array of any length.
serveServers(s) ==
  /\ Pending(s, {"servers"})
  /\ session # NoUser
  /\ \E n \in 0 .. MaxServers, srv \in Servers :
        Answered(s, [net[s] EXCEPT !.stage = "answered", !.ok = TRUE,
                                   !.count = n, !.data = IF n = 0 THEN Empty ELSE srv])
  /\ UNCHANGED <<userVars, backendVars>>

\* GET /system/version.
serveVersion(s) ==
  /\ Pending(s, {"version"})
  /\ session # NoUser
  /\ \E v \in Versions :
        Answered(s, [net[s] EXCEPT !.stage = "answered", !.ok = TRUE, !.data = v])
  /\ UNCHANGED <<userVars, backendVars>>

\* POST /logout ends the session.
serveLogout(s) ==
  /\ Pending(s, {"logout", "demoLogout"})
  /\ Answered(s, [net[s] EXCEPT !.stage = "answered", !.ok = TRUE])
  /\ session' = NoUser
  /\ UNCHANGED <<userVars, accepted>>

\* The session times out on the backend.
expire ==
  /\ session # NoUser
  /\ session' = NoUser
  /\ UNCHANGED <<userVars, net, accepted>>

(***************************************************************************)
(* Lost requests and lost answers: axios rejects the promise.             *)
(***************************************************************************)
loseRequest(s) ==
  /\ Pending(s, Kinds)
  /\ Answered(s, [net[s] EXCEPT !.stage = "answered", !.ok = FALSE])
  /\ UNCHANGED <<userVars, backendVars>>

loseAnswer(s) ==
  /\ net[s] # NoMsg
  /\ net[s].stage = "answered"
  /\ net[s].ok
  /\ Answered(s, [net[s] EXCEPT !.ok = FALSE])
  /\ UNCHANGED <<userVars, backendVars>>

(***************************************************************************)
(* The .then / .catch handlers of the store's actions, run when the       *)
(* answer of slot s reaches the page that sent it.                         *)
(***************************************************************************)
Arrived(s, kind) ==
  /\ net[s] # NoMsg
  /\ net[s].stage = "answered"
  /\ net[s].live
  /\ net[s].kind = kind

Consumed(s) == net' = [net EXCEPT ![s] = NoMsg]

\* Mutant: authUser committed whatever the answer.
loginSettledAnyAnswer(s) ==
  /\ Arrived(s, "login")
  /\ Consumed(s)
  /\ authUser
  /\ UNCHANGED <<permissions, username, currentSecurityServer,
                 securityServerVersion, backendVars>>

\* login: .then commits authUser; .catch rethrows, the store unchanged.
loginSettled(s) ==
  /\ Arrived(s, "login")
  /\ Consumed(s)
  /\ IF net[s].ok THEN authUser ELSE UNCHANGED authenticated
  /\ UNCHANGED <<permissions, username, currentSecurityServer,
                 securityServerVersion, backendVars>>

\* fetchUserData: .then commits setUsername and setPermissions.
fetchUserDataSettled(s) ==
  LET m == net[s] IN
  /\ Arrived(s, "user")
  /\ Consumed(s)
  /\ IF m.ok THEN /\ setUsername(m.user)
                  /\ setPermissions(PermsOf[m.user])
             ELSE UNCHANGED <<username, permissions>>
  /\ UNCHANGED <<authenticated, currentSecurityServer, securityServerVersion, backendVars>>

\* Mutant: no length check; resp.data[0] of an empty array is undefined.
fetchCurrentSecurityServerNoLengthCheck(s) ==
  LET m == net[s] IN
  /\ Arrived(s, "servers")
  /\ Consumed(s)
  /\ IF m.ok THEN setCurrentSecurityServer(IF m.count = 0 THEN undefined ELSE m.data)
             ELSE UNCHANGED currentSecurityServer
  /\ UNCHANGED <<authenticated, permissions, username, securityServerVersion, backendVars>>

\* fetchCurrentSecurityServer: an array whose length is not 1 throws.
fetchCurrentSecurityServerSettled(s) ==
  LET m == net[s] IN
  /\ Arrived(s, "servers")
  /\ Consumed(s)
  /\ IF m.ok /\ m.count = 1 THEN setCurrentSecurityServer(m.data)
                            ELSE UNCHANGED currentSecurityServer
  /\ UNCHANGED <<authenticated, permissions, username, securityServerVersion, backendVars>>

\* fetchSecurityServerVersion: .then commits setSecurityServerVersion.
fetchSecurityServerVersionSettled(s) ==
  LET m == net[s] IN
  /\ Arrived(s, "version")
  /\ Consumed(s)
  /\ IF m.ok THEN setSecurityServerVersion(m.data)
             ELSE UNCHANGED securityServerVersion
  /\ UNCHANGED <<authenticated, permissions, username, currentSecurityServer, backendVars>>

\* Mutant: the reload chained with .then, so a failed POST /logout skips it.
logoutSettledReloadOnSuccess(s) ==
  /\ Arrived(s, "logout")
  /\ IF net[s].ok THEN /\ pageReload
                       /\ net' = Orphaned([net EXCEPT ![s] = NoMsg])
                  ELSE /\ Consumed(s)
                       /\ UNCHANGED <<userVars, backendVars>>

\* logout: .catch logs, .finally reloads the page whatever the answer.
logoutSettled(s) ==
  /\ Arrived(s, "logout")
  /\ pageReload
  /\ net' = Orphaned([net EXCEPT ![s] = NoMsg])

\* demoLogout: .catch logs; nothing else.
demoLogoutSettled(s) ==
  /\ Arrived(s, "demoLogout")
  /\ Consumed(s)
  /\ UNCHANGED <<userVars, backendVars>>

\* An answer to a reloaded page is dropped.
discard(s) ==
  /\ net[s] # NoMsg
  /\ net[s].stage = "answered"
  /\ ~net[s].live
  /\ Consumed(s)
  /\ UNCHANGED <<userVars, backendVars>>

(***************************************************************************)
(* The specification.                                                     *)
(***************************************************************************)
Dispatch ==
  \/ \E u \in Users, valid \in BOOLEAN : login(u, valid)
  \/ \E kind \in {"user", "servers", "version"} : fetch(kind)
  \/ logout
  \/ clearAuth
  \/ demoLogout
  \/ userReload

ServerStep(s) ==
  \/ serveLogin(s) \/ reject(s) \/ serveUser(s) \/ serveServers(s)
  \/ serveVersion(s) \/ serveLogout(s)

ClientStep(s) ==
  \/ loginSettled(s) \/ fetchUserDataSettled(s)
  \/ fetchCurrentSecurityServerSettled(s) \/ fetchSecurityServerVersionSettled(s)
  \/ logoutSettled(s) \/ demoLogoutSettled(s) \/ discard(s)

Next ==
  \/ Dispatch
  \/ expire
  \/ \E s \in Slots : ServerStep(s) \/ ClientStep(s) \/ loseRequest(s) \/ loseAnswer(s)

(***************************************************************************)
(* Fairness: a request is eventually served (or lost), and an answer that *)
(* is awaited eventually runs its handler.  Nothing forces the user to    *)
(* act, the session to expire, or a message to be lost.                   *)
(***************************************************************************)
Fairness == \A s \in Slots : WF_vars(ServerStep(s)) /\ WF_vars(ClientStep(s))

Spec == Init /\ [][Next]_vars /\ Fairness

(***************************************************************************)
(* Properties.                                                            *)
(***************************************************************************)
TypeOK ==
  /\ authenticated \in BOOLEAN
  /\ permissions \subseteq Permissions
  /\ username \in Users \cup {NoUser}
  /\ currentSecurityServer \in Servers \cup {Empty}
  /\ securityServerVersion \in Versions \cup {Empty}
  /\ net \in [Slots -> Msg \cup {NoMsg}]
  /\ session \in Users \cup {NoUser}
  /\ accepted \subseteq Users

\* The store shows the main view (isAuthenticated) only once the backend has
\* accepted some login since the page loaded: on a page with no accepted
\* login, a rejected or lost login never commits authUser.  (`accepted` lasts
\* for the whole page and may hold a login an earlier page sent.)
AuthenticatedOnlyAfterAcceptedLogin ==
  authenticated => accepted # {}

\* The username (and with it the permissions) the store holds is that of a
\* user whose login the backend accepted since the page loaded: the store
\* is not kept across location.reload, and a reloaded page asks GET /user
\* only once its own login is accepted.
ShownUserWasAccepted ==
  username # NoUser => username \in accepted

\* The store shows a security server or a version only once the backend
\* accepted some login since the page loaded: the backend cookie survives
\* location.reload, but the store is rebuilt empty and a reloaded page
\* sends its GETs only once authenticated.
ServerDataOnlyAfterAcceptedLogin ==
  (currentSecurityServer # Empty \/ securityServerVersion # Empty) => accepted # {}

\* An answer of the session that logout ended could still be applied.
StaleAnswerPossible ==
  \E s \in Slots : /\ net[s] # NoMsg
                  /\ net[s].live
                  /\ net[s].kind \in {"user", "servers", "version"}

LogoutInFlight ==
  \E s \in Slots : net[s] # NoMsg /\ net[s].live /\ net[s].kind = "logout"

\* After logout, whatever POST /logout answers, the page is eventually back
\* to userState with no answer of the old session left to apply (the
\* .finally of logout reloads the page).
LogoutEventuallyReloads ==
  LogoutInFlight ~> (userState /\ ~StaleAnswerPossible)

\* The abstract session lifecycle.  Its phase is LoggedIn exactly when the
\* store is authenticated (getters.isAuthenticated); the identity and the
\* accepted logins are the store's and the backend's own.
Lifecycle == INSTANCE SessionLifecycle
               WITH phase <- IF isAuthenticated THEN "LoggedIn" ELSE "LoggedOut",
                    username <- username,
                    permissions <- permissions,
                    accepted <- accepted

\* Every step of the store, its handlers, the network and the backend is a
\* step of the abstract lifecycle or leaves its variables alone: no
\* handler, whatever order the answers arrive in, logs the page in, shows
\* a user or clears the store in a way the lifecycle does not allow.
SessionRefinement == Lifecycle!Spec

\* The permissions the store holds are those of the user it shows, and a
\* store that shows no user holds none: fetchUserData commits setUsername
\* and setPermissions from one answer, and clearAuthData and the reload
\* clear both.  A stale GET /user answer may change the user, never split
\* the pair.
PermissionsOfShownUser ==
  \/ username = NoUser /\ permissions = {}
  \/ username \in Users /\ permissions = PermsOf[username]

\* Statements of the spec the code does not keep (checked in runs that
\* expect a violation).

\* "Session {authenticated: false} => only tabs with no required permission":
\* a store that is logged out holds no permission.
LoggedOutHoldsNoPermissions ==
  ~authenticated => permissions = {}

\* "logout always resets every field to its empty default": a logged-out
\* store holds no server version.
LoggedOutHoldsNoVersion ==
  ~authenticated => securityServerVersion = Empty

\* The user the store shows as logged in is the one the backend session
\* belongs to (while there is a session).
ShownUserIsSessionUser ==
  (authenticated /\ username # NoUser /\ session # NoUser) => username = session

=============================================================================
