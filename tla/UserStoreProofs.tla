--------------------------- MODULE UserStoreProofs ---------------------------
(***************************************************************************)
(* Proofs about UserStore, for every value of its constants.              *)
(***************************************************************************)
EXTENDS UserStore, TLAPS

\* The getter and the mutations are one assignment or one field each: they
\* are expanded wherever an action uses them.
USE DEF isAuthenticated, authUser, setPermissions, setUsername,
        setCurrentSecurityServer, setSecurityServerVersion

(***************************************************************************)
(* Lemmas on the records the network holds.                               *)
(***************************************************************************)
LEMMA RequestInMsg ==
  ASSUME NEW kind \in Kinds, NEW u \in Users \cup {NoUser}, NEW valid \in BOOLEAN
  PROVE  Request(kind, u, valid) \in Msg
BY UserStoreAssumption DEF Request, Msg

\* Marking a request as no longer awaited keeps it a request.
LEMMA NotLiveInMsg ==
  ASSUME NEW m \in Msg
  PROVE  /\ [m EXCEPT !.live = FALSE] \in Msg
         /\ [m EXCEPT !.live = FALSE].kind = m.kind
         /\ [m EXCEPT !.live = FALSE].stage = m.stage
         /\ [m EXCEPT !.live = FALSE].ok = m.ok
         /\ [m EXCEPT !.live = FALSE].user = m.user
         /\ ~[m EXCEPT !.live = FALSE].live
BY DEF Msg

\* A slot of an orphaned network holds what it held, no longer live.
LEMMA OrphanedSlots ==
  ASSUME NEW n \in [Slots -> Msg \cup {NoMsg}], NEW t \in Slots
  PROVE  /\ n[t] = NoMsg => Orphaned(n)[t] = NoMsg
         /\ n[t] # NoMsg => /\ Orphaned(n)[t] \in Msg
                            /\ Orphaned(n)[t] # NoMsg
                            /\ Orphaned(n)[t].kind = n[t].kind
                            /\ Orphaned(n)[t].stage = n[t].stage
                            /\ Orphaned(n)[t].ok = n[t].ok
                            /\ Orphaned(n)[t].user = n[t].user
                            /\ ~Orphaned(n)[t].live
<1>1. CASE n[t] = NoMsg
  BY <1>1 DEF Orphaned
<1>2. CASE n[t] # NoMsg
  <2>1. n[t] \in Msg
    BY <1>2
  <2>2. Orphaned(n)[t] = [n[t] EXCEPT !.live = FALSE]
    BY <1>2 DEF Orphaned
  <2>3. QED
    BY <1>2, <2>1, <2>2, NotLiveInMsg, NoMsgAssumption
<1>3. QED
  BY <1>1, <1>2

LEMMA OrphanedType ==
  ASSUME NEW n \in [Slots -> Msg \cup {NoMsg}]
  PROVE  Orphaned(n) \in [Slots -> Msg \cup {NoMsg}]
<1>1. \A t \in Slots : Orphaned(n)[t] \in Msg \cup {NoMsg}
  BY OrphanedSlots
<1>2. Orphaned(n) = [t \in Slots |-> Orphaned(n)[t]]
  BY DEF Orphaned
<1>3. QED
  BY <1>1, <1>2

\* Sending a request keeps the network well typed.
LEMMA SendType ==
  ASSUME net \in [Slots -> Msg \cup {NoMsg}], NEW m \in Msg, Send(m)
  PROVE  net' \in [Slots -> Msg \cup {NoMsg}]
BY DEF Send
(***************************************************************************)
(* The type invariant is not inductive by itself: fetchUserData's handler *)
(* indexes PermsOf with the user of the answer, serveLogin puts the user  *)
(* of the request into the session, and the servers and version handlers *)
(* store the data of the answer.  Each is typed only because of what the  *)
(* records on the wire carry, which WFMsg states.                          *)
(***************************************************************************)
WFMsg(m) ==
  /\ (m.kind = "login" \/ (m.kind = "user" /\ m.ok)) => m.user \in Users
  /\ m.kind = "servers" => m.data \in Servers \cup {Empty}
  /\ m.kind = "version" => m.data \in Versions \cup {Empty}

WellFormed(n) == \A s \in Slots : n[s] # NoMsg => WFMsg(n[s])

NetWellFormed == WellFormed(net)

TypeInv == TypeOK /\ NetWellFormed

\* Putting one well-formed record into a slot keeps the network well formed.
LEMMA SlotUpdate ==
  ASSUME NEW n \in [Slots -> Msg \cup {NoMsg}], WellFormed(n), NEW s \in Slots,
         NEW a \in Msg \cup {NoMsg}, a # NoMsg => WFMsg(a)
  PROVE  /\ [n EXCEPT ![s] = a] \in [Slots -> Msg \cup {NoMsg}]
         /\ WellFormed([n EXCEPT ![s] = a])
BY DEF WellFormed

\* Orphaning the requests of a page keeps the network well formed.
LEMMA OrphanedWF ==
  ASSUME NEW n \in [Slots -> Msg \cup {NoMsg}], WellFormed(n)
  PROVE  /\ Orphaned(n) \in [Slots -> Msg \cup {NoMsg}]
         /\ WellFormed(Orphaned(n))
<1>1. ASSUME NEW t \in Slots, Orphaned(n)[t] # NoMsg PROVE WFMsg(Orphaned(n)[t])
  <2>1. n[t] # NoMsg
    BY <1>1, OrphanedSlots
  <2>2. Orphaned(n)[t] = [n[t] EXCEPT !.live = FALSE] /\ n[t] \in Msg
    BY <2>1 DEF Orphaned
  <2>3. WFMsg(n[t])
    BY <2>1 DEF WellFormed
  <2>4. QED
    BY <2>2, <2>3 DEF WFMsg, Msg
<1>2. QED
  BY <1>1, OrphanedType DEF WellFormed

\* A request is well formed when a login names a user.
LEMMA RequestWF ==
  ASSUME NEW kind \in Kinds, NEW u \in Users \cup {NoUser}, NEW valid \in BOOLEAN,
         kind = "login" => u \in Users
  PROVE  /\ Request(kind, u, valid) \in Msg
         /\ Request(kind, u, valid) # NoMsg
         /\ WFMsg(Request(kind, u, valid))
BY UserStoreAssumption, NoMsgAssumption, RequestInMsg DEF Request, WFMsg

LEMMA TypeInit == Init => TypeInv
BY UserStoreAssumption DEF Init, userState, TypeInv, TypeOK, NetWellFormed, WellFormed

LEMMA TypeStep == TypeInv /\ [Next]_vars => TypeInv'
<1> SUFFICES ASSUME TypeInv, [Next]_vars PROVE TypeInv'
  OBVIOUS
<1>0. /\ net \in [Slots -> Msg \cup {NoMsg}]
      /\ TypeOK
      /\ WellFormed(net)
  BY DEF TypeInv, TypeOK, NetWellFormed
\* Every dispatch sends one well-formed request into the free slot.
<1>1. ASSUME NEW m \in Msg, m # NoMsg, WFMsg(m), Send(m)
      PROVE  /\ net' \in [Slots -> Msg \cup {NoMsg}]
             /\ NetWellFormed'
  \* (The lowest free slot is a slot; were it not, EXCEPT would change nothing.)
  <2>1. CASE FreeSlot \in Slots
    BY <1>0, <1>1, <2>1, SlotUpdate DEF Send, NetWellFormed
  <2>2. CASE FreeSlot \notin Slots
    <3>1. net' = net
      BY <1>0, <1>1, <2>2 DEF Send
    <3>2. QED
      BY <1>0, <3>1 DEF NetWellFormed
  <2>3. QED
    BY <2>1, <2>2
<1>2. ASSUME NEW u \in Users, NEW valid \in BOOLEAN, login(u, valid)
      PROVE  TypeInv'
  BY <1>0, <1>1, <1>2, RequestWF DEF login, Kinds, TypeInv, TypeOK, userVars, backendVars
<1>3. ASSUME NEW kind \in {"user", "servers", "version"}, fetch(kind)
      PROVE  TypeInv'
  BY <1>0, <1>1, <1>3, RequestWF DEF fetch, Kinds, TypeInv, TypeOK, userVars, backendVars
<1>4. CASE logout
  BY <1>0, <1>1, <1>4, RequestWF
  DEF logout, Kinds, clearAuthData, TypeInv, TypeOK, backendVars
<1>5. CASE clearAuth
  BY <1>0, <1>5 DEF clearAuth, clearAuthData, TypeInv, TypeOK, NetWellFormed, backendVars
<1>6. CASE demoLogout
  BY <1>0, <1>1, <1>6, RequestWF DEF demoLogout, Kinds, TypeInv, TypeOK, userVars, backendVars
<1>7. CASE userReload
  BY <1>0, <1>7, OrphanedWF DEF userReload, pageReload, TypeInv, TypeOK, NetWellFormed
<1>8. CASE expire
  BY <1>0, <1>8 DEF expire, TypeInv, TypeOK, NetWellFormed, userVars
\* A server or lost-message step puts into slot s a well-formed record a.
<1>9. ASSUME NEW s \in Slots, NEW a \in Msg, WFMsg(a), net' = [net EXCEPT ![s] = a],
             UNCHANGED userVars, session' \in Users \cup {NoUser},
             accepted' \subseteq Users
      PROVE  TypeInv'
  BY <1>0, <1>9, SlotUpdate, NoMsgAssumption DEF TypeInv, TypeOK, NetWellFormed, userVars
<1>10. ASSUME NEW s \in Slots, ServerStep(s) PROVE TypeInv'
  <2> DEFINE m == net[s]
  <2>0. m \in Msg /\ m # NoMsg /\ WFMsg(m)
    BY <1>10, <1>0 DEF ServerStep, serveLogin, reject, serveUser, serveServers,
                     serveVersion, serveLogout, Pending, WellFormed
  <2>1. CASE serveLogin(s)
    <3> DEFINE a == [m EXCEPT !.stage = "answered", !.ok = m.valid]
    <3>1. m.kind = "login"
      BY <2>1 DEF serveLogin, Pending
    <3>2. a \in Msg /\ WFMsg(a) /\ m.user \in Users
      BY <2>0, <3>1 DEF Msg, WFMsg
    <3>3. QED
      BY <1>0, <1>9, <2>1, <3>2 DEF serveLogin, Answered, TypeOK, backendVars
  <2>2. CASE reject(s)
    <3> DEFINE a == [m EXCEPT !.stage = "answered", !.ok = FALSE]
    <3>1. a \in Msg /\ WFMsg(a)
      BY <2>0 DEF Msg, WFMsg
    <3>2. QED
      BY <1>0, <1>9, <2>2, <3>1 DEF reject, Answered, TypeOK, backendVars
  <2>3. CASE serveUser(s)
    <3> DEFINE a == [m EXCEPT !.stage = "answered", !.ok = TRUE, !.user = session]
    <3>1. session \in Users
      BY <1>0, <2>3 DEF serveUser, TypeOK
    <3>2. a \in Msg /\ WFMsg(a)
      BY <2>0, <3>1 DEF Msg, WFMsg
    <3>3. QED
      BY <1>0, <1>9, <2>3, <3>2 DEF serveUser, Answered, TypeOK, backendVars
  <2>4. CASE serveServers(s)
    <3>1. PICK n \in 0 .. MaxServers, srv \in Servers :
            Answered(s, [m EXCEPT !.stage = "answered", !.ok = TRUE,
                                  !.count = n, !.data = IF n = 0 THEN Empty ELSE srv])
      BY <2>4 DEF serveServers
    <3> DEFINE a == [m EXCEPT !.stage = "answered", !.ok = TRUE,
                              !.count = n, !.data = IF n = 0 THEN Empty ELSE srv]
    <3>2. m.kind = "servers"
      BY <2>4 DEF serveServers, Pending
    <3>3. a \in Msg /\ WFMsg(a)
      BY <2>0, <3>2 DEF Msg, WFMsg
    <3>4. QED
      BY <1>0, <1>9, <2>4, <3>1, <3>3 DEF serveServers, Answered, TypeOK, backendVars
  <2>5. CASE serveVersion(s)
    <3>1. PICK v \in Versions :
            Answered(s, [m EXCEPT !.stage = "answered", !.ok = TRUE, !.data = v])
      BY <2>5 DEF serveVersion
    <3> DEFINE a == [m EXCEPT !.stage = "answered", !.ok = TRUE, !.data = v]
    <3>2. m.kind = "version"
      BY <2>5 DEF serveVersion, Pending
    <3>3. a \in Msg /\ WFMsg(a)
      BY <2>0, <3>2 DEF Msg, WFMsg
    <3>4. QED
      BY <1>0, <1>9, <2>5, <3>1, <3>3 DEF serveVersion, Answered, TypeOK, backendVars
  <2>6. CASE serveLogout(s)
    <3> DEFINE a == [m EXCEPT !.stage = "answered", !.ok = TRUE]
    <3>1. m.kind \in {"logout", "demoLogout"}
      BY <2>6 DEF serveLogout, Pending
    <3>2. a \in Msg /\ WFMsg(a)
      BY <2>0, <3>1 DEF Msg, WFMsg
    <3>3. QED
      BY <1>0, <1>9, <2>6, <3>2 DEF serveLogout, Answered, TypeOK
  <2>7. QED
    BY <1>10, <2>1, <2>2, <2>3, <2>4, <2>5, <2>6 DEF ServerStep
<1>11. ASSUME NEW s \in Slots, loseRequest(s) PROVE TypeInv'
  <2> DEFINE a == [net[s] EXCEPT !.stage = "answered", !.ok = FALSE]
  <2>1. net[s] \in Msg /\ WFMsg(net[s])
    BY <1>0, <1>11 DEF loseRequest, Pending, WellFormed
  <2>2. a \in Msg /\ WFMsg(a)
    BY <2>1 DEF Msg, WFMsg
  <2>3. QED
    BY <1>0, <1>9, <1>11, <2>2 DEF loseRequest, Answered, TypeOK, backendVars
<1>12. ASSUME NEW s \in Slots, loseAnswer(s) PROVE TypeInv'
  <2> DEFINE a == [net[s] EXCEPT !.ok = FALSE]
  <2>1. net[s] \in Msg /\ WFMsg(net[s])
    BY <1>0, <1>12 DEF loseAnswer, WellFormed
  <2>2. a \in Msg /\ WFMsg(a)
    BY <2>1 DEF Msg, WFMsg
  <2>3. QED
    BY <1>0, <1>9, <1>12, <2>2 DEF loseAnswer, Answered, TypeOK, backendVars
<1>13. ASSUME NEW s \in Slots, ClientStep(s) PROVE TypeInv'
  <2> DEFINE m == net[s]
  <2>0. m \in Msg /\ m # NoMsg /\ WFMsg(m)
    BY <1>13, <1>0 DEF ClientStep, loginSettled, fetchUserDataSettled,
       fetchCurrentSecurityServerSettled, fetchSecurityServerVersionSettled,
       logoutSettled, demoLogoutSettled, discard, Arrived, WellFormed
  \* A handler that consumes the answer frees its slot.
  <2>1. ASSUME Consumed(s) PROVE /\ net' \in [Slots -> Msg \cup {NoMsg}]
                                 /\ NetWellFormed'
    BY <1>0, <2>1, SlotUpdate DEF Consumed, NetWellFormed
  <2>2. CASE loginSettled(s)
    BY <1>0, <2>1, <2>2 DEF loginSettled, TypeInv, TypeOK, backendVars
  <2>3. CASE fetchUserDataSettled(s)
    <3>1. m.ok => PermsOf[m.user] \subseteq Permissions /\ m.user \in Users
      BY <2>0, <2>3, UserStoreAssumption DEF fetchUserDataSettled, Arrived, WFMsg
    <3>2. QED
      BY <1>0, <2>1, <2>3, <3>1 DEF fetchUserDataSettled, TypeInv, TypeOK, backendVars
  <2>4. CASE fetchCurrentSecurityServerSettled(s)
    <3>1. m.data \in Servers \cup {Empty}
      BY <2>0, <2>4 DEF fetchCurrentSecurityServerSettled, Arrived, WFMsg
    <3>2. QED
      BY <1>0, <2>1, <2>4, <3>1
      DEF fetchCurrentSecurityServerSettled, TypeInv, TypeOK, backendVars
  <2>5. CASE fetchSecurityServerVersionSettled(s)
    <3>1. m.data \in Versions \cup {Empty}
      BY <2>0, <2>5 DEF fetchSecurityServerVersionSettled, Arrived, WFMsg
    <3>2. QED
      BY <1>0, <2>1, <2>5, <3>1
      DEF fetchSecurityServerVersionSettled, TypeInv, TypeOK, backendVars
  <2>6. CASE logoutSettled(s)
    <3>1. /\ [net EXCEPT ![s] = NoMsg] \in [Slots -> Msg \cup {NoMsg}]
          /\ WellFormed([net EXCEPT ![s] = NoMsg])
      BY <1>0, SlotUpdate
    <3>2. QED
      BY <1>0, <2>6, <3>1, OrphanedWF
      DEF logoutSettled, pageReload, TypeInv, TypeOK, NetWellFormed
  <2>7. CASE demoLogoutSettled(s)
    BY <1>0, <2>1, <2>7 DEF demoLogoutSettled, TypeInv, TypeOK, userVars, backendVars
  <2>8. CASE discard(s)
    BY <1>0, <2>1, <2>8 DEF discard, TypeInv, TypeOK, userVars, backendVars
  <2>9. QED
    BY <1>13, <2>2, <2>3, <2>4, <2>5, <2>6, <2>7, <2>8 DEF ClientStep
<1>14. CASE UNCHANGED vars
  BY <1>0, <1>14 DEF vars, userVars, backendVars, TypeInv, TypeOK, NetWellFormed
<1>20. QED
  BY <1>2, <1>3, <1>4, <1>5, <1>6, <1>7, <1>8, <1>10, <1>11, <1>12, <1>13, <1>14
  DEF Next, Dispatch

\* The store, the network and the backend stay well typed.
THEOREM TypeCorrect == Spec => []TypeOK
<1>1. Init => TypeInv
  BY TypeInit
<1>2. TypeInv /\ [Next]_vars => TypeInv'
  BY TypeStep
<1>3. TypeInv => TypeOK
  BY DEF TypeInv
<1>4. QED
  BY <1>1, <1>2, <1>3, PTL DEF Spec

(***************************************************************************)
(* The safety invariants.  Neither is inductive as it stands: the store   *)
(* becomes authenticated, or takes a username, when an answer arrives, so *)
(* the invariant must also speak of the answers still on the wire.  A     *)
(* reload empties `accepted` but also orphans every request in flight, so *)
(* only live messages are constrained.                                    *)
(***************************************************************************)
\* A live, successful answer to POST /login was accepted by the backend.
LoginSafe(m, acc) ==
  (m.kind = "login" /\ m.stage = "answered" /\ m.live /\ m.ok) => acc # {}

\* A live GET /user was sent by an authenticated page, and its successful
\* answer names a user accepted since the page loaded.
UserSafe(m, acc) ==
  (m.kind = "user" /\ m.live) => /\ acc # {}
                                 /\ (m.stage = "answered" /\ m.ok) => m.user \in acc

\* A live GET of the security server or the version was sent by an
\* authenticated page.
GetSafe(m, acc) == (m.kind \in {"servers", "version"} /\ m.live) => acc # {}

MsgSafe(m, acc) == LoginSafe(m, acc) /\ UserSafe(m, acc) /\ GetSafe(m, acc)

NetSafe(n, acc) == \A s \in Slots : n[s] # NoMsg => MsgSafe(n[s], acc)

\* Once a login of this page was accepted, the backend session is one of them.
SessionAccepted == accepted # {} => session \in accepted \cup {NoUser}

SafeInv ==
  /\ AuthenticatedOnlyAfterAcceptedLogin
  /\ ShownUserWasAccepted
  /\ ServerDataOnlyAfterAcceptedLogin
  /\ SessionAccepted
  /\ NetSafe(net, accepted)

ShownInv == TypeInv /\ SafeInv

\* Putting a safe record into a slot keeps the network safe.
LEMMA SafeUpdate ==
  ASSUME NEW n \in [Slots -> Msg \cup {NoMsg}], NEW acc, NetSafe(n, acc),
         NEW s \in Slots, NEW a, a # NoMsg => MsgSafe(a, acc)
  PROVE  NetSafe([n EXCEPT ![s] = a], acc)
BY DEF NetSafe

\* A message safe for some accepted users stays safe when more are accepted.
LEMMA SafeGrow ==
  ASSUME NEW n, NEW acc, NEW acc2, NetSafe(n, acc), acc \subseteq acc2
  PROVE  NetSafe(n, acc2)
BY DEF NetSafe, MsgSafe, LoginSafe, UserSafe, GetSafe

\* Nothing orphaned is live, so an orphaned network is safe for anything.
LEMMA OrphanedSafe ==
  ASSUME NEW n \in [Slots -> Msg \cup {NoMsg}], NEW acc
  PROVE  NetSafe(Orphaned(n), acc)
<1>1. ASSUME NEW t \in Slots, Orphaned(n)[t] # NoMsg PROVE MsgSafe(Orphaned(n)[t], acc)
  <2>1. n[t] # NoMsg
    BY <1>1, OrphanedSlots
  <2>2. ~Orphaned(n)[t].live
    BY <2>1, OrphanedSlots
  <2>3. QED
    BY <2>2 DEF MsgSafe, LoginSafe, UserSafe, GetSafe
<1>2. QED
  BY <1>1 DEF NetSafe

\* Sending a safe request keeps the network safe.
LEMMA SendSafe ==
  ASSUME net \in [Slots -> Msg \cup {NoMsg}], NEW acc, NetSafe(net, acc),
         NEW m, MsgSafe(m, acc), Send(m)
  PROVE  NetSafe(net', acc)
<1>1. CASE FreeSlot \in Slots
  BY <1>1, SafeUpdate DEF Send
<1>2. CASE FreeSlot \notin Slots
  <2>1. net' = net
    BY <1>2 DEF Send
  <2>2. QED
    BY <2>1
<1>3. QED
  BY <1>1, <1>2

\* A request is safe when, if it is a GET, some login was accepted.
LEMMA RequestSafe ==
  ASSUME NEW kind, NEW u, NEW valid, NEW acc,
         kind \in {"user", "servers", "version"} => acc # {}
  PROVE  MsgSafe(Request(kind, u, valid), acc)
BY DEF Request, MsgSafe, LoginSafe, UserSafe, GetSafe


LEMMA SafeInit == Init => SafeInv
BY DEF Init, userState, SafeInv, AuthenticatedOnlyAfterAcceptedLogin,
       ShownUserWasAccepted, ServerDataOnlyAfterAcceptedLogin, SessionAccepted, NetSafe

LEMMA SafeStep == TypeInv /\ SafeInv /\ [Next]_vars => SafeInv'
<1> SUFFICES ASSUME TypeInv, SafeInv, [Next]_vars PROVE SafeInv'
  OBVIOUS
<1>0. /\ net \in [Slots -> Msg \cup {NoMsg}]
      /\ TypeOK
      /\ authenticated => accepted # {}
      /\ username # NoUser => username \in accepted
      /\ (currentSecurityServer # Empty \/ securityServerVersion # Empty) => accepted # {}
      /\ SessionAccepted
      /\ NetSafe(net, accepted)
  BY DEF TypeInv, TypeOK, SafeInv, AuthenticatedOnlyAfterAcceptedLogin,
         ShownUserWasAccepted, ServerDataOnlyAfterAcceptedLogin
\* A dispatch that sends a safe request and leaves the rest alone.
<1>1. ASSUME NEW m, MsgSafe(m, accepted), Send(m),
             UNCHANGED backendVars,
             authenticated' => authenticated,
             username' \in {username, NoUser},
             currentSecurityServer' \in {currentSecurityServer, Empty},
             securityServerVersion' = securityServerVersion
      PROVE  SafeInv'
  <2>1. NetSafe(net', accepted)
    BY <1>0, <1>1, SendSafe
  <2>2. QED
    BY <1>0, <1>1, <2>1 DEF SafeInv, AuthenticatedOnlyAfterAcceptedLogin,
       ShownUserWasAccepted, ServerDataOnlyAfterAcceptedLogin, SessionAccepted, backendVars
<1>2. ASSUME NEW u \in Users, NEW valid \in BOOLEAN, login(u, valid) PROVE SafeInv'
  BY <1>1, <1>2, RequestSafe DEF login, userVars
<1>3. ASSUME NEW kind \in {"user", "servers", "version"}, fetch(kind) PROVE SafeInv'
  BY <1>0, <1>1, <1>3, RequestSafe DEF fetch, userVars
<1>4. CASE logout
  <2>1. MsgSafe(Request("logout", NoUser, FALSE), accepted)
    BY DEF Request, MsgSafe, LoginSafe, UserSafe, GetSafe
  <2>2. QED
    BY <1>1, <1>4, <2>1 DEF logout, clearAuthData
<1>5. CASE clearAuth
  BY <1>0, <1>5 DEF clearAuth, clearAuthData, SafeInv, AuthenticatedOnlyAfterAcceptedLogin,
     ShownUserWasAccepted, ServerDataOnlyAfterAcceptedLogin, SessionAccepted, backendVars
<1>6. CASE demoLogout
  <2>1. MsgSafe(Request("demoLogout", NoUser, FALSE), accepted)
    BY DEF Request, MsgSafe, LoginSafe, UserSafe, GetSafe
  <2>2. QED
    BY <1>1, <1>6, <2>1 DEF demoLogout, userVars
\* A reload empties the store and `accepted`, and orphans the requests.
<1>7. ASSUME pageReload, net' = Orphaned(net) PROVE SafeInv'
  BY <1>0, <1>7, OrphanedSafe DEF pageReload, SafeInv,
     AuthenticatedOnlyAfterAcceptedLogin, ShownUserWasAccepted, ServerDataOnlyAfterAcceptedLogin, SessionAccepted
<1>8. CASE userReload
  BY <1>7, <1>8 DEF userReload
<1>9. CASE expire
  BY <1>0, <1>9 DEF expire, SafeInv, AuthenticatedOnlyAfterAcceptedLogin,
     ShownUserWasAccepted, ServerDataOnlyAfterAcceptedLogin, SessionAccepted, userVars
\* A server or lost-message step puts a safe record into slot s.
<1>10. ASSUME NEW s \in Slots, NEW a, a # NoMsg => MsgSafe(a, accepted'),
              net' = [net EXCEPT ![s] = a], UNCHANGED userVars,
              accepted \subseteq accepted', SessionAccepted'
       PROVE  SafeInv'
  <2>1. NetSafe(net, accepted')
    BY <1>0, <1>10, SafeGrow
  <2>2. NetSafe(net', accepted')
    BY <1>0, <1>10, <2>1, SafeUpdate
  <2>3. QED
    BY <1>0, <1>10, <2>2 DEF SafeInv, AuthenticatedOnlyAfterAcceptedLogin,
       ShownUserWasAccepted, ServerDataOnlyAfterAcceptedLogin, userVars
<1>11. ASSUME NEW s \in Slots, ServerStep(s) PROVE SafeInv'
  <2> DEFINE m == net[s]
  <2>0. m # NoMsg /\ MsgSafe(m, accepted)
    BY <1>0, <1>11 DEF ServerStep, serveLogin, reject, serveUser, serveServers,
                     serveVersion, serveLogout, Pending, NetSafe
  <2>1. CASE serveLogin(s)
    <3> DEFINE a == [m EXCEPT !.stage = "answered", !.ok = m.valid]
    <3>0. m \in Msg /\ m.kind = "login"
      BY <1>0, <2>1 DEF serveLogin, Pending
    <3>1. CASE m.valid
      <4>1. accepted' = accepted \cup {m.user} /\ session' = m.user
        BY <2>1, <3>1 DEF serveLogin
      <4>2. MsgSafe(a, accepted')
        BY <3>0, <4>1 DEF Msg, MsgSafe, LoginSafe, UserSafe, GetSafe
      <4>3. QED
        BY <1>10, <2>1, <4>1, <4>2 DEF serveLogin, Answered, SessionAccepted
    <3>2. CASE ~m.valid
      <4>1. MsgSafe(a, accepted)
        BY <3>0, <3>2 DEF Msg, MsgSafe, LoginSafe, UserSafe, GetSafe
      <4>2. QED
        BY <1>0, <1>10, <2>1, <3>2, <4>1
        DEF serveLogin, Answered, SessionAccepted, backendVars
    <3>3. QED
      BY <3>1, <3>2
  <2>2. CASE reject(s)
    <3>1. m \in Msg
      BY <1>0, <2>2 DEF reject, Pending
    <3>2. MsgSafe([m EXCEPT !.stage = "answered", !.ok = FALSE], accepted)
      BY <2>0, <3>1 DEF Msg, MsgSafe, LoginSafe, UserSafe, GetSafe
    <3>3. QED
      BY <1>0, <1>10, <2>2, <3>2 DEF reject, Answered, SessionAccepted, backendVars
  <2>3. CASE serveUser(s)
    <3>1. m \in Msg /\ m.kind = "user" /\ session # NoUser
      BY <1>0, <2>3 DEF serveUser, Pending
    <3>2. m.live => session \in accepted
      BY <1>0, <2>0, <3>1 DEF SessionAccepted, MsgSafe, UserSafe
    <3>3. MsgSafe([m EXCEPT !.stage = "answered", !.ok = TRUE, !.user = session], accepted)
      BY <2>0, <3>1, <3>2 DEF Msg, MsgSafe, LoginSafe, UserSafe, GetSafe
    <3>4. QED
      BY <1>0, <1>10, <2>3, <3>3 DEF serveUser, Answered, SessionAccepted, backendVars
  <2>4. CASE serveServers(s)
    <3>1. m \in Msg /\ m.kind = "servers"
      BY <1>0, <2>4 DEF serveServers, Pending
    <3>2. PICK n \in 0 .. MaxServers, srv \in Servers :
            Answered(s, [m EXCEPT !.stage = "answered", !.ok = TRUE,
                                  !.count = n, !.data = IF n = 0 THEN Empty ELSE srv])
      BY <2>4 DEF serveServers
    <3>3. MsgSafe([m EXCEPT !.stage = "answered", !.ok = TRUE,
                            !.count = n, !.data = IF n = 0 THEN Empty ELSE srv], accepted)
      BY <2>0, <3>1 DEF Msg, MsgSafe, LoginSafe, UserSafe, GetSafe
    <3>4. QED
      BY <1>0, <1>10, <2>4, <3>2, <3>3 DEF serveServers, Answered, SessionAccepted, backendVars
  <2>5. CASE serveVersion(s)
    <3>1. m \in Msg /\ m.kind = "version"
      BY <1>0, <2>5 DEF serveVersion, Pending
    <3>2. PICK v \in Versions :
            Answered(s, [m EXCEPT !.stage = "answered", !.ok = TRUE, !.data = v])
      BY <2>5 DEF serveVersion
    <3>3. MsgSafe([m EXCEPT !.stage = "answered", !.ok = TRUE, !.data = v], accepted)
      BY <2>0, <3>1 DEF Msg, MsgSafe, LoginSafe, UserSafe, GetSafe
    <3>4. QED
      BY <1>0, <1>10, <2>5, <3>2, <3>3 DEF serveVersion, Answered, SessionAccepted, backendVars
  <2>6. CASE serveLogout(s)
    <3>1. m \in Msg /\ m.kind \in {"logout", "demoLogout"}
      BY <1>0, <2>6 DEF serveLogout, Pending
    <3>2. MsgSafe([m EXCEPT !.stage = "answered", !.ok = TRUE], accepted)
      BY <3>1 DEF Msg, MsgSafe, LoginSafe, UserSafe, GetSafe
    <3>3. QED
      BY <1>0, <1>10, <2>6, <3>2 DEF serveLogout, Answered, SessionAccepted
  <2>7. QED
    BY <1>11, <2>1, <2>2, <2>3, <2>4, <2>5, <2>6 DEF ServerStep
\* A lost request or answer fails: the record keeps its kind and liveness.
<1>12. ASSUME NEW s \in Slots, loseRequest(s) \/ loseAnswer(s) PROVE SafeInv'
  <2>1. net[s] \in Msg /\ MsgSafe(net[s], accepted)
    BY <1>0, <1>12 DEF loseRequest, loseAnswer, Pending, NetSafe
  <2>2. CASE loseRequest(s)
    <3>1. MsgSafe([net[s] EXCEPT !.stage = "answered", !.ok = FALSE], accepted)
      BY <2>1 DEF Msg, MsgSafe, LoginSafe, UserSafe, GetSafe
    <3>2. QED
      BY <1>0, <1>10, <2>2, <3>1 DEF loseRequest, Answered, SessionAccepted, backendVars
  <2>3. CASE loseAnswer(s)
    <3>1. MsgSafe([net[s] EXCEPT !.ok = FALSE], accepted)
      BY <2>1 DEF Msg, MsgSafe, LoginSafe, UserSafe, GetSafe
    <3>2. QED
      BY <1>0, <1>10, <2>3, <3>1 DEF loseAnswer, Answered, SessionAccepted, backendVars
  <2>4. QED
    BY <1>12, <2>2, <2>3
<1>13. ASSUME NEW s \in Slots, ClientStep(s) PROVE SafeInv'
  <2> DEFINE m == net[s]
  <2>0. m # NoMsg /\ MsgSafe(m, accepted)
    BY <1>0, <1>13 DEF ClientStep, loginSettled, fetchUserDataSettled,
       fetchCurrentSecurityServerSettled, fetchSecurityServerVersionSettled,
       logoutSettled, demoLogoutSettled, discard, Arrived, NetSafe
  \* A handler that consumes the answer frees its slot.
  <2>1. ASSUME Consumed(s), UNCHANGED backendVars PROVE NetSafe(net', accepted')
    BY <1>0, <2>1, SafeUpdate DEF Consumed, backendVars
  <2>2. CASE loginSettled(s)
    <3>1. m.ok => accepted # {}
      BY <2>0, <2>2 DEF loginSettled, Arrived, MsgSafe, LoginSafe
    <3>2. QED
      BY <1>0, <2>1, <2>2, <3>1 DEF loginSettled, SafeInv, AuthenticatedOnlyAfterAcceptedLogin,
         ShownUserWasAccepted, ServerDataOnlyAfterAcceptedLogin, SessionAccepted, backendVars
  <2>3. CASE fetchUserDataSettled(s)
    <3>1. m.ok => m.user \in accepted
      BY <2>0, <2>3 DEF fetchUserDataSettled, Arrived, MsgSafe, UserSafe
    <3>2. QED
      BY <1>0, <2>1, <2>3, <3>1 DEF fetchUserDataSettled, SafeInv,
         AuthenticatedOnlyAfterAcceptedLogin, ShownUserWasAccepted, ServerDataOnlyAfterAcceptedLogin, SessionAccepted, backendVars
  <2>4. CASE fetchCurrentSecurityServerSettled(s)
    <3>1. accepted # {}
      BY <2>0, <2>4 DEF fetchCurrentSecurityServerSettled, Arrived, MsgSafe, GetSafe
    <3>2. QED
    BY <1>0, <2>1, <2>4, <3>1 DEF fetchCurrentSecurityServerSettled, SafeInv,
       AuthenticatedOnlyAfterAcceptedLogin, ShownUserWasAccepted, ServerDataOnlyAfterAcceptedLogin, SessionAccepted, backendVars
  <2>5. CASE fetchSecurityServerVersionSettled(s)
    <3>1. accepted # {}
      BY <2>0, <2>5 DEF fetchSecurityServerVersionSettled, Arrived, MsgSafe, GetSafe
    <3>2. QED
    BY <1>0, <2>1, <2>5, <3>1 DEF fetchSecurityServerVersionSettled, SafeInv,
       AuthenticatedOnlyAfterAcceptedLogin, ShownUserWasAccepted, ServerDataOnlyAfterAcceptedLogin, SessionAccepted, backendVars
  <2>6. CASE logoutSettled(s)
    <3>1. [net EXCEPT ![s] = NoMsg] \in [Slots -> Msg \cup {NoMsg}]
      BY <1>0
    <3>2. QED
      BY <1>7, <2>6, <3>1, OrphanedSafe DEF logoutSettled, pageReload, SafeInv,
         AuthenticatedOnlyAfterAcceptedLogin, ShownUserWasAccepted, ServerDataOnlyAfterAcceptedLogin, SessionAccepted
  <2>7. CASE demoLogoutSettled(s)
    BY <1>0, <2>1, <2>7 DEF demoLogoutSettled, SafeInv, AuthenticatedOnlyAfterAcceptedLogin,
       ShownUserWasAccepted, ServerDataOnlyAfterAcceptedLogin, SessionAccepted, userVars, backendVars
  <2>8. CASE discard(s)
    BY <1>0, <2>1, <2>8 DEF discard, SafeInv, AuthenticatedOnlyAfterAcceptedLogin,
       ShownUserWasAccepted, ServerDataOnlyAfterAcceptedLogin, SessionAccepted, userVars, backendVars
  <2>9. QED
    BY <1>13, <2>2, <2>3, <2>4, <2>5, <2>6, <2>7, <2>8 DEF ClientStep
<1>14. CASE UNCHANGED vars
  BY <1>0, <1>14 DEF vars, userVars, backendVars, SafeInv, AuthenticatedOnlyAfterAcceptedLogin,
     ShownUserWasAccepted, ServerDataOnlyAfterAcceptedLogin, SessionAccepted
<1>20. QED
  BY <1>2, <1>3, <1>4, <1>5, <1>6, <1>8, <1>9, <1>11, <1>12, <1>13, <1>14
  DEF Next, Dispatch

\* ShownInv holds in every state: it is inductive (SafeStep, TypeStep).
LEMMA ShownInvariant == Spec => []ShownInv
<1>1. Init => ShownInv
  BY TypeInit, SafeInit DEF ShownInv
<1>2. ShownInv /\ [Next]_vars => ShownInv'
  BY TypeStep, SafeStep DEF ShownInv
<1>3. QED
  BY <1>1, <1>2, PTL DEF Spec

\* The store is authenticated (isAuthenticated, which gates every view but
\* the login view) only after the backend accepted a login of this page.
THEOREM AuthenticatedOnlyAfterAcceptedLoginHolds == Spec => []AuthenticatedOnlyAfterAcceptedLogin
<1>1. ShownInv => AuthenticatedOnlyAfterAcceptedLogin
  BY DEF ShownInv, SafeInv
<1>2. QED
  BY <1>1, ShownInvariant, PTL

\* The username the store shows (and the permissions fetched with it) is
\* that of a user whose login the backend accepted since the page loaded.
THEOREM ShownUserWasAcceptedHolds == Spec => []ShownUserWasAccepted
<1>1. ShownInv => ShownUserWasAccepted
  BY DEF ShownInv, SafeInv
<1>2. QED
  BY <1>1, ShownInvariant, PTL

\* The store shows a security server or a version only once the backend
\* accepted some login since the page loaded: a GET is sent only once
\* authenticated, and a reload empties the store and orphans every GET in
\* flight (GetSafe).
THEOREM ServerDataOnlyAfterAcceptedLoginHolds == Spec => []ServerDataOnlyAfterAcceptedLogin
<1>1. ShownInv => ServerDataOnlyAfterAcceptedLogin
  BY DEF ShownInv, SafeInv
<1>2. QED
  BY <1>1, ShownInvariant, PTL

(***************************************************************************)
(* Refinement of the abstract session lifecycle.  The phase is LoggedIn   *)
(* exactly when the store is authenticated; username, permissions and     *)
(* accepted map to themselves; the network, the session and the two       *)
(* server fields are hidden.  Each step                                   *)
(* is matched with an abstract step using ShownInv: the answers that log  *)
(* the page in or show a user are safe ones.                              *)
(***************************************************************************)

LEMMA RefineStep ==
  ShownInv /\ [Next]_vars => [Lifecycle!Next]_(Lifecycle!lifecycleVars)
<1> SUFFICES ASSUME ShownInv, [Next]_vars
             PROVE  [Lifecycle!Next]_(Lifecycle!lifecycleVars)
  OBVIOUS
<1>0. /\ net \in [Slots -> Msg \cup {NoMsg}]
      /\ accepted \subseteq Users
      /\ WellFormed(net)
      /\ NetSafe(net, accepted)
  BY DEF ShownInv, TypeInv, TypeOK, NetWellFormed, SafeInv
\* The three ways a step can map: a stutter, a local logout, a reload.
<1>1. ASSUME UNCHANGED <<authenticated, username, permissions, accepted>>
      PROVE  [Lifecycle!Next]_(Lifecycle!lifecycleVars)
  BY <1>1 DEF Lifecycle!lifecycleVars
<1>2. ASSUME clearAuthData, UNCHANGED accepted
      PROVE  [Lifecycle!Next]_(Lifecycle!lifecycleVars)
  BY <1>2 DEF clearAuthData, Lifecycle!Next, Lifecycle!LogOut
<1>3. ASSUME pageReload
      PROVE  [Lifecycle!Next]_(Lifecycle!lifecycleVars)
  BY <1>3 DEF pageReload, Lifecycle!Next, Lifecycle!Reload
<1>4. CASE Dispatch
  <2>1. CASE \E u \in Users, valid \in BOOLEAN : login(u, valid)
    BY <1>1, <2>1 DEF login, userVars, backendVars
  <2>2. CASE \E kind \in {"user", "servers", "version"} : fetch(kind)
    BY <1>1, <2>2 DEF fetch, userVars, backendVars
  <2>3. CASE logout
    BY <1>2, <2>3 DEF logout, backendVars
  <2>4. CASE clearAuth
    BY <1>2, <2>4 DEF clearAuth, backendVars
  <2>5. CASE demoLogout
    BY <1>1, <2>5 DEF demoLogout, userVars, backendVars
  <2>6. CASE userReload
    BY <1>3, <2>6 DEF userReload
  <2>7. QED
    BY <1>4, <2>1, <2>2, <2>3, <2>4, <2>5, <2>6 DEF Dispatch
<1>5. CASE expire
  BY <1>1, <1>5 DEF expire, userVars
\* POST /login with valid credentials is the abstract Accept.
<1>6. ASSUME NEW s \in Slots, ServerStep(s)
      PROVE  [Lifecycle!Next]_(Lifecycle!lifecycleVars)
  <2>1. CASE serveLogin(s)
    <3>1. net[s] \in Msg /\ net[s] # NoMsg /\ net[s].kind = "login"
      BY <1>0, <2>1 DEF serveLogin, Pending
    <3>2. net[s].user \in Users
      BY <1>0, <3>1 DEF WellFormed, WFMsg
    <3>3. CASE net[s].valid
      <4>1. Lifecycle!Accept(net[s].user)
        BY <2>1, <3>3 DEF serveLogin, userVars, Lifecycle!Accept
      <4>2. QED
        BY <3>2, <4>1 DEF Lifecycle!Next
    <3>4. CASE ~net[s].valid
      BY <1>1, <2>1, <3>4 DEF serveLogin, userVars, backendVars
    <3>5. QED
      BY <3>3, <3>4
  <2>2. CASE reject(s) \/ serveUser(s) \/ serveServers(s) \/ serveVersion(s)
    BY <1>1, <2>2 DEF reject, serveUser, serveServers, serveVersion, userVars, backendVars
  <2>3. CASE serveLogout(s)
    BY <1>1, <2>3 DEF serveLogout, userVars
  <2>4. QED
    BY <1>6, <2>1, <2>2, <2>3 DEF ServerStep
<1>7. ASSUME NEW s \in Slots, loseRequest(s) \/ loseAnswer(s)
      PROVE  [Lifecycle!Next]_(Lifecycle!lifecycleVars)
  BY <1>1, <1>7 DEF loseRequest, loseAnswer, userVars, backendVars
\* authUser is the abstract LogIn, and GET /user's handler Identify.
<1>8. ASSUME NEW s \in Slots, ClientStep(s)
      PROVE  [Lifecycle!Next]_(Lifecycle!lifecycleVars)
  <2> DEFINE m == net[s]
  <2>0. m # NoMsg => MsgSafe(m, accepted)
    BY <1>0 DEF NetSafe
  <2>1. CASE loginSettled(s)
    <3>1. CASE m.ok
      <4>1. accepted # {}
        BY <2>0, <2>1, <3>1 DEF loginSettled, Arrived, MsgSafe, LoginSafe
      <4>2. Lifecycle!LogIn
        BY <2>1, <3>1, <4>1 DEF loginSettled, backendVars, Lifecycle!LogIn
      <4>3. QED
        BY <4>2 DEF Lifecycle!Next
    <3>2. CASE ~m.ok
      BY <1>1, <2>1, <3>2 DEF loginSettled, backendVars
    <3>3. QED
      BY <3>1, <3>2
  <2>2. CASE fetchUserDataSettled(s)
    <3>1. CASE m.ok
      <4>1. m.user \in accepted
        BY <2>0, <2>2, <3>1 DEF fetchUserDataSettled, Arrived, MsgSafe, UserSafe
      <4>2. Lifecycle!Identify(m.user)
        BY <2>2, <3>1, <4>1 DEF fetchUserDataSettled, backendVars, Lifecycle!Identify
      <4>3. QED
        BY <1>0, <4>1, <4>2 DEF Lifecycle!Next
    <3>2. CASE ~m.ok
      BY <1>1, <2>2, <3>2 DEF fetchUserDataSettled, backendVars
    <3>3. QED
      BY <3>1, <3>2
  <2>3. CASE \/ fetchCurrentSecurityServerSettled(s) \/ fetchSecurityServerVersionSettled(s)
             \/ demoLogoutSettled(s) \/ discard(s)
    BY <1>1, <2>3 DEF fetchCurrentSecurityServerSettled, fetchSecurityServerVersionSettled,
                      demoLogoutSettled, discard, userVars, backendVars
  <2>4. CASE logoutSettled(s)
    BY <1>3, <2>4 DEF logoutSettled
  <2>5. QED
    BY <1>8, <2>1, <2>2, <2>3, <2>4 DEF ClientStep
<1>9. CASE UNCHANGED vars
  BY <1>1, <1>9 DEF vars, userVars, backendVars
<1>10. QED
  BY <1>4, <1>5, <1>6, <1>7, <1>8, <1>9 DEF Next

\* The store implements the abstract session lifecycle: whatever the order
\* of the answers, lost messages and reloads, every step of the page is a
\* step the lifecycle allows (SessionRefinement, checked by TLC as well).
THEOREM SessionRefinementHolds == Spec => SessionRefinement
<1>1. Init => Lifecycle!Init
  BY DEF Init, userState, Lifecycle!Init
<1>2. QED
  BY <1>1, ShownInvariant, RefineStep, PTL DEF Spec, SessionRefinement, Lifecycle!Spec


\* The permissions the store holds are always those of the user it shows
\* (none when it shows none), whatever order the GET /user answers, the
\* logouts and the reloads come in.  Proved once on the abstract
\* lifecycle (LifecycleInvariant) and carried over by the refinement.
THEOREM PermissionsOfShownUserHolds == Spec => []PermissionsOfShownUser
<1>1. Lifecycle!LifecycleInv => PermissionsOfShownUser
  BY DEF Lifecycle!LifecycleInv, Lifecycle!IdentityConsistent, PermissionsOfShownUser
<1>2. QED
  BY <1>1, SessionRefinementHolds, Lifecycle!LifecycleInvariant, PTL DEF SessionRefinement

=============================================================================
