--------------------------- MODULE SessionLifecycle ---------------------------
(***************************************************************************)
(* What the user store promises about the session (spec, Session          *)
(* Lifecycle Controller), with no network and no handlers: the page is    *)
(* logged in only after the backend accepted a login of this page, the    *)
(* user it shows is such a user and comes with that user's permissions,   *)
(* a local logout clears them at once, and a reload forgets everything.   *)
(*                                                                         *)
(* `phase` is the spec's state, LoggedOut or LoggedIn.  `accepted` is the *)
(* set of users whose credentials the backend accepted since the page     *)
(* loaded; it is the only backend state the promise needs.                *)
(***************************************************************************)
EXTENDS TLAPS

CONSTANTS
  Users,    \* user names the backend knows
  NoUser,   \* the empty username
  PermsOf   \* the permissions the backend resolves for a user

VARIABLES phase, username, permissions, accepted

lifecycleVars == <<phase, username, permissions, accepted>>

\* The page loads LoggedOut, with nothing accepted yet.
Init ==
  /\ phase = "LoggedOut"
  /\ username = NoUser
  /\ permissions = {}
  /\ accepted = {}

\* The backend accepts the credentials of u.
Accept(u) ==
  /\ accepted' = accepted \cup {u}
  /\ UNCHANGED <<phase, username, permissions>>

\* LoggedOut -> LoggedIn, once some login of this page was accepted.
LogIn ==
  /\ accepted # {}
  /\ phase' = "LoggedIn"
  /\ UNCHANGED <<username, permissions, accepted>>

\* The identity of an accepted user is shown, with that user's permissions.
Identify(u) ==
  /\ u \in accepted
  /\ username' = u
  /\ permissions' = PermsOf[u]
  /\ UNCHANGED <<phase, accepted>>

\* A local logout: LoggedIn -> LoggedOut with the identity cleared at once.
LogOut ==
  /\ phase' = "LoggedOut"
  /\ username' = NoUser
  /\ permissions' = {}
  /\ UNCHANGED accepted

\* The page is reloaded: nothing of it survives.
Reload ==
  /\ phase' = "LoggedOut"
  /\ username' = NoUser
  /\ permissions' = {}
  /\ accepted' = {}

Next ==
  \/ \E u \in Users : Accept(u) \/ Identify(u)
  \/ LogIn
  \/ LogOut
  \/ Reload

Spec == Init /\ [][Next]_lifecycleVars


(***************************************************************************)
(* What the lifecycle guarantees, proved below for every value of the     *)
(* constants and carried to the store by the refinement.                  *)
(***************************************************************************)
\* The permissions held are those of the user shown, and no user shown
\* means no permission: username and permissions change together, as the
\* spec's "identity of an accepted user, with that user's permissions".
IdentityConsistent ==
  \/ username = NoUser /\ permissions = {}
  \/ username \in Users /\ permissions = PermsOf[username]

\* The inductive invariant: LoggedIn only after an accepted login, the user
\* shown one whose login was accepted, and the identity consistent.
LifecycleInv ==
  /\ phase = "LoggedIn" => accepted # {}
  /\ username \in accepted \cup {NoUser}
  /\ IdentityConsistent

\* Every state of the lifecycle satisfies LifecycleInv: each step keeps it,
\* since LogIn needs an accepted login, Identify an accepted user, and
\* LogOut and Reload clear the user and the permissions together.
THEOREM LifecycleInvariant == Spec => []LifecycleInv
<1>1. Init => LifecycleInv
  BY DEF Init, LifecycleInv, IdentityConsistent
<1>2. LifecycleInv /\ [Next]_lifecycleVars => LifecycleInv'
  <2> SUFFICES ASSUME LifecycleInv, [Next]_lifecycleVars PROVE LifecycleInv'
    OBVIOUS
  <2>1. ASSUME NEW u \in Users, Accept(u) PROVE LifecycleInv'
    BY <2>1 DEF Accept, LifecycleInv, IdentityConsistent
  <2>2. ASSUME NEW u \in Users, Identify(u) PROVE LifecycleInv'
    BY <2>2 DEF Identify, LifecycleInv, IdentityConsistent
  <2>3. CASE LogIn
    BY <2>3 DEF LogIn, LifecycleInv, IdentityConsistent
  <2>4. CASE LogOut
    BY <2>4 DEF LogOut, LifecycleInv, IdentityConsistent
  <2>5. CASE Reload
    BY <2>5 DEF Reload, LifecycleInv, IdentityConsistent
  <2>6. CASE UNCHANGED lifecycleVars
    BY <2>6 DEF lifecycleVars, LifecycleInv, IdentityConsistent
  <2>7. QED
    BY <2>1, <2>2, <2>3, <2>4, <2>5, <2>6 DEF Next
<1>3. QED
  BY <1>1, <1>2, PTL DEF Spec


=============================================================================
