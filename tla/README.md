# Formal model of the X-Road security-server UI user store

TLA+ models, TLC runs and TLAPS proofs for the session logic of the admin
front-end, `src/src/proxy-ui-api/frontend/src/store/modules/user.ts`. The
project also covers the tab catalogue it filters, `mainTabs` in `global.ts`.

## 1. The system

The front-end is a Vue single-page application. The parts that hold logic are
these (`spec.md`, section 2):

| Part | Code | What it does |
|---|---|---|
| Permission and Route catalogues | `global.ts` | Closed enumerations of permission strings and route names. `mainTabs` is the ordered list of the four top-level tabs; three of them need a permission. |
| Session State | `user.ts` `UserState`, `userState`, `mutations` | Five fields: `authenticated`, `permissions`, `username`, `currentSecurityServer` and `securityServerVersion`. Only mutations change them. |
| Access Evaluator | `user.ts` `userGetters` | `hasPermission`, `getAllowedTabs` (an order-preserving filter) and `firstAllowedTab` (the landing tab). |
| Session Lifecycle Controller | `user.ts` `actions` | `login`, `fetchUserData`, `fetchCurrentSecurityServer`, `fetchSecurityServerVersion`, `logout` (clears the store, POSTs `/logout`, then reloads the page in `.finally`), `clearAuth` and `demoLogout`. |
| Backend and axios | not in `src/` | The REST endpoints and the session cookie. Modelled from `spec.md`, section 6. |
| i18n | `i18n.ts` | A VueI18n instance. Configuration only. |
| e2e tests | `tests/e2e/specs/*.js` | Nightwatch browser scripts. |

The parts interact through asynchronous HTTP calls:

- Each action sends a request, and its `.then`/`.catch` handler runs later.
- The handlers run in any order relative to each other and to the user's next actions. Nothing cancels them.
- Only `location.reload` discards the page. The reload also discards every awaiting handler. The backend still serves the requests already sent, and its session cookie survives.

That is where the code can go wrong, and it is what the model is about.

## 2. Modules

- **`UserGetters`** is the Access Evaluator and the tab catalogue.
  - `hasPermission`, `getAllowedTabs` (`SelectSeq` with the code's two conditions) and `firstAllowedTab` are pure operators over a permission set. The store only calls `includes` on its permission array, so a set is a faithful abstraction.
  - `mainTabs` keeps the catalogue's order, each tab's route (`to`) and its permission. The i18n `name` and the `key` are dropped.
  - `firstAllowedTab` returns `undefined` only when no tab is allowed. The Settings tab needs no permission, so with this catalogue that case never happens; TLC checks that the operator agrees with the reference anyway.
  - `AllowedTabsMatchSpec` checks the operators, for every subset of the permissions, against a reference definition built from the positions of the allowed tabs.
- **`UserStore`** is the store, the network and the backend.
  - Variables:
    - the five store fields (`permissions` as a set, `Empty` for `{}`, `NoUser` for `''`);
    - `net`, a function from `MaxInFlight` slots to a request or answer record, or `NoMsg`;
    - `session`, the user the backend cookie belongs to;
    - `accepted`, a history variable: the users whose login the backend accepted since the page last loaded. It lasts for the whole page, and it includes a login that an earlier page sent and the backend served after the reload; the properties over it are no finer than that.
  - Each action of the code is a dispatch followed by a handler. Dispatches: `login`, `fetch` (for the three GETs), `logout`, `clearAuth`, `demoLogout`. Handlers: `loginSettled`, `fetchUserDataSettled`, `fetchCurrentSecurityServerSettled`, `fetchSecurityServerVersionSettled`, `logoutSettled`, `demoLogoutSettled`.
  - Each handler is the whole `.then`/`.catch`/`.finally`. For example, `logoutSettled` reloads the page on any answer, and `fetchCurrentSecurityServerSettled` stores `data[0]` only when the array has length 1.
  - `pageReload` is `location.reload`: the store goes back to `userState` and `accepted` is emptied. The requests in flight are marked not `live`, the backend still serves them, and `discard` drops their answers. `userReload` is the same reload started by the user.
  - Backend steps, modelled from the spec:
    - `serveLogin`: valid credentials set the session;
    - `reject`: a GET without a session gets 401;
    - `serveUser`: answers the session's user;
    - `serveServers`: an array of any length up to `MaxServers`;
    - `serveVersion`;
    - `serveLogout`: ends the session;
    - `expire`: the session times out.
  - `loseRequest` and `loseAnswer` are network failures, which axios reports as a rejection.
  - Dispatch guards are the UI's: the login view exists only when logged out, and the fetches are dispatched once logged in.
  - The getter `isAuthenticated` and the mutations `authUser`, `setPermissions`, `setUsername`, `setCurrentSecurityServer` and `setSecurityServerVersion` are operators of their own; the handlers call them as the code commits them. `clearAuthData` is part of `logout` and `clearAuth`.
- **`SessionLifecycle`** is the abstract promise of the Session Lifecycle Controller, written from `spec.md` with no network and no handlers. Its variables are `phase` (the spec's LoggedOut/LoggedIn), `username`, `permissions` and `accepted`. Its steps:
  - `Accept(u)`: the backend accepts a login of `u`;
  - `LogIn`: LoggedOut to LoggedIn, once some login of this page was accepted;
  - `Identify(u)`: an accepted user is shown, with `PermsOf[u]`;
  - `LogOut`: a local logout clears the identity at once;
  - `Reload`: the page forgets everything, `accepted` included.
  - `UserStore` instantiates it as `Lifecycle` with a refinement mapping (`INSTANCE ... WITH`): `phase` is `LoggedIn` exactly when `isAuthenticated` holds, and `username`, `permissions` and `accepted` are mapped to themselves. The network, the session and the two server fields are hidden. The spec's `Authenticating` state is not a phase of its own: several logins may be in flight, lost or orphaned at once, so the store has no single such state to map to.
  - `IdentityConsistent` and `LifecycleInv` state what the lifecycle guarantees; the module proves `LifecycleInvariant` (section 4).
- **`MCUserStore`** is the TLC instance:
  - two users, `u1` with `VIEW_CLIENTS` and `u2` with `VIEW_KEYS`, `DIAGNOSTICS` and a permission no tab needs;
  - one server value and one version;
  - `MaxInFlight = 2`, `MaxServers = 2`.
- **`UserStoreProofs`** holds the TLAPS proofs, including the refinement proof.

## 3. Runs

| Run | cfg | Expect | Shows |
|---|---|---|---|
| `user_store` | `MCUserStore.cfg` | pass | `TypeOK`, `AuthenticatedOnlyAfterAcceptedLogin`, `ShownUserWasAccepted`, `PermissionsOfShownUser`, `ServerDataOnlyAfterAcceptedLogin`, `AllowedTabsMatchSpec`, `LogoutEventuallyReloads` and `SessionRefinement` hold. The run reaches 248,274 distinct states in about 90 s. |
| `logged_out_permissions` | `MC_LoggedOutHoldsNoPermissions.cfg` | violation | A GET /user answered after `clearAuth` (or after `logout`, before the reload) repopulates `permissions` of a logged-out store. |
| `logged_out_version` | `MC_LoggedOutHoldsNoVersion.cfg` | violation | `clearAuthData` never resets `securityServerVersion` (user.ts:68-75). The spec says logout resets every field. |
| `shown_user_is_session_user` | `MC_ShownUserIsSessionUser.cfg` | violation | With two logins in flight, the store shows `u1` and `u1`'s permissions while the backend cookie belongs to `u2`. |

What the properties mean:

- `AuthenticatedOnlyAfterAcceptedLogin`: the store is authenticated only if some login was accepted since the page loaded. On a page with no accepted login, a rejected or lost login never authenticates it. After one accepted login, a bug that commits `authUser` on a failed answer goes unnoticed (the `accepted` set is already non-empty). Two racing logins are the violation run `shown_user_is_session_user`.
- `ShownUserWasAccepted`: the user shown is one whose login was accepted since the page loaded. That no answer of an old page reaches a reloaded one is the browser's doing (the reload drops every handler); what the property checks of `user.ts` is that the store is not kept across the reload and that GET /user is sent only once logged in. A stale answer after `clearAuth` keeps the user accepted, so that hazard is the violation run `logged_out_permissions`, not this property.
- `PermissionsOfShownUser`: the permissions the store holds are `PermsOf` of the user it shows, and empty when it shows none. A stale GET /user answer may change the user (see `shown_user_is_session_user`) but never splits the pair, because `fetchUserData` commits both from one answer and `clearAuthData` and the reload clear both.
- `ServerDataOnlyAfterAcceptedLogin`: the store shows a security server or a version only once some login was accepted since the page loaded. The backend cookie survives `location.reload`. The property fails if the store is kept across the reload, or if a page sends its GETs before it is logged in; dropping the old page's answers is the browser's part.
- `SessionRefinement` (`Lifecycle!Spec` as a PROPERTY): every step of the store, the network and the backend is a step of `SessionLifecycle` or leaves its four variables alone. Every answer a handler applies must therefore be one the abstract lifecycle allows at that point: a login answer only once something was accepted, a user only if it was accepted, and `clearAuthData` must clear all three fields together.
- `LogoutEventuallyReloads`: whatever POST /logout answers, including failure, the page is eventually back at `userState` with no answer of the old session left to apply.

Each property of the passing run has a mutant: a plausible bug in the mapped code that TLC catches.

| Mutant | What the bug is | Property that catches it |
|---|---|---|
| `fetchCurrentSecurityServerNoLengthCheck` | drops the length check | `TypeOK`, for the empty array only: with two servers `data[0]` is still a server, and no property tells that apart |
| `loginSettledAnyAnswer` | commits `authUser` on failure | `AuthenticatedOnlyAfterAcceptedLogin` |
| `pageReloadKeepsUsername` | a persisted username | `ShownUserWasAccepted` |
| `getAllowedTabsDropsUnrestricted` | tabs without a permission are filtered out | `AllowedTabsMatchSpec` |
| `logoutSettledReloadOnSuccess` | the reload chained with `.then` | `LogoutEventuallyReloads` |
| `clearAuthDataKeepsPermissions` | `clearAuthData` forgets `state.permissions = []` | `PermissionsOfShownUser` |
| `pageReloadKeepsVersion` | the version survives the reload | `ServerDataOnlyAfterAcceptedLogin` |
| `clearAuthDataKeepsIdentity` | `clearAuthData` clears only the flag and the server | `SessionRefinement` |

**Bounds.**

- Two request slots are enough for every race the properties are about: a fetch against a clearAuth or logout, two logins against each other, and a logout against an orphaned fetch.
- Two users are enough to tell "the shown user" from "the session user".
- `MaxServers = 2` covers the lengths 0, 1 and more than 1 of the servers array.
- With three slots, TLC takes more than half an hour.

**Fairness.**

- The fairness is weak fairness on each slot's server step and on each slot's handler.
- The browser's event loop runs every settled promise's handler, which justifies fairness on the handlers. Fairness on the server steps assumes the network eventually answers or fails.
- The code sets no timeout on POST /logout (user.ts:151). The liveness property therefore holds only under that assumption.
- Nothing forces the user to act, the session to expire, or a message to be lost.

## 4. Proofs (`UserStoreProofs` and `SessionLifecycle`, tlapm 1.4.5)

All seven theorems hold for every value of the constants, under `UserStoreAssumption` and `NoMsgAssumption` (`NoMsg` is not a record).

**`TypeCorrect: Spec => []TypeOK`.**

- `TypeOK` alone is not inductive.
  - `fetchUserDataSettled` indexes `PermsOf` with the user of the answer.
  - `serveLogin` puts the request's user into the session.
  - The server and version handlers store the answer's data.
- The strengthening `TypeInv` adds `WellFormed(net)`: every login names a user, every ok GET /user answer names a user, and servers and version records carry data of the right type.
- Lemmas used:
  - `SlotUpdate`: rewriting one slot keeps the network well formed.
  - `OrphanedWF`: orphaning keeps the network well formed.
  - `RequestWF`: each request sent is well formed.
- The proof of `TypeStep` has one step per action. Sending into the lowest free slot is handled without proving that the slot exists: were it not a slot, the update would change nothing.

**`AuthenticatedOnlyAfterAcceptedLoginHolds`, `ShownUserWasAcceptedHolds` and `ServerDataOnlyAfterAcceptedLoginHolds`.**

- All three rest on one inductive invariant, `ShownInv == TypeInv /\ SafeInv`, proved once as the lemma `ShownInvariant: Spec => []ShownInv`. `SafeInv` adds two conjuncts to the three properties:
  - `SessionAccepted`: once a login of this page was accepted, the session belongs to one of those users;
  - `NetSafe(net, accepted)`: every live, ok login answer implies `accepted # {}`, every live GET /user was sent when `accepted # {}` and, once answered ok, names an accepted user (`UserSafe`), and every live GET of the servers or the version was sent when `accepted # {}` (`GetSafe`). Without `GetSafe` the invariant is not inductive: the version handler would apply an answer the invariant says nothing about.
- Only live messages are constrained. A reload empties `accepted`, and `OrphanedSafe` shows it also makes every message not live.
- `SafeGrow`: `accepted` only grows between reloads, so a safe network stays safe.
- TLC checked `ShownInv` as an invariant on the instance above (all 248,274 states) before the proof was written, and again after `GetSafe` was added.

**`SessionRefinementHolds: Spec => SessionRefinement`.**

- Laid out as a refinement proof: `Init => Lifecycle!Init`; `ShownInv /\ [Next]_vars => [Lifecycle!Next]_lifecycleVars` (lemma `RefineStep`); then PTL with `ShownInvariant: Spec => []ShownInv`.
- `RefineStep` has one case per action. A valid `serveLogin` maps to `Accept` (the user is in `Users` by `WellFormed`). An ok `loginSettled` maps to `LogIn`: `NetSafe` gives `accepted # {}`. An ok `fetchUserDataSettled` maps to `Identify`: `NetSafe` gives an accepted user. `logout` and `clearAuth` map to `LogOut`; `userReload` and `logoutSettled` to `Reload`. Every other step is a stutter of the abstract variables.
- The same invariant `ShownInv` that proves the three safety properties is what makes the refinement step go through; no new strengthening was needed.

**`LifecycleInvariant: Spec => []LifecycleInv`** (in `SessionLifecycle`, no assumption on the constants).

- `LifecycleInv` is inductive as it stands: LoggedIn implies `accepted # {}`, the user shown is in `accepted` or is `NoUser`, and `IdentityConsistent`. One step per abstract action.

**`PermissionsOfShownUserHolds: Spec => []PermissionsOfShownUser`.**

- Not proved on the store directly. `SessionRefinementHolds` gives `Spec => Lifecycle!Spec`; the instantiated `Lifecycle!LifecycleInvariant` gives `Lifecycle!Spec => []Lifecycle!LifecycleInv`; under the mapping, `Lifecycle!IdentityConsistent` is `PermissionsOfShownUser`. PTL joins the three.
- This is the use of the refinement: a fact about the identity proved once on five abstract actions holds of the store with its network, backend and reloads.

**What TLC checks but the prover cannot.**

- `LogoutEventuallyReloads` is liveness under fairness, out of the prover's reach.
- `AllowedTabsMatchSpec` is about `getAllowedTabs`, which is `SelectSeq`. tlapm 1.4.5 treats `SelectSeq` as an unexpandable identifier, so nothing can be proved of what it returns, even on the concrete four-tab catalogue. It is checked by TLC for every subset of the permissions.

## 5. Not modelled

- i18n: configuration only.
- The views, the router and the other enums of `global.ts`: data and layout.
- The e2e tests.
- How the backend resolves roles into permissions: the constant `PermsOf`.
- The order of the two commits in `fetchUserData`. They run in one synchronous handler, so no other step can see the store between them.
- The remaining plan:
  - a proof of `LogoutEventuallyReloads`'s safety part (`logout` leaves no live answer applied after the reload);
  - a model of the permission-gated routes of the e2e scenario `ss-permissions-localgroups.js`.
