----------------------------- MODULE UserGetters -----------------------------
(***************************************************************************)
(* The access evaluator of the user store (the getters of                 *)
(* store/modules/user.ts) and the tab catalogue it filters (mainTabs of   *)
(* global.ts).  Pure operators over the permission set of the store; the  *)
(* store itself is modelled in UserStore.                                 *)
(*                                                                         *)
(* The store keeps `permissions` as a string array and only ever asks     *)
(* `includes` of it, so a set of permission strings is the abstraction.   *)
(***************************************************************************)
EXTENDS Naturals, Sequences, FiniteSets

\* The enum Permissions of global.ts, reduced to a small set of its values.
CONSTANT Permissions

\* The three permissions the main tabs are gated by (global.ts).
VIEW_CLIENTS == "VIEW_CLIENTS"
VIEW_KEYS == "VIEW_KEYS"
DIAGNOSTICS == "DIAGNOSTICS"

\* The value of `permission` of a tab that has none: `!tab.permission` holds.
NoPermission == ""

ASSUME PermissionsAssumption ==
  /\ {VIEW_CLIENTS, VIEW_KEYS, DIAGNOSTICS} \subseteq Permissions
  /\ NoPermission \notin Permissions

\* mainTabs, in catalogue order: the route each tab opens and the permission
\* it needs; `name` (an i18n key) and `key` are left out.
mainTabs ==
  << [to |-> "clients", permission |-> VIEW_CLIENTS],
     [to |-> "sign-and-auth-keys", permission |-> VIEW_KEYS],
     [to |-> "diagnostics", permission |-> DIAGNOSTICS],
     [to |-> "system-parameters", permission |-> NoPermission] >>

\* The value `[0]` of an empty array evaluates to.
undefined == "undefined"

\* getters.hasPermission: state.permissions.includes(perm).
hasPermission(permissions, perm) == perm \in permissions

\* Mutant: a tab without a permission is filtered out as well.
getAllowedTabsDropsUnrestricted(permissions, tabs) ==
  SelectSeq(tabs, LAMBDA tab : hasPermission(permissions, tab.permission))

\* getters.getAllowedTabs: tabs.filter keeps a tab without a permission, or
\* one whose permission the user has; Array.filter keeps the order.
getAllowedTabs(permissions, tabs) ==
  LET allowed(tab) ==
        \/ tab.permission = NoPermission
        \/ hasPermission(permissions, tab.permission)
  IN  SelectSeq(tabs, allowed)

\* getters.firstAllowedTab: getAllowedTabs(mainTabs)[0].
firstAllowedTab(permissions) ==
  LET allowedTabs == getAllowedTabs(permissions, mainTabs)
  IN  IF allowedTabs = << >> THEN undefined ELSE allowedTabs[1]

(***************************************************************************)
(* The contract of the evaluator (spec, Access Evaluator), for every      *)
(* permission set: the allowed tabs are the catalogue's tabs that need no *)
(* permission or one the user has, in catalogue order, and the first      *)
(* allowed tab is the first of those, or nothing when there is none.      *)
(* Stated by the positions of the allowed tabs in mainTabs, the k-th one  *)
(* being the position with exactly k allowed positions up to it.          *)
(***************************************************************************)
AllowedTabsMatchSpec ==
  \A P \in SUBSET Permissions :
    LET idx == {i \in DOMAIN mainTabs :
                  mainTabs[i].permission \in {NoPermission} \cup P}
        pos(k) == CHOOSE i \in idx : Cardinality({j \in idx : j <= i}) = k
    IN  /\ getAllowedTabs(P, mainTabs) = [k \in 1 .. Cardinality(idx) |-> mainTabs[pos(k)]]
        /\ firstAllowedTab(P) = IF idx = {} THEN undefined ELSE mainTabs[pos(1)]

=============================================================================
