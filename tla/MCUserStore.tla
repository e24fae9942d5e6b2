----------------------------- MODULE MCUserStore -----------------------------
(***************************************************************************)
(* A small instance of UserStore for TLC: two users with different        *)
(* permissions (one with none of the tab permissions but VIEW_CLIENTS,    *)
(* one with the others and a permission no tab needs), one server entry,  *)
(* one version, and two requests in flight, enough for a fetch to race a *)
(* logout or a clearAuth, and for two logins to race each other.          *)
(***************************************************************************)
EXTENDS UserStore, TLC

CONSTANTS u1, u2

MCPermissions == {VIEW_CLIENTS, VIEW_KEYS, DIAGNOSTICS, "ADD_CLIENT"}

MCPermsOf == (u1 :> {VIEW_CLIENTS}) @@ (u2 :> {VIEW_KEYS, DIAGNOSTICS, "ADD_CLIENT"})

=============================================================================
