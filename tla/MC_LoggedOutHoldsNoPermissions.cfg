CONSTANTS
  u1 = u1
  u2 = u2
  Users = {u1, u2}
  NoUser = NoUser
  Permissions <- MCPermissions
  PermsOf <- MCPermsOf
  Servers = {srv}
  Versions = {ver}
  Empty = Empty
  NoMsg = NoMsg
  MaxInFlight = 2
  MaxServers = 2

SPECIFICATION Spec

INVARIANT
  LoggedOutHoldsNoPermissions
