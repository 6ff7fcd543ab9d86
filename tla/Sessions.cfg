SPECIFICATION Spec
CONSTANTS
  admin = admin
  member = member
  secret = secret
  other = other
  role = role
  adminAll = adminAll
  adminUsers = adminUsers
  manage = manage
  Subjects = {admin, member}
  Admin = admin
  Passwords = {secret, other}
  AdminPassword = secret
  Roles = {role}
  AdminRole = role
  Permissions = {adminAll, adminUsers}
  Standard = {adminAll}
  Covers <- MCCovers
  Routes = {manage}
  Needs <- MCNeeds
  Tokens = {t1}
  Logins = {l1}
  Requests = {r1}
  MaxChanges = 3
INVARIANTS
  HandledIsEntitled
  LoginIsEntitled
  LinksAreConnected
  LoggedOutIsDead
