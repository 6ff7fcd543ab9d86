------------------------------ MODULE Sessions ------------------------------
(***************************************************************************)
(* Users, roles, permissions and access tokens (internal/security/rbac)    *)
(* with the login and logout handlers and the middleware that lets         *)
(* requests through (internal/transport/council/auth.go, rbac_routes.go).  *)
(*                                                                         *)
(* An administrative operation is one transaction and one action; a call   *)
(* that a role, a user or a primary key makes fail is rolled back and      *)
(* changes nothing.  Login and the middleware read row after row without   *)
(* a transaction: each of their reads is an action, and everything else    *)
(* runs in between.  Secrets and hashes are the names of what they prove.  *)
(***************************************************************************)
EXTENDS Naturals, FiniteSets

CONSTANTS
  Subjects, Admin,         \* users, and the subject of the bootstrap
  Passwords, AdminPassword,
  Roles, AdminRole,
  Permissions, Standard,   \* permission names, and the catalog's
  Covers,                  \* pairs <<granted, wanted>>: equal, or by a "*"
  Routes, Needs,           \* the permission a route needs, or None
  Tokens,                  \* access tokens that can be issued
  Logins, Requests,        \* logins and requests that are served at once
  MaxChanges               \* bound on administrative operations and restarts

None == "NONE"

ASSUME SessionsAssumption ==
  /\ Admin \in Subjects /\ AdminPassword \in Passwords /\ AdminRole \in Roles
  /\ Standard \subseteq Permissions
  /\ Covers \subseteq Permissions \X Permissions
  /\ Needs \in [Routes -> Permissions \cup {None}]
  /\ None \notin Tokens \cup Subjects /\ Tokens \cap Subjects = {}
  /\ Logins \cap Requests = {}
  /\ MaxChanges \in Nat

VARIABLES
  users,      \* UserRecord by subject, or NoUser
  roles,      \* names in RoleRecord
  catalog,    \* names in PermissionRecord
  userRoles,  \* UserRoleRecord
  rolePerms,  \* RolePermissionRecord
  token,      \* AccessTokenRecord: its user and whether it is still good
  login,      \* logins being served
  request,    \* requests in the middleware, and their handlers
  loggedOut,  \* history: tokens that a logout named alone and answered 204
  unmet,      \* history: facts that never held while a call is served
  changes     \* administrative operations so far

tables == <<users, roles, catalog, userRoles, rolePerms>>
vars == <<tables, token, login, request, loggedOut, unmet, changes>>

\* A credential is an access token, or the legacy token kept with a user.
Credentials == Tokens \cup Subjects

NoUser == [exists |-> FALSE, password |-> None, disabled |-> FALSE, legacy |-> FALSE]
User(password, legacy) ==
  [exists |-> TRUE, password |-> password, disabled |-> FALSE, legacy |-> legacy]

NoLogin == [pc |-> "idle", subject |-> None, password |-> None, token |-> None]
NoRequest == [pc |-> "idle", bearer |-> None, cookie |-> None, route |-> None,
              using |-> None, user |-> None]

Enabled(s) == users[s].exists /\ ~users[s].disabled
Live(t) == token[t].state = "live"
Granted(s) == {g \in Permissions : \E n \in Roles : <<s, n>> \in userRoles /\ <<n, g>> \in rolePerms}
May(s, p) == \E g \in Granted(s) : <<g, p>> \in Covers

Init ==
  /\ users = [s \in Subjects |-> NoUser]
  /\ roles = {} /\ catalog = Standard /\ userRoles = {} /\ rolePerms = {}
  /\ token = [t \in Tokens |-> [state |-> "unused", user |-> None]]
  /\ login = [l \in Logins |-> NoLogin]
  /\ request = [r \in Requests |-> NoRequest]
  /\ loggedOut = {}
  /\ unmet = [p \in Logins \cup Requests |-> {}]
  /\ changes = 0

-----------------------------------------------------------------------------
(* Administration: what each transaction leaves in the tables.              *)

\* A field that a call may leave out.
Optional(S) == {{}} \cup {{x} : x \in S}
Or(given, default) == IF given = {} THEN default ELSE CHOOSE x \in given : TRUE

\* replaceUserRoles, replaceRolePermissions
ReplaceUserRoles(s, R) == userRoles' = {l \in userRoles : l[1] # s} \cup ({s} \X R)
ReplaceRolePermissions(n, P) ==
  /\ rolePerms' = {l \in rolePerms : l[1] # n} \cup ({n} \X P)
  /\ catalog' = catalog \cup P

CreateUser(s, password, legacy) ==
  /\ ~users[s].exists
  /\ users' = [users EXCEPT ![s] = User(password, legacy)]

\* CreateUser (a static token) and CreateUserWithPassword.
CreatePlainUser(s, password, legacy) ==
  /\ CreateUser(s, password, legacy)
  /\ UNCHANGED <<roles, catalog, userRoles, rolePerms>>

CreateManagedUser(s, password, R) ==
  /\ R \subseteq roles
  /\ CreateUser(s, password, FALSE)
  /\ ReplaceUserRoles(s, R)
  /\ UNCHANGED <<roles, catalog, rolePerms>>

\* Variant: the roles are taken as they come, without looking them up.
PatchUserUnchecked(s, password, R, disabled) ==
  /\ users[s].exists
  /\ users' = [users EXCEPT ![s].password = Or(password, @), ![s].disabled = Or(disabled, @)]
  /\ IF R = {} THEN UNCHANGED userRoles ELSE ReplaceUserRoles(s, Or(R, {}))
  /\ UNCHANGED <<roles, catalog, rolePerms>>

\* PatchUser; UpdateUser and SetPassword are calls that give some of the fields.
PatchUser(s, password, R, disabled) ==
  /\ users[s].exists
  /\ Or(R, {}) \subseteq roles
  /\ users' = [users EXCEPT ![s].password = Or(password, @), ![s].disabled = Or(disabled, @)]
  /\ IF R = {} THEN UNCHANGED userRoles ELSE ReplaceUserRoles(s, Or(R, {}))
  /\ UNCHANGED <<roles, catalog, rolePerms>>

CreateRole(n) ==
  /\ n \notin roles
  /\ roles' = roles \cup {n}
  /\ UNCHANGED <<users, catalog, userRoles, rolePerms>>

CreateManagedRole(n, P) ==
  /\ n \notin roles
  /\ roles' = roles \cup {n}
  /\ ReplaceRolePermissions(n, P)
  /\ UNCHANGED <<users, userRoles>>

UpdateRole(n, P) ==
  /\ n \in roles
  /\ ReplaceRolePermissions(n, P)
  /\ UNCHANGED <<users, roles, userRoles>>

GrantPermission(n, p) ==
  /\ n \in roles /\ <<n, p>> \notin rolePerms
  /\ catalog' = catalog \cup {p}
  /\ rolePerms' = rolePerms \cup {<<n, p>>}
  /\ UNCHANGED <<users, roles, userRoles>>

\* AssignRole; GrantRole creates the role.
AssignRole(s, n) ==
  /\ users[s].exists
  /\ roles' = roles \cup {n}
  /\ userRoles' = userRoles \cup {<<s, n>>}
  /\ UNCHANGED <<users, catalog, rolePerms>>

Administer ==
  /\ changes < MaxChanges
  /\ changes' = changes + 1
  /\ \/ \E s \in Subjects, w \in Passwords :
          CreatePlainUser(s, w, FALSE) \/ CreatePlainUser(s, None, TRUE)
     \/ \E s \in Subjects, w \in Passwords, R \in SUBSET Roles : CreateManagedUser(s, w, R)
     \/ \E s \in Subjects, w \in Optional(Passwords), R \in Optional(SUBSET Roles),
           d \in Optional(BOOLEAN) : PatchUser(s, w, R, d)
     \/ \E n \in Roles : CreateRole(n)
     \/ \E n \in Roles, P \in SUBSET Permissions : CreateManagedRole(n, P) \/ UpdateRole(n, P)
     \/ \E n \in Roles, p \in Permissions : GrantPermission(n, p)
     \/ \E s \in Subjects, n \in Roles : AssignRole(s, n)
  /\ UNCHANGED <<token, login, request, loggedOut>>

-----------------------------------------------------------------------------
(* The server's start: configureRBAC.                                       *)

\* issueTokenForUser stores a new token, which lives until its TTL has passed.
Issue(t, s) ==
  /\ token[t].state = "unused"
  /\ token' = [token EXCEPT ![t] = [state |-> "live", user |-> s]]

\* grantBootstrapPermissions adds, and takes nothing away.
GrantBootstrap(n) ==
  /\ roles' = roles \cup {n}
  /\ catalog' = catalog \cup Standard
  /\ userRoles' = userRoles \cup {<<Admin, n>>}
  /\ rolePerms' = rolePerms \cup ({n} \X Standard)

\* SeedPermissions without a bootstrap.
Seed ==
  /\ catalog' = catalog \cup Standard
  /\ UNCHANGED <<users, roles, userRoles, rolePerms, token>>

\* BootstrapAdmin creates the administrator and a token that nobody is given,
\* or repairs the one there is: it keeps a password, and ends a disablement.
BootstrapAdmin ==
  /\ GrantBootstrap(AdminRole)
  /\ IF users[Admin].exists
     THEN /\ users' = [users EXCEPT ![Admin].disabled = FALSE,
                         ![Admin].password = IF @ = None THEN AdminPassword ELSE @]
          /\ UNCHANGED token
     ELSE /\ CreateUser(Admin, AdminPassword, FALSE)
          /\ \E t \in Tokens : Issue(t, Admin)

\* BootstrapLegacyAdmin leaves a user who exists as it is.
BootstrapLegacyAdmin(n) ==
  /\ GrantBootstrap(n)
  /\ IF users[Admin].exists THEN UNCHANGED users ELSE CreateUser(Admin, None, TRUE)
  /\ UNCHANGED token

Restart ==
  /\ changes < MaxChanges
  /\ changes' = changes + 1
  /\ Seed \/ BootstrapAdmin \/ \E n \in Roles : BootstrapLegacyAdmin(n)
  /\ login' = [l \in Logins |-> NoLogin]
  /\ request' = [r \in Requests |-> NoRequest]
  /\ UNCHANGED loggedOut

-----------------------------------------------------------------------------
(* Login: the user is read, a token stored, the user read again.            *)

LoginLoad(l, s, w) ==
  /\ login[l].pc = "idle"
  /\ Enabled(s) /\ users[s].password = w
  /\ login' = [login EXCEPT ![l] = [NoLogin EXCEPT !.pc = "issue", !.subject = s, !.password = w]]
  /\ UNCHANGED <<tables, token, request, loggedOut, changes>>

LoginIssue(l, t) ==
  /\ login[l].pc = "issue"
  /\ Issue(t, login[l].subject)
  /\ login' = [login EXCEPT ![l].pc = "identity", ![l].token = t]
  /\ UNCHANGED <<tables, request, loggedOut, changes>>

\* identityForUser: the call goes on if the user is enabled now.
\* Variant: only the first read of the user looks at disabled.
IdentifiesAnyone(s) == users[s].exists

Identifies(s) == Enabled(s)

LoginIdentity(l) ==
  /\ login[l].pc = "identity"
  /\ Identifies(login[l].subject)
  /\ login' = [login EXCEPT ![l].pc = "answered"]
  /\ UNCHANGED <<tables, token, request, loggedOut, changes>>

\* 401: the user is disabled, or a statement fails; or the answer was sent.
LoginEnds(l) ==
  /\ login[l].pc # "idle"
  /\ login' = [login EXCEPT ![l] = NoLogin]
  /\ UNCHANGED <<tables, token, request, loggedOut, changes>>

-----------------------------------------------------------------------------
(* Tokens end.  A revocation reads the row and then sets revoked_at; as a   *)
(* row never comes back to life, the two statements are one action.         *)

End(t, state) == token' = [token EXCEPT ![t].state = state]

\* The TTL of a token passes.
Expire(t) ==
  /\ Live(t)
  /\ End(t, "expired")
  /\ UNCHANGED <<tables, login, request, loggedOut, changes>>

\* RevokeToken
RevokeToken(t) ==
  /\ token[t].state \in {"live", "expired"}
  /\ End(t, "revoked")
  /\ UNCHANGED <<tables, login, request, loggedOut, changes>>

\* Whether RevokePresentedToken revokes a credential.
Revocable(c) == c \in Tokens /\ Live(c)

\* The stored token that is the only credential of a request.
NamedAlone(bearer, cookie) ==
  {t \in Tokens : token[t].state # "unused" /\ {bearer, cookie} \subseteq {t, None}}

\* Variant: the cookie is revoked although the bearer token was the session.
LogoutCookieFirst(bearer, cookie) ==
  /\ bearer # None \/ cookie # None
  /\ IF Revocable(cookie) THEN End(cookie, "revoked") ELSE UNCHANGED token
  /\ loggedOut' = loggedOut \cup NamedAlone(bearer, cookie)
  /\ UNCHANGED <<tables, login, request, changes>>

\* logout: the bearer token if it can be revoked, else the cookie; always 204.
Logout(bearer, cookie) ==
  /\ bearer # None \/ cookie # None
  /\ IF Revocable(bearer) THEN End(bearer, "revoked")
     ELSE IF Revocable(cookie) THEN End(cookie, "revoked")
     ELSE UNCHANGED token
  /\ loggedOut' = loggedOut \cup NamedAlone(bearer, cookie)
  /\ UNCHANGED <<tables, login, request, changes>>

-----------------------------------------------------------------------------
(* The middleware: the bearer token is tried first, then the cookie, either *)
(* of which may be any credential.                                          *)

Arrive(r, bearer, cookie, route) ==
  /\ request[r].pc = "idle"
  /\ bearer # None \/ cookie # None
  /\ request' = [request EXCEPT ![r] =
       [NoRequest EXCEPT !.pc = "token", !.bearer = bearer, !.cookie = cookie, !.route = route,
                         !.using = IF bearer # None THEN bearer ELSE cookie]]
  /\ UNCHANGED <<tables, token, login, loggedOut, changes>>

\* Variant: the row is found, whether or not it was revoked or has expired.
AcceptsAnyRow(c) == IF c \in Tokens THEN token[c].state # "unused" ELSE Enabled(c) /\ users[c].legacy

\* Authenticate's first read: an access token that is good, or a legacy token.
Accepts(c) == IF c \in Tokens THEN Live(c) ELSE Enabled(c) /\ users[c].legacy

CheckCredential(r) ==
  LET c == request[r].using
  IN  /\ request[r].pc = "token"
      /\ Accepts(c)
      /\ request' = [request EXCEPT ![r].pc = "identity",
                       ![r].user = IF c \in Tokens THEN token[c].user ELSE c]
      /\ UNCHANGED <<tables, token, login, loggedOut, changes>>

IdentifyUser(r) ==
  /\ request[r].pc = "identity"
  /\ Identifies(request[r].user)
  /\ request' = [request EXCEPT ![r].pc = "permission"]
  /\ UNCHANGED <<tables, token, login, loggedOut, changes>>

\* The permission that the method and the path of a request need, if any.
Need(r) == Needs[request[r].route]

\* identityForUser's last query and identityHasPermission.
Authorize(r) ==
  /\ request[r].pc = "permission"
  /\ Need(r) = None \/ May(request[r].user, Need(r))
  /\ request' = [request EXCEPT ![r].pc = "handler"]
  /\ UNCHANGED <<tables, token, login, loggedOut, changes>>

\* The bearer token fails, or a statement does: the cookie is tried.
TryCookie(r) ==
  /\ request[r].pc \in {"token", "identity", "permission"}
  /\ request[r].using = request[r].bearer /\ request[r].cookie # None
  /\ request' = [request EXCEPT ![r].pc = "token", ![r].using = request[r].cookie,
                                ![r].bearer = None, ![r].user = None]
  /\ UNCHANGED <<tables, token, login, loggedOut, changes>>

\* 401, 403, or the handler is done.
RequestEnds(r) ==
  /\ request[r].pc # "idle"
  /\ request' = [request EXCEPT ![r] = NoRequest]
  /\ UNCHANGED <<tables, token, login, loggedOut, changes>>

-----------------------------------------------------------------------------
Step ==
  \/ Administer \/ Restart
  \/ \E l \in Logins :
       \/ \E s \in Subjects, w \in Passwords : LoginLoad(l, s, w)
       \/ \E t \in Tokens : LoginIssue(l, t)
       \/ LoginIdentity(l) \/ LoginEnds(l)
  \/ \E t \in Tokens : Expire(t) \/ RevokeToken(t)
  \/ \E b, c \in Credentials \cup {None} : Logout(b, c)
  \/ \E r \in Requests :
       \/ \E b, c \in Credentials \cup {None}, route \in Routes :
            Arrive(r, b, c, route)
       \/ CheckCredential(r) \/ IdentifyUser(r) \/ Authorize(r) \/ TryCookie(r) \/ RequestEnds(r)

\* What does not hold in this state, of what a call may be asked to prove.
Dead == {<<"credential", c>> :
           c \in {t \in Tokens : ~Live(t)} \cup {s \in Subjects : ~(Enabled(s) /\ users[s].legacy)}}
Disabled == {<<"enabled", s>> : s \in {u \in Subjects : ~Enabled(u)}}
Wanted == {Needs[route] : route \in Routes} \ {None}
Denied == {<<"permission", x[1], x[2]>> : x \in {y \in Subjects \X Wanted : ~May(y[1], y[2])}}
Wrong == {<<"password", x[1], x[2]>> :
            x \in {y \in Subjects \X Passwords : users[y[1]].password # y[2]}}

\* What never held since a request arrived, and since a login began; that its
\* user is enabled, since the token of the login is stored.
Observe ==
  unmet' = [p \in Logins \cup Requests |->
    IF p \in Requests
    THEN IF request'[p].pc = "idle" THEN {}
         ELSE IF request[p].pc = "idle" THEN (Dead \cup Disabled \cup Denied)'
         ELSE unmet[p] \cap (Dead \cup Disabled \cup Denied)'
    ELSE IF login'[p].pc = "idle" THEN {}
         ELSE IF login[p].pc = "idle" THEN Wrong'
         ELSE IF login[p].pc = "issue" THEN (unmet[p] \cap Wrong') \cup Disabled'
         ELSE unmet[p] \cap (Wrong \cup Disabled)']

Next == Step /\ Observe

Spec == Init /\ [][Next]_vars

-----------------------------------------------------------------------------
TypeOK ==
  /\ users \in [Subjects -> [exists: BOOLEAN, password: Passwords \cup {None},
                             disabled: BOOLEAN, legacy: BOOLEAN]]
  /\ roles \subseteq Roles /\ catalog \subseteq Permissions
  /\ userRoles \subseteq Subjects \X Roles /\ rolePerms \subseteq Roles \X Permissions
  /\ token \in [Tokens -> [state: {"unused", "live", "expired", "revoked"},
                           user: Subjects \cup {None}]]
  /\ login \in [Logins -> [pc: {"idle", "issue", "identity", "answered"},
                           subject: Subjects \cup {None}, password: Passwords \cup {None},
                           token: Tokens \cup {None}]]
  /\ request \in [Requests -> [pc: {"idle", "token", "identity", "permission", "handler"},
                               bearer: Credentials \cup {None}, cookie: Credentials \cup {None},
                               route: Routes \cup {None}, using: Credentials \cup {None},
                               user: Subjects \cup {None}]]
  /\ loggedOut \subseteq Tokens
  /\ changes \in 0..MaxChanges

\* A request reaches its handler only if, at some moment while it was served,
\* the credential it was let in with was good, its user enabled, and the
\* permission granted: disablement, revocation and changes of roles take
\* effect at once, however the reads of the middleware interleave with them.
HandledIsEntitled ==
  \A r \in Requests : request[r].pc = "handler" =>
    LET user == request[r].user
        need == Needs[request[r].route]
    IN  /\ <<"credential", request[r].using>> \notin unmet[r]
        /\ <<"enabled", user>> \notin unmet[r]
        /\ need # None => <<"permission", user, need>> \notin unmet[r]

\* A login is answered with a token only if the password was right at some
\* moment of the call, and the user enabled at some moment after the token was
\* stored: one who is disabled while Login runs is not given a session.
LoginIsEntitled ==
  \A l \in Logins : login[l].pc = "answered" =>
    /\ <<"password", login[l].subject, login[l].password>> \notin unmet[l]
    /\ <<"enabled", login[l].subject>> \notin unmet[l]

\* The link tables have no foreign keys; the operations keep them connected: a
\* role or a permission that is assigned exists, and so does its holder.
LinksAreConnected ==
  /\ \A l \in userRoles : users[l[1]].exists /\ l[2] \in roles
  /\ \A l \in rolePerms : l[1] \in roles /\ l[2] \in catalog
  /\ \A t \in Tokens : token[t].state # "unused" => users[token[t].user].exists

\* A token that a logout was sent with, and no other, stays dead, across
\* logins, administration and restarts.
LoggedOutIsDead == \A t \in loggedOut : ~Live(t)
=============================================================================
