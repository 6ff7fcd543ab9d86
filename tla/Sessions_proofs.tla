--------------------------- MODULE Sessions_proofs ---------------------------
(***************************************************************************)
(* Proofs about Sessions for any users, roles, permissions, tokens, logins *)
(* and requests.                                                           *)
(***************************************************************************)
EXTENDS Sessions, TLAPS

-----------------------------------------------------------------------------
(* The tables                                                                *)

UserRow == [exists: BOOLEAN, password: Passwords \cup {None},
            disabled: BOOLEAN, legacy: BOOLEAN]
TablesOK ==
  /\ users \in [Subjects -> UserRow]
  /\ roles \subseteq Roles /\ catalog \subseteq Permissions
  /\ userRoles \subseteq Subjects \X Roles /\ rolePerms \subseteq Roles \X Permissions
  /\ \A l \in userRoles : users[l[1]].exists /\ l[2] \in roles
  /\ \A l \in rolePerms : l[1] \in roles /\ l[2] \in catalog
UsersStay == \A s \in Subjects : users[s].exists => users'[s].exists

LEMMA OrIs ==
  ASSUME NEW S, NEW given \in Optional(S), NEW default
  PROVE  \/ given = {} /\ Or(given, default) = default
         \/ given # {} /\ Or(given, default) \in S
<1>1. CASE given = {}
  BY <1>1 DEF Or
<1>2. CASE given # {}
  <2>1. PICK x \in S : given = {x}
    BY <1>2 DEF Optional
  <2> QED
    BY <2>1 DEF Or
<1> QED
  BY <1>1, <1>2

LEMMA CreateUserIs ==
  ASSUME TablesOK, NEW s \in Subjects, NEW w \in Passwords \cup {None}, NEW legacy \in BOOLEAN,
         CreateUser(s, w, legacy)
  PROVE  users' \in [Subjects -> UserRow] /\ UsersStay /\ users'[s].exists
<1>1. User(w, legacy) \in UserRow /\ User(w, legacy).exists
  BY DEF User, UserRow
<1> QED
  BY <1>1 DEF CreateUser, TablesOK, UsersStay

LEMMA ReplaceUserRolesIs ==
  ASSUME TablesOK, NEW s \in Subjects, NEW R \in SUBSET Roles, R \subseteq roles,
         users' \in [Subjects -> UserRow], UsersStay, users'[s].exists,
         ReplaceUserRoles(s, R), UNCHANGED <<roles, catalog, rolePerms>>
  PROVE  TablesOK'
<1>1. \A l \in userRoles' : l \in userRoles \/ l \in {s} \X R
  BY DEF ReplaceUserRoles
<1>2. userRoles' \subseteq Subjects \X Roles
  BY <1>1 DEF TablesOK
<1>3. ASSUME NEW l \in userRoles' PROVE users'[l[1]].exists /\ l[2] \in roles
  <2>1. CASE l \in userRoles
    BY <2>1 DEF TablesOK, UsersStay
  <2>2. CASE l \in {s} \X R
    BY <2>2
  <2> QED
    BY <1>1, <2>1, <2>2
<1> QED
  BY <1>2, <1>3 DEF TablesOK

LEMMA ReplaceRolePermissionsIs ==
  ASSUME TablesOK, NEW n \in Roles, NEW P \in SUBSET Permissions,
         n \in roles', roles \subseteq roles', roles' \subseteq Roles,
         ReplaceRolePermissions(n, P), UNCHANGED <<users, userRoles>>
  PROVE  TablesOK' /\ UsersStay
<1>1. \A l \in rolePerms' : l \in rolePerms \/ l \in {n} \X P
  BY DEF ReplaceRolePermissions
<1>2. rolePerms' \subseteq Roles \X Permissions /\ catalog' \subseteq Permissions
  BY <1>1 DEF TablesOK, ReplaceRolePermissions
<1>3. ASSUME NEW l \in rolePerms' PROVE l[1] \in roles' /\ l[2] \in catalog'
  <2>1. CASE l \in rolePerms
    BY <2>1 DEF TablesOK, ReplaceRolePermissions
  <2>2. CASE l \in {n} \X P
    BY <2>2 DEF ReplaceRolePermissions
  <2> QED
    BY <1>1, <2>1, <2>2
<1> QED
  BY <1>2, <1>3 DEF TablesOK, UsersStay

LEMMA PatchUserIs ==
  ASSUME TablesOK, NEW s \in Subjects, NEW w \in Optional(Passwords),
         NEW R \in Optional(SUBSET Roles), NEW d \in Optional(BOOLEAN), PatchUser(s, w, R, d)
  PROVE  TablesOK' /\ UsersStay
<1> DEFINE row == [users[s] EXCEPT !.password = Or(w, users[s].password),
                                   !.disabled = Or(d, users[s].disabled)]
<1>1. users[s] \in UserRow /\ users[s].exists
  BY DEF TablesOK, PatchUser
<1>2. Or(w, users[s].password) \in Passwords \cup {None}
  BY <1>1, OrIs DEF UserRow
<1>3. Or(d, users[s].disabled) \in BOOLEAN
  BY <1>1, OrIs DEF UserRow
<1>4. row \in UserRow /\ row.exists
  BY <1>1, <1>2, <1>3 DEF UserRow
<1>5. users' = [users EXCEPT ![s] = row]
  BY DEF PatchUser
<1> HIDE DEF row
<1>6. users' \in [Subjects -> UserRow] /\ users'[s].exists /\ UsersStay
  BY <1>4, <1>5 DEF TablesOK, UsersStay
<1>7. CASE R = {}
  BY <1>6, <1>7 DEF PatchUser, TablesOK, UsersStay
<1>8. CASE R # {}
  <2>1. Or(R, {}) \in SUBSET Roles /\ Or(R, {}) \subseteq roles
    BY <1>8, OrIs DEF PatchUser
  <2>2. ReplaceUserRoles(s, Or(R, {})) /\ UNCHANGED <<roles, catalog, rolePerms>>
    BY <1>8 DEF PatchUser
  <2> QED
    BY <1>6, <2>1, <2>2, ReplaceUserRolesIs
<1> QED
  BY <1>7, <1>8

LEMMA AdministerIs ==
  ASSUME TablesOK, Administer
  PROVE  TablesOK' /\ UsersStay
<1>1. ASSUME NEW s \in Subjects, NEW w \in Passwords \cup {None}, NEW legacy \in BOOLEAN,
             CreatePlainUser(s, w, legacy)
      PROVE  TablesOK' /\ UsersStay
  <2>1. users' \in [Subjects -> UserRow] /\ UsersStay
    BY <1>1, CreateUserIs DEF CreatePlainUser
  <2> QED
    BY <1>1, <2>1 DEF CreatePlainUser, TablesOK, UsersStay
<1>2. ASSUME NEW s \in Subjects, NEW w \in Passwords, NEW R \in SUBSET Roles,
             CreateManagedUser(s, w, R)
      PROVE  TablesOK' /\ UsersStay
  <2>1. users' \in [Subjects -> UserRow] /\ UsersStay /\ users'[s].exists
    BY <1>2, CreateUserIs DEF CreateManagedUser
  <2> QED
    BY <1>2, <2>1, ReplaceUserRolesIs DEF CreateManagedUser
<1>3. ASSUME NEW s \in Subjects, NEW w \in Optional(Passwords), NEW R \in Optional(SUBSET Roles),
             NEW d \in Optional(BOOLEAN), PatchUser(s, w, R, d)
      PROVE  TablesOK' /\ UsersStay
  BY <1>3, PatchUserIs
<1>4. ASSUME NEW n \in Roles, CreateRole(n)
      PROVE  TablesOK' /\ UsersStay
  BY <1>4 DEF CreateRole, TablesOK, UsersStay
<1>5. ASSUME NEW n \in Roles, NEW P \in SUBSET Permissions, CreateManagedRole(n, P)
      PROVE  TablesOK' /\ UsersStay
  BY <1>5, ReplaceRolePermissionsIs DEF CreateManagedRole, TablesOK
<1>6. ASSUME NEW n \in Roles, NEW P \in SUBSET Permissions, UpdateRole(n, P)
      PROVE  TablesOK' /\ UsersStay
  BY <1>6, ReplaceRolePermissionsIs DEF UpdateRole, TablesOK
<1>7. ASSUME NEW n \in Roles, NEW p \in Permissions, GrantPermission(n, p)
      PROVE  TablesOK' /\ UsersStay
  BY <1>7 DEF GrantPermission, TablesOK, UsersStay
<1>8. ASSUME NEW s \in Subjects, NEW n \in Roles, AssignRole(s, n)
      PROVE  TablesOK' /\ UsersStay
  BY <1>8 DEF AssignRole, TablesOK, UsersStay
<1> QED
  BY <1>1, <1>2, <1>3, <1>4, <1>5, <1>6, <1>7, <1>8 DEF Administer

\* The permissions of a bootstrap, for an administrator who exists afterwards.
LEMMA GrantBootstrapIs ==
  ASSUME TablesOK, NEW n \in Roles, GrantBootstrap(n),
         users' \in [Subjects -> UserRow], UsersStay, users'[Admin].exists
  PROVE  TablesOK'
<1>1. \A l \in userRoles' : l \in userRoles \/ l = <<Admin, n>>
  BY DEF GrantBootstrap
<1>2. \A l \in rolePerms' : l \in rolePerms \/ l \in {n} \X Standard
  BY DEF GrantBootstrap
<1>3. /\ roles' \subseteq Roles /\ catalog' \subseteq Permissions
      /\ userRoles' \subseteq Subjects \X Roles /\ rolePerms' \subseteq Roles \X Permissions
  BY SessionsAssumption DEF GrantBootstrap, TablesOK
<1>4. ASSUME NEW l \in userRoles' PROVE users'[l[1]].exists /\ l[2] \in roles'
  BY <1>1 DEF TablesOK, UsersStay, GrantBootstrap
<1>5. ASSUME NEW l \in rolePerms' PROVE l[1] \in roles' /\ l[2] \in catalog'
  <2>1. CASE l \in rolePerms
    BY <2>1 DEF TablesOK, GrantBootstrap
  <2>2. CASE l \in {n} \X Standard
    BY <2>2 DEF GrantBootstrap
  <2> QED
    BY <1>2, <2>1, <2>2
<1> QED
  BY <1>3, <1>4, <1>5 DEF TablesOK

LEMMA BootstrapIs ==
  ASSUME TablesOK, Seed \/ BootstrapAdmin \/ \E n \in Roles : BootstrapLegacyAdmin(n)
  PROVE  /\ TablesOK' /\ UsersStay
         /\ UNCHANGED token \/ \E t \in Tokens : Issue(t, Admin) /\ users'[Admin].exists
<1>1. CASE Seed
  BY <1>1, SessionsAssumption DEF Seed, TablesOK, UsersStay
<1>2. CASE BootstrapAdmin
  <2>1. CASE users[Admin].exists
    <3> DEFINE row == [users[Admin] EXCEPT !.disabled = FALSE,
                         !.password = IF users[Admin].password = None THEN AdminPassword
                                      ELSE users[Admin].password]
    <3>1. users[Admin] \in UserRow
      BY SessionsAssumption DEF TablesOK
    <3>2. row \in UserRow /\ row.exists
      BY <2>1, <3>1, SessionsAssumption DEF UserRow
    <3>3. users' = [users EXCEPT ![Admin] = row]
      BY <1>2, <2>1 DEF BootstrapAdmin
    <3> HIDE DEF row
    <3>4. users' \in [Subjects -> UserRow] /\ users'[Admin].exists /\ UsersStay
      BY <3>2, <3>3, SessionsAssumption DEF TablesOK, UsersStay
    <3> QED
      BY <1>2, <2>1, <3>4, GrantBootstrapIs, SessionsAssumption DEF BootstrapAdmin
  <2>2. CASE ~users[Admin].exists
    <3>1. users' \in [Subjects -> UserRow] /\ users'[Admin].exists /\ UsersStay
      BY <1>2, <2>2, CreateUserIs, SessionsAssumption DEF BootstrapAdmin
    <3> QED
      BY <1>2, <2>2, <3>1, GrantBootstrapIs, SessionsAssumption DEF BootstrapAdmin
  <2> QED
    BY <2>1, <2>2
<1>3. ASSUME NEW n \in Roles, BootstrapLegacyAdmin(n)
      PROVE  TablesOK' /\ UsersStay /\ UNCHANGED token
  <2>1. users' \in [Subjects -> UserRow] /\ users'[Admin].exists /\ UsersStay
    <3>1. CASE users[Admin].exists
      BY <1>3, <3>1 DEF BootstrapLegacyAdmin, TablesOK, UsersStay
    <3>2. CASE ~users[Admin].exists
      BY <1>3, <3>2, CreateUserIs, SessionsAssumption DEF BootstrapLegacyAdmin
    <3> QED
      BY <3>1, <3>2
  <2> QED
    BY <1>3, <2>1, GrantBootstrapIs DEF BootstrapLegacyAdmin
<1> QED
  BY <1>1, <1>2, <1>3 DEF Seed

-----------------------------------------------------------------------------
(* The invariant                                                             *)

States == {"unused", "live", "expired", "revoked"}
LoginPCs == {"idle", "issue", "identity", "answered"}
RequestPCs == {"idle", "token", "identity", "permission", "handler"}

\* A token that was issued has its user.
TokensOK ==
  /\ token \in [Tokens -> [state: States, user: Subjects \cup {None}]]
  /\ \A t \in Tokens : token[t].state # "unused" =>
       token[t].user \in Subjects /\ users[token[t].user].exists

\* A login that found its user keeps a user who exists.
LoginsOK ==
  /\ login \in [Logins -> [pc: LoginPCs, subject: Subjects \cup {None},
                           password: Passwords \cup {None}, token: Tokens \cup {None}]]
  /\ \A l \in Logins : login[l].pc # "idle" =>
       /\ login[l].subject \in Subjects /\ users[login[l].subject].exists
       /\ login[l].password \in Passwords

\* A request in the middleware carries a credential, and from the first read
\* on a user.
RequestsOK ==
  /\ request \in [Requests -> [pc: RequestPCs,
                               bearer: Credentials \cup {None}, cookie: Credentials \cup {None},
                               route: Routes \cup {None}, using: Credentials \cup {None},
                               user: Subjects \cup {None}]]
  /\ \A r \in Requests : request[r].pc # "idle" =>
       request[r].using \in Credentials /\ request[r].route \in Routes
  /\ \A r \in Requests : request[r].pc \in {"identity", "permission", "handler"} =>
       request[r].user \in Subjects

\* A token that was logged out has ended, and nothing brings one back.
EndedStays == loggedOut \subseteq {t \in Tokens : token[t].state \in {"expired", "revoked"}}

\* What the reads of a request have shown so far.
RequestShown ==
  \A r \in Requests :
    /\ request[r].pc \in {"identity", "permission", "handler"} =>
         <<"credential", request[r].using>> \notin unmet[r]
    /\ request[r].pc \in {"permission", "handler"} =>
         <<"enabled", request[r].user>> \notin unmet[r]
    /\ request[r].pc = "handler" /\ Needs[request[r].route] # None =>
         <<"permission", request[r].user, Needs[request[r].route]>> \notin unmet[r]

\* What the reads of a login have shown so far.
LoginShown ==
  \A l \in Logins :
    /\ login[l].pc # "idle" => <<"password", login[l].subject, login[l].password>> \notin unmet[l]
    /\ login[l].pc = "answered" => <<"enabled", login[l].subject>> \notin unmet[l]

IInv == /\ TablesOK /\ TokensOK /\ LoginsOK /\ RequestsOK
        /\ EndedStays /\ RequestShown /\ LoginShown

LEMMA InitHolds == Init => IInv
<1> SUFFICES ASSUME Init PROVE IInv
  OBVIOUS
<1>1. TablesOK
  BY SessionsAssumption DEF Init, TablesOK, UserRow, NoUser
<1>2. TokensOK /\ EndedStays
  BY DEF Init, TokensOK, EndedStays, States
<1>3. LoginsOK /\ LoginShown
  BY DEF Init, LoginsOK, LoginShown, LoginPCs, NoLogin
<1>4. RequestsOK /\ RequestShown
  BY DEF Init, RequestsOK, RequestShown, RequestPCs, NoRequest
<1> QED
  BY <1>1, <1>2, <1>3, <1>4 DEF IInv

-----------------------------------------------------------------------------
(* What a step does to a token, a login and a request                        *)

TokenMoves(t) ==
  \/ token'[t] = token[t]
  \/ /\ token[t].state = "unused"
     /\ \E s \in Subjects : token'[t] = [state |-> "live", user |-> s] /\ users'[s].exists
  \/ /\ token[t].state \in {"live", "expired"}
     /\ \E state \in {"expired", "revoked"} : token'[t] = [token[t] EXCEPT !.state = state]

LoginMoves(l) ==
  \/ login'[l] = login[l]
  \/ login'[l] = NoLogin
  \/ \E s \in Subjects, w \in Passwords : LoginLoad(l, s, w)
  \/ \E t \in Tokens : LoginIssue(l, t)
  \/ LoginIdentity(l)

RequestMoves(r) ==
  \/ request'[r] = request[r]
  \/ request'[r] = NoRequest
  \/ \E b, c \in Credentials \cup {None}, route \in Routes :
       Arrive(r, b, c, route)
  \/ CheckCredential(r) \/ IdentifyUser(r) \/ Authorize(r) \/ TryCookie(r)

LEMMA IssueIs ==
  ASSUME TokensOK, NEW t \in Tokens, NEW s \in Subjects, Issue(t, s), users'[s].exists
  PROVE  /\ token' \in [Tokens -> [state: States, user: Subjects \cup {None}]]
         /\ \A u \in Tokens : TokenMoves(u)
  BY DEF Issue, TokensOK, TokenMoves, States

LEMMA EndIs ==
  ASSUME TokensOK, NEW t \in Tokens, NEW state \in {"expired", "revoked"}, End(t, state),
         token[t].state \in {"live", "expired"}
  PROVE  /\ token' \in [Tokens -> [state: States, user: Subjects \cup {None}]]
         /\ \A u \in Tokens : TokenMoves(u)
  BY DEF End, TokensOK, TokenMoves, States

LEMMA LogoutIs ==
  ASSUME TokensOK, EndedStays, NEW b \in Credentials \cup {None}, NEW c \in Credentials \cup {None},
         Logout(b, c)
  PROVE  /\ token' \in [Tokens -> [state: States, user: Subjects \cup {None}]]
         /\ \A u \in Tokens : TokenMoves(u)
         /\ EndedStays'
<1>1. CASE Revocable(b)
  <2>1. b \in Tokens /\ token[b].state = "live" /\ End(b, "revoked")
    BY <1>1 DEF Logout, Revocable, Live
  <2>2. token'[b].state = "revoked" /\ \A u \in Tokens \ {b} : token'[u] = token[u]
    BY <2>1 DEF End, TokensOK
  <2>3. \A u \in NamedAlone(b, c) : u = b
    BY <2>1, SessionsAssumption DEF NamedAlone
  <2> QED
    BY <2>1, <2>2, <2>3, EndIs DEF Logout, EndedStays
<1>2. CASE ~Revocable(b) /\ Revocable(c)
  <2>1. c \in Tokens /\ token[c].state = "live" /\ End(c, "revoked")
    BY <1>2 DEF Logout, Revocable, Live
  <2>2. token'[c].state = "revoked" /\ \A u \in Tokens \ {c} : token'[u] = token[u]
    BY <2>1 DEF End, TokensOK
  <2>3. \A u \in NamedAlone(b, c) : u = c
    BY <2>1, SessionsAssumption DEF NamedAlone
  <2> QED
    BY <2>1, <2>2, <2>3, EndIs DEF Logout, EndedStays
<1>3. CASE ~Revocable(b) /\ ~Revocable(c)
  <2>1. token' = token
    BY <1>3 DEF Logout
  <2>2. ASSUME NEW u \in NamedAlone(b, c) PROVE token[u].state \in {"expired", "revoked"}
    <3>1. u \in Tokens /\ token[u].state # "unused" /\ (u = b \/ u = c)
      BY SessionsAssumption DEF NamedAlone, Logout
    <3>2. ~Live(u)
      BY <1>3, <3>1 DEF Revocable
    <3> QED
      BY <3>1, <3>2 DEF Live, TokensOK, States
  <2>3. NamedAlone(b, c) \subseteq Tokens
    BY DEF NamedAlone
  <2> QED
    BY <2>1, <2>2, <2>3 DEF Logout, EndedStays, TokensOK, TokenMoves
<1> QED
  BY <1>1, <1>2, <1>3

\* The step of the tables, and how tokens, logins and requests move in it.
Moves ==
  /\ TablesOK' /\ UsersStay
  /\ token' \in [Tokens -> [state: States, user: Subjects \cup {None}]]
  /\ \A t \in Tokens : TokenMoves(t)
  /\ EndedStays'
  /\ login' \in [Logins -> [pc: LoginPCs, subject: Subjects \cup {None},
                            password: Passwords \cup {None}, token: Tokens \cup {None}]]
  /\ \A l \in Logins : LoginMoves(l)
  /\ request' \in [Requests -> [pc: RequestPCs,
                                bearer: Credentials \cup {None}, cookie: Credentials \cup {None},
                                route: Routes \cup {None}, using: Credentials \cup {None},
                                user: Subjects \cup {None}]]
  /\ \A r \in Requests : RequestMoves(r)

LEMMA Unmoved ==
  ASSUME IInv
  PROVE  /\ UNCHANGED tables => TablesOK' /\ UsersStay
         /\ UNCHANGED token =>
              /\ token' \in [Tokens -> [state: States, user: Subjects \cup {None}]]
              /\ \A t \in Tokens : TokenMoves(t)
         /\ UNCHANGED <<token, loggedOut>> => EndedStays'
         /\ UNCHANGED login =>
              /\ login' \in [Logins -> [pc: LoginPCs, subject: Subjects \cup {None},
                                password: Passwords \cup {None}, token: Tokens \cup {None}]]
              /\ \A l \in Logins : LoginMoves(l)
         /\ UNCHANGED request =>
              /\ request' \in [Requests -> [pc: RequestPCs,
                                bearer: Credentials \cup {None}, cookie: Credentials \cup {None},
                                route: Routes \cup {None}, using: Credentials \cup {None},
                                user: Subjects \cup {None}]]
              /\ \A r \in Requests : RequestMoves(r)
<1>1. UNCHANGED tables => TablesOK' /\ UsersStay
  BY DEF IInv, tables, TablesOK, UsersStay
<1>2. UNCHANGED token =>
        /\ token' \in [Tokens -> [state: States, user: Subjects \cup {None}]]
        /\ \A t \in Tokens : TokenMoves(t)
  BY DEF IInv, TokensOK, TokenMoves
<1>3. UNCHANGED <<token, loggedOut>> => EndedStays'
  BY DEF IInv, EndedStays
<1>4. UNCHANGED login =>
        /\ login' \in [Logins -> [pc: LoginPCs, subject: Subjects \cup {None},
                                password: Passwords \cup {None}, token: Tokens \cup {None}]]
        /\ \A l \in Logins : LoginMoves(l)
  BY DEF IInv, LoginsOK, LoginMoves
<1>5. UNCHANGED request =>
        /\ request' \in [Requests -> [pc: RequestPCs,
                                bearer: Credentials \cup {None}, cookie: Credentials \cup {None},
                                route: Routes \cup {None}, using: Credentials \cup {None},
                                user: Subjects \cup {None}]]
        /\ \A r \in Requests : RequestMoves(r)
  BY DEF IInv, RequestsOK, RequestMoves
<1> QED
  BY <1>1, <1>2, <1>3, <1>4, <1>5

\* A token that ended stays ended when tokens move and no logout is answered.
LEMMA EndedKept ==
  ASSUME IInv, \A t \in Tokens : TokenMoves(t), UNCHANGED loggedOut
  PROVE  EndedStays'
<1>1. ASSUME NEW t \in loggedOut PROVE t \in Tokens /\ token'[t].state \in {"expired", "revoked"}
  <2>1. t \in Tokens /\ token[t].state \in {"expired", "revoked"}
    BY DEF IInv, EndedStays
  <2>2. token[t] \in [state: States, user: Subjects \cup {None}]
    BY <2>1 DEF IInv, TokensOK
  <2> QED
    BY <2>1, <2>2 DEF TokenMoves
<1> QED
  BY <1>1 DEF EndedStays

LEMMA AdministrationMoves ==
  ASSUME IInv, Administer \/ Restart
  PROVE  Moves
<1>1. CASE Administer
  <2>1. TablesOK' /\ UsersStay
    BY <1>1, AdministerIs DEF IInv
  <2>2. UNCHANGED <<token, login, request, loggedOut>>
    BY <1>1 DEF Administer
  <2> QED
    BY <2>1, <2>2, Unmoved DEF Moves
<1>2. CASE Restart
  <2>1. /\ TablesOK' /\ UsersStay
        /\ UNCHANGED token \/ \E t \in Tokens : Issue(t, Admin) /\ users'[Admin].exists
    BY <1>2, BootstrapIs DEF IInv, Restart
  <2>2. /\ token' \in [Tokens -> [state: States, user: Subjects \cup {None}]]
        /\ \A t \in Tokens : TokenMoves(t)
    BY <2>1, Unmoved, IssueIs, SessionsAssumption DEF IInv
  <2>3. EndedStays'
    BY <1>2, <2>2, EndedKept DEF Restart
  <2>4. /\ login' \in [Logins -> [pc: LoginPCs, subject: Subjects \cup {None},
                                password: Passwords \cup {None}, token: Tokens \cup {None}]]
        /\ \A l \in Logins : LoginMoves(l)
    BY <1>2 DEF Restart, NoLogin, LoginPCs, LoginMoves
  <2>5. /\ request' \in [Requests -> [pc: RequestPCs,
                                bearer: Credentials \cup {None}, cookie: Credentials \cup {None},
                                route: Routes \cup {None}, using: Credentials \cup {None},
                                user: Subjects \cup {None}]]
        /\ \A r \in Requests : RequestMoves(r)
    BY <1>2 DEF Restart, NoRequest, RequestPCs, RequestMoves
  <2> QED
    BY <2>1, <2>2, <2>3, <2>4, <2>5 DEF Moves
<1> QED
  BY <1>1, <1>2

LEMMA LoginStepMoves ==
  ASSUME IInv, NEW l \in Logins,
         \/ \E s \in Subjects, w \in Passwords : LoginLoad(l, s, w)
         \/ \E t \in Tokens : LoginIssue(l, t)
         \/ LoginIdentity(l) \/ LoginEnds(l)
  PROVE  Moves
<1>1. UNCHANGED <<tables, request, loggedOut>>
  BY DEF LoginLoad, LoginIssue, LoginIdentity, LoginEnds
<1>2. /\ token' \in [Tokens -> [state: States, user: Subjects \cup {None}]]
      /\ \A t \in Tokens : TokenMoves(t)
  <2>1. ASSUME NEW t \in Tokens, LoginIssue(l, t)
        PROVE  /\ token' \in [Tokens -> [state: States, user: Subjects \cup {None}]]
               /\ \A u \in Tokens : TokenMoves(u)
    <3>1. login[l].subject \in Subjects /\ users[login[l].subject].exists
      BY <2>1 DEF LoginIssue, IInv, LoginsOK
    <3>2. users'[login[l].subject].exists
      BY <3>1, <1>1 DEF tables
    <3> QED
      BY <2>1, <3>1, <3>2, IssueIs DEF LoginIssue, IInv
  <2>2. CASE UNCHANGED token
    BY <2>2, Unmoved
  <2> QED
    BY <2>1, <2>2 DEF LoginLoad, LoginIdentity, LoginEnds
<1>3. /\ login' \in [Logins -> [pc: LoginPCs, subject: Subjects \cup {None},
                               password: Passwords \cup {None}, token: Tokens \cup {None}]]
      /\ \A k \in Logins \ {l} : login'[k] = login[k]
      /\ LoginEnds(l) => login'[l] = NoLogin
  <2>1. LoginsOK /\ NoLogin \in [pc: LoginPCs, subject: Subjects \cup {None},
                                 password: Passwords \cup {None}, token: Tokens \cup {None}]
    BY DEF IInv, NoLogin, LoginPCs
  <2>2. ASSUME NEW s \in Subjects, NEW w \in Passwords, LoginLoad(l, s, w)
        PROVE  \E x \in [pc: LoginPCs, subject: Subjects \cup {None},
                         password: Passwords \cup {None}, token: Tokens \cup {None}] :
                 login' = [login EXCEPT ![l] = x]
    <3> DEFINE x == [NoLogin EXCEPT !.pc = "issue", !.subject = s, !.password = w]
    <3>1. x \in [pc: LoginPCs, subject: Subjects \cup {None},
                password: Passwords \cup {None}, token: Tokens \cup {None}]
      BY DEF NoLogin, LoginPCs
    <3> QED
      BY <2>2, <3>1 DEF LoginLoad
  <2>3. ASSUME NEW t \in Tokens, LoginIssue(l, t)
        PROVE  \E x \in [pc: LoginPCs, subject: Subjects \cup {None},
                         password: Passwords \cup {None}, token: Tokens \cup {None}] :
                 login' = [login EXCEPT ![l] = x]
    <3> DEFINE x == [login[l] EXCEPT !.pc = "identity", !.token = t]
    <3>1. x \in [pc: LoginPCs, subject: Subjects \cup {None},
                password: Passwords \cup {None}, token: Tokens \cup {None}]
      BY <2>1 DEF LoginsOK, LoginPCs
    <3> QED
      BY <2>3, <3>1 DEF LoginIssue
  <2>4. CASE LoginIdentity(l)
    BY <2>1, <2>4 DEF LoginsOK, LoginPCs, LoginIdentity, LoginEnds
  <2>5. CASE LoginEnds(l)
    BY <2>1, <2>5 DEF LoginsOK, LoginEnds
  <2>6. LoginEnds(l) => login'[l] = NoLogin
    BY <2>1 DEF LoginsOK, LoginEnds
  <2> QED
    BY <2>1, <2>2, <2>3, <2>4, <2>5, <2>6 DEF LoginsOK
<1>4. \A k \in Logins : LoginMoves(k)
  BY <1>3 DEF LoginMoves
<1> QED
  BY <1>1, <1>2, <1>3, <1>4, Unmoved, EndedKept DEF Moves

LEMMA TokenStepMoves ==
  ASSUME IInv,
         \/ \E t \in Tokens : Expire(t) \/ RevokeToken(t)
         \/ \E b, c \in Credentials \cup {None} : Logout(b, c)
  PROVE  Moves
<1>1. UNCHANGED <<tables, login, request>>
  BY DEF Expire, RevokeToken, Logout
<1>2. CASE \E t \in Tokens : Expire(t) \/ RevokeToken(t)
  <2>1. /\ token' \in [Tokens -> [state: States, user: Subjects \cup {None}]]
        /\ \A t \in Tokens : TokenMoves(t)
    BY <1>2, EndIs DEF IInv, Expire, RevokeToken, Live
  <2>2. EndedStays'
    BY <1>2, <2>1, EndedKept DEF Expire, RevokeToken
  <2> QED
    BY <1>1, <2>1, <2>2, Unmoved DEF Moves
<1>3. CASE \E b, c \in Credentials \cup {None} : Logout(b, c)
  BY <1>1, <1>3, LogoutIs, Unmoved DEF Moves, IInv
<1> QED
  BY <1>2, <1>3

LEMMA RequestStepMoves ==
  ASSUME IInv, NEW r \in Requests,
         \/ \E b, c \in Credentials \cup {None}, route \in Routes :
              Arrive(r, b, c, route)
         \/ CheckCredential(r) \/ IdentifyUser(r) \/ Authorize(r) \/ TryCookie(r)
         \/ RequestEnds(r)
  PROVE  Moves
<1>1. UNCHANGED <<tables, token, login, loggedOut>>
  BY DEF Arrive, CheckCredential, IdentifyUser, Authorize, TryCookie, RequestEnds
<1> DEFINE Type == [pc: RequestPCs, bearer: Credentials \cup {None}, cookie: Credentials \cup {None},
                    route: Routes \cup {None}, using: Credentials \cup {None},
                    user: Subjects \cup {None}]
<1>2. request \in [Requests -> Type]
  BY DEF IInv, RequestsOK
<1>3. /\ request' \in [Requests -> Type]
      /\ \A k \in Requests \ {r} : request'[k] = request[k]
      /\ RequestEnds(r) => request'[r] = NoRequest
  <2>1. NoRequest \in Type /\ Tokens \subseteq Credentials
    BY DEF NoRequest, RequestPCs, Credentials
  <2>2. ASSUME NEW b \in Credentials \cup {None}, NEW c \in Credentials \cup {None}, NEW route \in Routes,
               Arrive(r, b, c, route)
        PROVE  \E x \in Type : request' = [request EXCEPT ![r] = x]
    <3> DEFINE x == [NoRequest EXCEPT !.pc = "token", !.bearer = b, !.cookie = c, !.route = route,
                                     !.using = IF b # None THEN b ELSE c]
    <3>1. x \in Type
      BY <2>1 DEF NoRequest, RequestPCs
    <3>2. request' = [request EXCEPT ![r] = x]
      BY <2>2 DEF Arrive
    <3> QED
      BY <3>1, <3>2
  <2>3. CASE CheckCredential(r)
    <3>1. request[r].using \in Credentials
      BY <2>3 DEF CheckCredential, IInv, RequestsOK
    <3>2. (IF request[r].using \in Tokens THEN token[request[r].using].user
           ELSE request[r].using) \in Subjects \cup {None}
      BY <3>1 DEF Credentials, IInv, TokensOK
    <3> QED
      BY <1>2, <2>3, <3>2 DEF CheckCredential, RequestEnds, RequestPCs
  <2>4. CASE IdentifyUser(r) \/ Authorize(r)
    BY <1>2, <2>4 DEF IdentifyUser, Authorize, RequestEnds, RequestPCs
  <2>5. CASE TryCookie(r)
    BY <1>2, <2>1, <2>5 DEF TryCookie, RequestEnds, RequestPCs
  <2>6. CASE RequestEnds(r)
    BY <1>2, <2>1, <2>6 DEF RequestEnds
  <2>7. RequestEnds(r) => request'[r] = NoRequest
    BY <1>2 DEF RequestEnds
  <2> QED
    BY <1>2, <2>2, <2>3, <2>4, <2>5, <2>6, <2>7
<1>4. \A k \in Requests : RequestMoves(k)
  BY <1>3 DEF RequestMoves
<1> HIDE DEF Type
<1>5. request' \in [Requests -> [pc: RequestPCs, bearer: Credentials \cup {None},
                                cookie: Credentials \cup {None}, route: Routes \cup {None},
                                using: Credentials \cup {None}, user: Subjects \cup {None}]]
  BY <1>3 DEF Type
<1> QED
  BY <1>1, <1>4, <1>5, Unmoved DEF Moves

LEMMA StepMoves == ASSUME IInv, Step PROVE Moves
  BY AdministrationMoves, LoginStepMoves, TokenStepMoves, RequestStepMoves DEF Step

-----------------------------------------------------------------------------
(* What a read shows does not become unmet                                   *)

\* What holds is not observed as unmet.
Facts ==
  /\ \A c \in Credentials : Accepts(c) => <<"credential", c>> \notin Dead \cup Disabled \cup Denied
  /\ \A s \in Subjects : Enabled(s) => <<"enabled", s>> \notin Dead \cup Disabled \cup Denied \cup Wrong
  /\ \A s \in Subjects, p \in Wanted :
       May(s, p) => <<"permission", s, p>> \notin Dead \cup Disabled \cup Denied
  /\ \A s \in Subjects, w \in Passwords :
       users[s].password = w => <<"password", s, w>> \notin Wrong
  /\ \A s \in Subjects, w \in Passwords : <<"password", s, w>> \notin Disabled

LEMMA FactsHold == Facts
<1>1. /\ \A f \in Dead : f[1] = "credential"
      /\ \A f \in Disabled : f[1] = "enabled"
      /\ \A f \in Denied : f[1] = "permission"
      /\ \A f \in Wrong : f[1] = "password"
  BY DEF Dead, Disabled, Denied, Wrong
<1>2. ASSUME NEW c \in Credentials, Accepts(c) PROVE <<"credential", c>> \notin Dead
  BY <1>2, SessionsAssumption DEF Dead, Accepts, Credentials
<1>3. ASSUME NEW s \in Subjects, Enabled(s) PROVE <<"enabled", s>> \notin Disabled
  BY <1>3 DEF Disabled
<1>4. ASSUME NEW s \in Subjects, NEW p \in Wanted, May(s, p) PROVE <<"permission", s, p>> \notin Denied
  <2>1. SUFFICES ASSUME NEW x \in {y \in Subjects \X Wanted : ~May(y[1], y[2])},
                        <<"permission", s, p>> = <<"permission", x[1], x[2]>>
                 PROVE  FALSE
    BY DEF Denied
  <2>2. s = x[1] /\ p = x[2]
    BY <2>1
  <2> QED
    BY <1>4, <2>1, <2>2
<1>5. ASSUME NEW s \in Subjects, NEW w \in Passwords, users[s].password = w
      PROVE  <<"password", s, w>> \notin Wrong
  BY <1>5 DEF Wrong
<1>6. \A a, b : /\ <<a, b>>[1] = a
                /\ \A c : <<a, b, c>>[1] = a
  OBVIOUS
<1> QED
  BY <1>1, <1>2, <1>3, <1>4, <1>5, <1>6 DEF Facts

LEMMA FactsHoldNext == Facts'
  BY FactsHold, PTL

-----------------------------------------------------------------------------
(* The step                                                                  *)

LEMMA TokensStep ==
  ASSUME IInv, Moves
  PROVE  TokensOK'
<1>1. ASSUME NEW t \in Tokens, token'[t].state # "unused"
      PROVE  token'[t].user \in Subjects /\ users'[token'[t].user].exists
  <2>1. token[t] \in [state: States, user: Subjects \cup {None}]
        /\ (token[t].state # "unused" => token[t].user \in Subjects /\ users[token[t].user].exists)
    BY DEF IInv, TokensOK
  <2>2. TokenMoves(t) /\ UsersStay
    BY DEF Moves
  <2>3. CASE token'[t] = token[t]
    BY <1>1, <2>1, <2>2, <2>3 DEF UsersStay
  <2>4. ASSUME NEW s \in Subjects, token'[t] = [state |-> "live", user |-> s], users'[s].exists
        PROVE  token'[t].user \in Subjects /\ users'[token'[t].user].exists
    BY <2>4
  <2>5. ASSUME NEW state, token'[t] = [token[t] EXCEPT !.state = state],
               token[t].state \in {"live", "expired"}
        PROVE  token'[t].user \in Subjects /\ users'[token'[t].user].exists
    <3>1. token'[t].user = token[t].user
      BY <2>1, <2>5
    <3> QED
      BY <2>1, <2>2, <2>5, <3>1 DEF UsersStay
  <2> QED
    BY <2>2, <2>3, <2>4, <2>5 DEF TokenMoves
<1> QED
  BY <1>1 DEF Moves, TokensOK

LEMMA LoginsStep ==
  ASSUME IInv, Moves
  PROVE  LoginsOK'
<1>1. ASSUME NEW l \in Logins, login'[l].pc # "idle"
      PROVE  /\ login'[l].subject \in Subjects /\ users'[login'[l].subject].exists
             /\ login'[l].password \in Passwords
  <2>1. /\ login \in [Logins -> [pc: LoginPCs, subject: Subjects \cup {None},
                                 password: Passwords \cup {None}, token: Tokens \cup {None}]]
        /\ login[l].pc # "idle" => /\ login[l].subject \in Subjects
                                   /\ users[login[l].subject].exists
                                   /\ login[l].password \in Passwords
        /\ LoginMoves(l) /\ UsersStay
    BY DEF IInv, LoginsOK, Moves
  <2>2. CASE login'[l] = login[l] \/ login'[l] = NoLogin
    BY <1>1, <2>1, <2>2 DEF UsersStay, NoLogin
  <2>3. ASSUME NEW s \in Subjects, NEW w \in Passwords, LoginLoad(l, s, w)
        PROVE  /\ login'[l].subject \in Subjects /\ users'[login'[l].subject].exists
               /\ login'[l].password \in Passwords
    <3>1. login'[l] = [NoLogin EXCEPT !.pc = "issue", !.subject = s, !.password = w]
      BY <2>1, <2>3 DEF LoginLoad
    <3>2. users'[s].exists
      BY <2>1, <2>3 DEF LoginLoad, Enabled, UsersStay
    <3> QED
      BY <3>1, <3>2 DEF NoLogin
  <2>4. CASE (\E t \in Tokens : LoginIssue(l, t)) \/ LoginIdentity(l)
    BY <2>1, <2>4 DEF LoginIssue, LoginIdentity, UsersStay
  <2> QED
    BY <2>1, <2>2, <2>3, <2>4 DEF LoginMoves
<1> QED
  BY <1>1 DEF Moves, LoginsOK

LEMMA RequestsStep ==
  ASSUME IInv, Moves
  PROVE  RequestsOK'
<1>1. ASSUME NEW r \in Requests
      PROVE  /\ request'[r].pc # "idle" =>
                  request'[r].using \in Credentials /\ request'[r].route \in Routes
             /\ request'[r].pc \in {"identity", "permission", "handler"} =>
                  request'[r].user \in Subjects
  <2>1. /\ RequestsOK /\ TokensOK /\ RequestMoves(r) /\ Tokens \subseteq Credentials
        /\ request[r].pc # "idle" => request[r].using \in Credentials /\ request[r].route \in Routes
    BY DEF IInv, Moves, Credentials, RequestsOK
  <2>2. CASE request'[r] = request[r] \/ request'[r] = NoRequest
    BY <2>1, <2>2 DEF RequestsOK, NoRequest
  <2>3. ASSUME NEW b \in Credentials \cup {None}, NEW c \in Credentials \cup {None}, NEW route \in Routes,
               Arrive(r, b, c, route)
        PROVE  /\ request'[r].using \in Credentials /\ request'[r].route \in Routes
               /\ request'[r].pc = "token"
    <3>1. (IF b # None THEN b ELSE c) \in Credentials
      BY <2>1, <2>3 DEF Arrive
    <3>2. request'[r] = [NoRequest EXCEPT !.pc = "token", !.bearer = b, !.cookie = c,
                           !.route = route, !.using = IF b # None THEN b ELSE c]
      BY <2>1, <2>3 DEF Arrive, RequestsOK
    <3> QED
      BY <3>1, <3>2, <2>3 DEF NoRequest
  <2>4. CASE CheckCredential(r)
    <3>1. (IF request[r].using \in Tokens THEN token[request[r].using].user
           ELSE request[r].using) \in Subjects
      BY <2>1, <2>4 DEF CheckCredential, Accepts, Live, TokensOK, Credentials
    <3> QED
      BY <2>1, <2>4, <3>1 DEF CheckCredential, RequestsOK
  <2>5. CASE IdentifyUser(r) \/ Authorize(r)
    BY <2>1, <2>5 DEF IdentifyUser, Authorize, RequestsOK
  <2>6. CASE TryCookie(r)
    BY <2>1, <2>6 DEF TryCookie, RequestsOK
  <2> QED
    BY <2>1, <2>2, <2>3, <2>4, <2>5, <2>6 DEF RequestMoves
<1> QED
  BY <1>1 DEF Moves, RequestsOK

\* While a request or a login is served, unmet only shrinks, but for the facts
\* about a login's user that start with its token.
LEMMA UnmetOfRequest ==
  ASSUME Observe, NEW r \in Requests, request[r].pc # "idle", request'[r].pc # "idle"
  PROVE  unmet'[r] = unmet[r] \cap (Dead \cup Disabled \cup Denied)'
  BY DEF Observe

LEMMA UnmetOfLogin ==
  ASSUME Observe, NEW l \in Logins, login'[l].pc # "idle"
  PROVE  /\ login[l].pc = "idle" => unmet'[l] = Wrong'
         /\ login[l].pc = "issue" => unmet'[l] = (unmet[l] \cap Wrong') \cup Disabled'
         /\ login[l].pc \notin {"idle", "issue"} =>
              unmet'[l] = unmet[l] \cap (Wrong \cup Disabled)'
  BY SessionsAssumption DEF Observe

LEMMA RequestShownStep ==
  ASSUME IInv, Moves, Observe
  PROVE  RequestShown'
<1> DEFINE Shown(r) ==
      /\ request[r].pc \in {"identity", "permission", "handler"} =>
           <<"credential", request[r].using>> \notin unmet[r]
      /\ request[r].pc \in {"permission", "handler"} =>
           <<"enabled", request[r].user>> \notin unmet[r]
      /\ request[r].pc = "handler" /\ Needs[request[r].route] # None =>
           <<"permission", request[r].user, Needs[request[r].route]>> \notin unmet[r]
<1>1. SUFFICES ASSUME NEW r \in Requests PROVE Shown(r)'
  BY DEF RequestShown
<1>2. /\ Shown(r) /\ RequestsOK /\ RequestMoves(r)
      /\ request[r].pc # "idle" => request[r].using \in Credentials /\ request[r].route \in Routes
      /\ request[r].pc \in {"identity", "permission", "handler"} => request[r].user \in Subjects
  BY DEF IInv, RequestShown, RequestsOK, Moves
<1>3. request[r].pc # "idle" /\ request'[r].pc # "idle" =>
        unmet'[r] = unmet[r] \cap (Dead \cup Disabled \cup Denied)'
  BY UnmetOfRequest
<1>4. CASE request'[r] = request[r]
  BY <1>2, <1>3, <1>4
<1>5. CASE request'[r].pc \in {"idle", "token"}
  BY <1>5
<1>6. CASE CheckCredential(r)
  <2>1. /\ request[r].pc = "token" /\ request'[r].pc = "identity"
        /\ request'[r].using = request[r].using
    BY <1>2, <1>6 DEF CheckCredential, RequestsOK
  <2>2. Accepts(request[r].using)'
    BY <1>6, <2>1 DEF CheckCredential, Accepts, Live, Enabled, tables
  <2>3. <<"credential", request'[r].using>> \notin (Dead \cup Disabled \cup Denied)'
    BY <1>2, <2>1, <2>2, FactsHoldNext DEF Facts
  <2> QED
    BY <1>3, <2>1, <2>3
<1>7. CASE IdentifyUser(r)
  <2>1. /\ request[r].pc = "identity" /\ request'[r].pc = "permission"
        /\ request'[r].using = request[r].using /\ request'[r].user = request[r].user
    BY <1>2, <1>7 DEF IdentifyUser, RequestsOK
  <2>2. Enabled(request[r].user)'
    BY <1>7, <2>1 DEF IdentifyUser, Identifies, Enabled, tables
  <2>3. <<"enabled", request'[r].user>> \notin (Dead \cup Disabled \cup Denied)'
    BY <1>2, <2>1, <2>2, FactsHoldNext DEF Facts
  <2> QED
    BY <1>2, <1>3, <2>1, <2>3
<1>8. CASE Authorize(r)
  <2>1. /\ request[r].pc = "permission" /\ request'[r].pc = "handler"
        /\ request'[r].using = request[r].using /\ request'[r].user = request[r].user
        /\ request'[r].route = request[r].route
    BY <1>2, <1>8 DEF Authorize, RequestsOK
  <2> DEFINE need == Needs[request[r].route]
  <2>2. ASSUME need # None
        PROVE  <<"permission", request[r].user, need>> \notin (Dead \cup Disabled \cup Denied)'
    <3>1. need \in Wanted /\ Wanted' = Wanted
      BY <1>2, <2>1, <2>2 DEF Wanted
    <3>2. May(request[r].user, need)
      BY <1>8, <2>2 DEF Authorize, Need
    <3>3. UNCHANGED <<userRoles, rolePerms>>
      BY <1>8 DEF Authorize, tables
    <3>4. May(request[r].user, need)'
      BY <2>1, <3>2, <3>3 DEF May, Granted
    <3> QED
      BY <1>2, <2>1, <3>1, <3>4, FactsHoldNext DEF Facts
  <2> QED
    BY <1>2, <1>3, <2>1, <2>2
<1> QED
  <2>1. CASE request'[r] = NoRequest
    BY <1>5, <2>1 DEF NoRequest
  <2>2. ASSUME NEW b \in Credentials \cup {None}, NEW c \in Credentials \cup {None}, NEW route \in Routes,
               Arrive(r, b, c, route)
        PROVE  request'[r].pc = "token"
    <3>1. request'[r] = [NoRequest EXCEPT !.pc = "token", !.bearer = b, !.cookie = c,
                           !.route = route, !.using = IF b # None THEN b ELSE c]
      BY <1>2, <2>2 DEF Arrive, RequestsOK
    <3> QED
      BY <3>1 DEF NoRequest
  <2>3. TryCookie(r) => request'[r].pc = "token"
    BY <1>2 DEF TryCookie, RequestsOK
  <2> QED
    BY <1>2, <1>4, <1>5, <1>6, <1>7, <1>8, <2>1, <2>2, <2>3 DEF RequestMoves

LEMMA LoginShownStep ==
  ASSUME IInv, Moves, Observe
  PROVE  LoginShown'
<1> DEFINE Shown(l) ==
      /\ login[l].pc # "idle" =>
           <<"password", login[l].subject, login[l].password>> \notin unmet[l]
      /\ login[l].pc = "answered" => <<"enabled", login[l].subject>> \notin unmet[l]
<1>1. SUFFICES ASSUME NEW l \in Logins PROVE Shown(l)'
  BY DEF LoginShown
<1>2. /\ Shown(l) /\ LoginsOK /\ LoginMoves(l)
      /\ login[l].pc # "idle" => login[l].subject \in Subjects /\ login[l].password \in Passwords
  BY DEF IInv, LoginShown, LoginsOK, Moves
<1>3. login'[l].pc # "idle" =>
        /\ login[l].pc = "idle" => unmet'[l] = Wrong'
        /\ login[l].pc = "issue" => unmet'[l] = (unmet[l] \cap Wrong') \cup Disabled'
        /\ login[l].pc \notin {"idle", "issue"} =>
             unmet'[l] = unmet[l] \cap (Wrong \cup Disabled)'
  BY UnmetOfLogin
<1>4. login[l].pc # "idle" => <<"password", login[l].subject, login[l].password>> \notin Disabled'
  BY <1>2, FactsHoldNext DEF Facts
<1>5. CASE login'[l] = login[l]
  BY <1>2, <1>3, <1>4, <1>5
<1>6. CASE login'[l] = NoLogin
  BY <1>6 DEF NoLogin
<1>7. ASSUME NEW s \in Subjects, NEW w \in Passwords, LoginLoad(l, s, w)
      PROVE  Shown(l)'
  <2>1. login'[l] = [NoLogin EXCEPT !.pc = "issue", !.subject = s, !.password = w]
    BY <1>2, <1>7 DEF LoginLoad, LoginsOK
  <2>2. login'[l].pc = "issue" /\ login'[l].subject = s /\ login'[l].password = w
    BY <2>1 DEF NoLogin
  <2>3. login[l].pc = "idle" /\ users'[s].password = w
    BY <1>7 DEF LoginLoad, tables
  <2>4. <<"password", s, w>> \notin Wrong'
    BY <2>3, FactsHoldNext DEF Facts
  <2> QED
    BY <1>3, <2>2, <2>3, <2>4
<1>8. ASSUME NEW t \in Tokens, LoginIssue(l, t)
      PROVE  Shown(l)'
  <2>1. /\ login[l].pc = "issue" /\ login'[l].pc = "identity"
        /\ login'[l].subject = login[l].subject /\ login'[l].password = login[l].password
    BY <1>2, <1>8 DEF LoginIssue, LoginsOK
  <2> QED
    BY <1>2, <1>3, <1>4, <2>1
<1>9. CASE LoginIdentity(l)
  <2>1. /\ login[l].pc = "identity" /\ login'[l].pc = "answered"
        /\ login'[l].subject = login[l].subject /\ login'[l].password = login[l].password
    BY <1>2, <1>9 DEF LoginIdentity, LoginsOK
  <2>2. Enabled(login[l].subject)'
    BY <1>9, <2>1 DEF LoginIdentity, Identifies, Enabled, tables
  <2>3. <<"enabled", login[l].subject>> \notin (Wrong \cup Disabled)'
    BY <1>2, <2>1, <2>2, FactsHoldNext DEF Facts
  <2> QED
    BY <1>2, <1>3, <2>1, <2>3
<1> QED
  BY <1>2, <1>5, <1>6, <1>7, <1>8, <1>9 DEF LoginMoves

LEMMA NextStep == IInv /\ [Next]_vars => IInv'
<1> SUFFICES ASSUME IInv, [Next]_vars PROVE IInv'
  OBVIOUS
<1>1. CASE Next
  <2>1. Moves /\ Observe
    BY <1>1, StepMoves DEF Next
  <2> QED
    BY <2>1, TokensStep, LoginsStep, RequestsStep, RequestShownStep, LoginShownStep
       DEF IInv, Moves
<1>2. CASE UNCHANGED vars
  BY <1>2 DEF vars, tables, IInv, TablesOK, TokensOK, LoginsOK, RequestsOK, EndedStays,
              RequestShown, LoginShown
<1> QED
  BY <1>1, <1>2

-----------------------------------------------------------------------------
(* The theorems                                                              *)

LEMMA Invariant == Spec => []IInv
<1>1. Init => IInv
  BY InitHolds
<1>2. IInv /\ [Next]_vars => IInv'
  BY NextStep
<1> QED
  BY <1>1, <1>2, PTL DEF Spec

\* Tables, tokens and calls keep their types, for any users, roles, permissions
\* and calls; only administration and restarts count as changes.
THEOREM TypeCorrect == Spec => []TypeOK
<1> DEFINE Counted == changes \in 0 .. MaxChanges
<1>1. Init => Counted
  BY SessionsAssumption DEF Init
<1>2. Counted /\ [Next]_vars => Counted'
  <2> SUFFICES ASSUME Counted, [Next]_vars PROVE Counted'
    OBVIOUS
  <2>1. CASE Administer \/ Restart
    <3>1. changes < MaxChanges /\ changes' = changes + 1
      BY <2>1 DEF Administer, Restart
    <3> QED
      BY <3>1, SessionsAssumption
  <2>2. CASE Next /\ ~(Administer \/ Restart)
    <3>1. changes' = changes
      BY <2>2 DEF Next, Step, LoginLoad, LoginIssue, LoginIdentity, LoginEnds, Expire,
             RevokeToken, Logout, Arrive, CheckCredential, IdentifyUser, Authorize,
             TryCookie, RequestEnds
    <3> QED
      BY <3>1
  <2>3. CASE UNCHANGED vars
    BY <2>3 DEF vars
  <2> QED
    BY <2>1, <2>2, <2>3
<1>3. IInv /\ Counted => TypeOK
  BY DEF IInv, TablesOK, TokensOK, LoginsOK, RequestsOK, EndedStays, TypeOK, UserRow,
         States, LoginPCs, RequestPCs
<1> QED
  BY <1>1, <1>2, <1>3, Invariant, PTL DEF Spec

\* Whatever administration, starts of the server and logins interleave, every
\* assigned role and permission exists, and so does the user of every token.
THEOREM LinksStayConnected == Spec => []LinksAreConnected
<1>1. IInv => LinksAreConnected
  BY DEF IInv, TablesOK, TokensOK, LinksAreConnected
<1> QED
  BY <1>1, Invariant, PTL

\* A token whose logout was answered is dead for good.
THEOREM LoggedOutStaysDead == Spec => []LoggedOutIsDead
<1>1. IInv => LoggedOutIsDead
  BY DEF IInv, EndedStays, LoggedOutIsDead, Live
<1> QED
  BY <1>1, Invariant, PTL

\* The handler of a request runs only after its credential was good, its user
\* enabled and the permission granted, each while the request was served.
THEOREM HandlersAreEntitled == Spec => []HandledIsEntitled
<1>1. IInv => HandledIsEntitled
  BY DEF IInv, RequestShown, HandledIsEntitled
<1> QED
  BY <1>1, Invariant, PTL

\* A login is answered with a token only after its password was right, and its
\* user enabled after the token was stored.
THEOREM LoginsAreEntitled == Spec => []LoginIsEntitled
<1>1. IInv => LoginIsEntitled
  BY DEF IInv, LoginShown, LoginIsEntitled
<1> QED
  BY <1>1, Invariant, PTL
=============================================================================
