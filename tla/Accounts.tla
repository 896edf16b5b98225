------------------------------ MODULE Accounts ------------------------------
(***************************************************************************)
(* Users and tokens: the user administration of api/routers/admin_router,  *)
(* the login and refresh endpoints of api/routers/auth_router, the         *)
(* stateless tokens of core/security/jwt_service and the permission check  *)
(* of api/deps/auth.  No handler awaits anything but its dependencies, so  *)
(* each is one step.  A refused request (401, 403, 404, 409) changes       *)
(* nothing and is a stuttering step; so are the endpoints that only read.  *)
(***************************************************************************)
EXTENDS Naturals, FiniteSets

CONSTANTS UserIds,          \* the UUIDs uuid4 will return, each once
          AdminId,          \* the fixed id of the administrator of the settings
          ADMIN_USERNAME, ADMIN_PASSWORD,
          Usernames, Passwords,
          TempPassword,     \* what reset_user_password generates
          PermissionLists,  \* the values of "permissions" in requests
          NoUser,
          ACCESS_TTL, REFRESH_TTL,
          MaxTokens,        \* bound: tokens that clients hold at once
          MaxClock          \* bound: the clock stops here

(* A permission is its area and its action; "*" is the wildcard. *)
Read(area) == <<area, "read">>
Write(area) == <<area, "write">>
All(area) == <<area, "*">>

DefaultPermissions == {Read("eval"), Read("workflow")}
AdminPermissions == {All("admin"), All("eval"), All("workflow")}

(* A user's e-mail, is_active, tenant and the reset marks are only shown by
   the administration API; no code decides by them. *)
User == [username : Usernames, password : Passwords \cup {TempPassword},
         permissions : PermissionLists \cup {DefaultPermissions}]

Token == [sub : UserIds \cup {AdminId}, type : {"access", "refresh"}, exp : Nat,
          permissions : PermissionLists \cup {DefaultPermissions, AdminPermissions, {}}]

ASSUME AccountAssumption ==
    /\ NoUser \notin User
    /\ AdminId \notin UserIds
    /\ ACCESS_TTL \in Nat \ {0} /\ REFRESH_TTL \in Nat \ {0}
    /\ MaxTokens \in Nat /\ MaxClock \in Nat

VARIABLES users,    \* _users: id -> User, or NoUser
          created,  \* the ids uuid4 has returned
          tokens,   \* the tokens that clients hold
          clock

accVars == <<users, created, tokens, clock>>

AccTypeOK ==
    /\ users \in [UserIds -> User \cup {NoUser}]
    /\ created \subseteq UserIds
    /\ tokens \subseteq Token
    /\ clock \in 0..MaxClock

AccInit ==
    /\ users = [id \in UserIds |-> NoUser]
    /\ created = {}
    /\ tokens = {}
    /\ clock = 0

-----------------------------------------------------------------------------
(* jwt_service. *)
create_access_token(id, permissions) ==
    [sub |-> id, type |-> "access", exp |-> clock + ACCESS_TTL, permissions |-> permissions]

(* Mutant: a refresh token carries the claims of the access token. *)
RefreshTokenWithClaims(id) ==
    [sub |-> id, type |-> "refresh", exp |-> clock + REFRESH_TTL,
     permissions |-> AdminPermissions]

create_refresh_token(id) ==
    [sub |-> id, type |-> "refresh", exp |-> clock + REFRESH_TTL, permissions |-> {}]

(* The signature is good and the token has not expired. *)
decode_token(t) == t.exp > clock

(* Mutant: any token can be exchanged. *)
VerifyAnyToken(t) == decode_token(t)

verify_refresh_token(t) == decode_token(t) /\ t.type = "refresh"

(* deps/auth: has_permission with its wildcards; get_current_user takes the
   permissions of any token that decodes, whatever its type. *)
has_permission(permissions, p) == p \in permissions \/ All(p[1]) \in permissions

require_permissions(p) ==
    \E t \in tokens : decode_token(t) /\ has_permission(t.permissions, p)

-----------------------------------------------------------------------------
(* auth_router. *)
Matches(name, password) ==
    {id \in UserIds : users[id] # NoUser /\ users[id].username = name
                                         /\ users[id].password = password}

(* The administrator of the settings comes before the users of the store. *)
authenticate_user(name, password) ==
    IF name = ADMIN_USERNAME /\ password = ADMIN_PASSWORD
    THEN {[id |-> AdminId, permissions |-> AdminPermissions]}
    ELSE {[id |-> id, permissions |-> users[id].permissions] : id \in Matches(name, password)}

Issue(id, permissions) ==
    /\ Cardinality(tokens) + 2 <= MaxTokens
    /\ tokens' = tokens \cup {create_access_token(id, permissions), create_refresh_token(id)}
    /\ UNCHANGED <<users, created, clock>>

(* login and get_token. *)
login(name, password) ==
    \E user \in authenticate_user(name, password) : Issue(user.id, user.permissions)

(* The new access token carries fixed claims, not those of the user. *)
refresh_token(t) == verify_refresh_token(t) /\ Issue(t.sub, AdminPermissions)

(* logout: the server keeps nothing, the client discards the token; it may
   do so at any time. *)
logout(t) ==
    /\ tokens' = tokens \ {t}
    /\ UNCHANGED <<users, created, clock>>

-----------------------------------------------------------------------------
(* admin_router: every change of the store requires admin:write. *)
Change(id, user) ==
    /\ require_permissions(Write("admin"))
    /\ users' = [users EXCEPT ![id] = user]
    /\ UNCHANGED <<tokens, clock>>

Taken(name) == \E id \in UserIds : users[id] # NoUser /\ users[id].username = name

OrDefault(permissions) == IF permissions = {} THEN DefaultPermissions ELSE permissions

(* Mutant: the name is not looked up before the user is stored. *)
CreateUnchecked(id, name, password, permissions) ==
    /\ id \notin created
    /\ Change(id, [username |-> name, password |-> password,
                   permissions |-> OrDefault(permissions)])
    /\ created' = created \cup {id}

create_user(id, name, password, permissions) ==
    /\ id \notin created
    /\ ~Taken(name)
    /\ Change(id, [username |-> name, password |-> password,
                   permissions |-> OrDefault(permissions)])
    /\ created' = created \cup {id}

(* update_user: a field that is None stays as it is; permissions may become
   empty.  The name cannot be changed. *)
update_user(id, password, permissions) ==
    /\ users[id] # NoUser
    /\ Change(id, [users[id] EXCEPT !.password = password, !.permissions = permissions])
    /\ UNCHANGED created

reset_user_password(id) ==
    /\ users[id] # NoUser
    /\ Change(id, [users[id] EXCEPT !.password = TempPassword])
    /\ UNCHANGED created

delete_user(id) ==
    /\ users[id] # NoUser
    /\ Change(id, NoUser)
    /\ UNCHANGED created

AccTick ==
    /\ clock < MaxClock
    /\ clock' = clock + 1
    /\ UNCHANGED <<users, created, tokens>>

-----------------------------------------------------------------------------
AccNext ==
    \/ \E name \in Usernames, password \in Passwords \cup {TempPassword} : login(name, password)
    \/ \E t \in tokens : refresh_token(t) \/ logout(t)
    \/ \E id \in UserIds :
          \/ \E name \in Usernames, password \in Passwords, permissions \in PermissionLists :
                create_user(id, name, password, permissions)
          \/ /\ users[id] # NoUser
             /\ \E password \in Passwords \cup {users[id].password},
                   permissions \in PermissionLists \cup {users[id].permissions} :
                   update_user(id, password, permissions)
          \/ reset_user_password(id) \/ delete_user(id)
    \/ AccTick

AccSpec == AccInit /\ [][AccNext]_accVars

-----------------------------------------------------------------------------
(* Properties. *)

(* authenticate_user returns the first match of a dict scan: no sequence of
   creations, updates and deletions makes the answer depend on the order. *)
LoginDeterministic ==
    \A name \in Usernames, password \in Passwords \cup {TempPassword} :
        Cardinality(authenticate_user(name, password)) <= 1

(* get_current_user does not look at the type of a token.  Still, whoever
   changes the store holds an access token that has not expired and grants
   admin:write: a refresh token never does.  This is about the claims of the
   token, not the user: refresh_token gives the administrator's permissions
   to the holder of any good refresh token (auth_router.py:196-202). *)
WritesAuthorized ==
    [][users' # users =>
          \E t \in tokens : /\ t.type = "access" /\ t.exp > clock
                            /\ has_permission(t.permissions, Write("admin"))]_accVars

(* After delete_user, new tokens for the id come from a refresh token that
   was issued before and is still good, never from a login or from an access
   token.  Refreshing does not ask whether the user exists, so repeated
   refreshes prolong the session; it ends REFRESH_TTL after the last one. *)
DeletedOnlyRefresh ==
    [][\A t \in tokens' \ tokens : t.sub \in created /\ users[t.sub] = NoUser =>
          \E r \in tokens : r.sub = t.sub /\ r.type = "refresh" /\ r.exp > clock]_accVars

=============================================================================
