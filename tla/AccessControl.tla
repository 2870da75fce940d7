--------------------------- MODULE AccessControl ---------------------------
(***************************************************************************)
(* Who may do what: the role, permission and user services, the access     *)
(* token a sign-in issues, and the checks a request to /users passes:      *)
(* authenticate, requirePermission (auth and permission middlewares), then *)
(* the policy of user.policy.ts inside the service.                        *)
(*                                                                         *)
(* The two layers do not look at the same thing.  The middleware adds the  *)
(* permissions written in the access token to those of the documents and   *)
(* wants the exact slug; the policy reads the documents alone and accepts  *)
(* "user:manage" or "system:manage" for any of them.  Both work on the     *)
(* user loaded by authenticate, which awaits the blacklist before; other   *)
(* requests change the documents in between.                               *)
(*                                                                         *)
(* Permissions are documents of their own, roles refer to them, users to   *)
(* a role and to permissions: populate leaves out what is soft-deleted.    *)
(***************************************************************************)
EXTENDS Naturals, RedisStore

CONSTANTS
    Slots,      \* requests served at a time
    Users,      \* user accounts
    Bundles,    \* sets of permissions administrators give a role
    MaxChanges  \* sign-ins, requests and changes of documents, together

Permissions == {"user:read", "user:update", "user:delete", "user:manage", "system:manage"}
\* Two seeded system roles and one that an administrator created.
Roles == {"admin", "investor", "desk"}
SystemRoles == {"admin", "investor"}
NoRole == "none"

VARIABLES
    up,          \* the Redis client is ready
    lost,        \* Redis was lost at some time
    roleOf,      \* each user's role
    overrides,   \* each user's own permissions
    status,      \* "active", "inactive" or "deleted"
    locked,      \* users locked after failed logins, for a time
    grants,      \* each role's permissions
    roleLive,    \* roles that are not soft-deleted
    permLive,    \* permissions that are not soft-deleted
    token,       \* each user's access token: what it carries, or NoToken
    blacklist,   \* Redis: users whose token is blacklisted
    request,     \* the request in each slot
    changes,     \* steps counted against MaxChanges
    \* What the properties remember of the past.
    heldSince,   \* what each user held at some time since its token was issued
    heldNow,     \* what the user of each request held between its arrival and the
                 \* loading of its user
    left         \* users that logged out and have not signed in since

documents == <<roleOf, overrides, status, grants, roleLive, permLive>>
held == <<heldSince, heldNow>>
vars == <<up, lost, documents, locked, token, blacklist, request, changes, held, left>>

NoToken == [valid |-> FALSE, permissions |-> {}]
\* The user a request was authenticated as, as the documents were then.
NoRequest == [at |-> "idle", op |-> "none", user |-> "none", role |-> NoRole,
              owned |-> {}, carried |-> {}, ever |-> {}]

-----------------------------------------------------------------------------
(* What the documents say. *)

\* findByIdWithRole: role and permissions through the soft-delete filter.
RoleSlug(u) == IF roleOf[u] \in roleLive THEN roleOf[u] ELSE NoRole
\* collectUserPermissions and #collectPermissionSlugs.
Owned(u) == ((IF RoleSlug(u) = NoRole THEN {} ELSE grants[roleOf[u]]) \cup overrides[u])
            \cap permLive

\* requirePermission: the exact slug, among the documents' and the token's.
Passes(r, slug) == r.role = "admin" \/ slug \in r.owned \cup r.carried
\* hasPermission: the slug, the resource's "manage" or "system:manage".
HasPermission(owned, slug) == owned \cap {slug, "user:manage", "system:manage"} # {}

Init ==
    /\ up = TRUE /\ lost = FALSE
    /\ roleOf \in [Users -> {"admin", "desk"}] /\ \E u \in Users : roleOf[u] = "admin"
    /\ overrides = [u \in Users |-> {}]
    /\ status = [u \in Users |-> "active"] /\ locked = {}
    /\ grants \in {[r \in Roles |-> CASE r = "admin" -> Permissions
                                      [] r = "desk" -> d
                                      [] OTHER -> {}] :
                  d \in Bundles}
    /\ roleLive = Roles /\ permLive = Permissions
    /\ token = [u \in Users |-> NoToken] /\ blacklist = {}
    /\ request = [s \in Slots |-> NoRequest] /\ changes = 0
    /\ heldSince = [u \in Users |-> {}] /\ left = {}
    /\ heldNow = [s \in Slots |-> {}]

Counted == changes < MaxChanges /\ changes' = changes + 1
\* Every change of the documents: what the users hold from now on.
Remember ==
    /\ heldSince' = [u \in Users |-> heldSince[u] \cup Owned(u)']
    /\ heldNow' = [s \in Slots |-> IF request[s].at = "load"
                                    THEN heldNow[s] \cup Owned(request[s].user)' ELSE heldNow[s]]

-----------------------------------------------------------------------------
(* Access tokens. *)

\* login or refresh, which a locked account may still do: the token is signed with
\* the permissions of the documents.
SignIn(u) ==
    /\ Counted /\ status[u] = "active"
    /\ token' = [token EXCEPT ![u] = [valid |-> TRUE, permissions |-> Owned(u)]]
    /\ blacklist' = blacklist \ {u}
    /\ heldSince' = [heldSince EXCEPT ![u] = Owned(u)]
    /\ left' = left \ {u}
    /\ UNCHANGED <<up, lost, documents, locked, request, heldNow>>

\* The token expires; its entry in the blacklist expires with it.
TokenExpires(u) ==
    /\ token[u].valid
    /\ token' = [token EXCEPT ![u] = NoToken]
    /\ blacklist' = blacklist \ {u}
    /\ UNCHANGED <<up, lost, documents, locked, request, changes, held, left>>

\* logout blacklists the access token for the rest of its life.
Logout(u) ==
    /\ Counted /\ token[u].valid
    /\ blacklist' = RedisSet(blacklist, up, u)
    /\ left' = left \cup {u}
    /\ UNCHANGED <<up, lost, documents, locked, token, request, held>>

\* Failed logins lock an account until the lock lapses.
Lock(u) ==
    /\ Counted /\ u \notin locked /\ locked' = locked \cup {u}
    /\ UNCHANGED <<up, lost, documents, token, blacklist, request, held, left>>
LockLapses(u) ==
    /\ u \in locked /\ locked' = locked \ {u}
    /\ UNCHANGED <<up, lost, documents, token, blacklist, request, changes, held, left>>

-----------------------------------------------------------------------------
(* A request to /users. *)

Ops == {"getUser", "updateUser", "deleteUser", "deleteMe"}
Slug(op) == CASE op = "getUser" -> "user:read" [] op = "updateUser" -> "user:update"
              [] OTHER -> "user:delete"

\* authenticate, up to its first await: the blacklist is asked, and the token's
\* signature and expiry are checked with the answer.
PresentToken(s) ==
    \E u \in Users, op \in Ops :
        /\ Counted /\ request[s].at = "idle"
        /\ token[u].valid /\ ~RedisExists(blacklist, up, u)
        /\ request' = [request EXCEPT ![s] =
               [at |-> "load", op |-> op, user |-> u, role |-> NoRole, owned |-> {},
                carried |-> token[u].permissions, ever |-> heldSince[u]]]
        /\ heldNow' = [heldNow EXCEPT ![s] = Owned(u)]
        /\ UNCHANGED <<up, lost, documents, locked, token, blacklist, heldSince, left>>

\* Then the user is loaded; it must be there, active and not locked.
LoadUser(s) ==
    LET r == request[s] IN
    /\ r.at = "load"
    /\ request' = [request EXCEPT ![s] =
           IF status[r.user] = "active" /\ r.user \notin locked
           THEN [r EXCEPT !.at = IF r.op = "deleteMe" THEN "service" ELSE "guard",
                          !.role = RoleSlug(r.user), !.owned = Owned(r.user)]
           ELSE NoRequest]
    /\ UNCHANGED <<up, lost, documents, locked, token, blacklist, changes, held, left>>

\* requirePermission; a refusal answers 403.
Guard(s) ==
    LET r == request[s] IN
    /\ r.at = "guard"
    /\ request' = [request EXCEPT ![s] = IF Passes(r, Slug(r.op)) THEN [r EXCEPT !.at = "service"]
                                                                  ELSE NoRequest]
    /\ UNCHANGED <<up, lost, documents, locked, token, blacklist, changes, held, left>>

\* Mutant: the policies accept the permissions of the token, too.
AllowedCarried(r, target) == HasPermission(r.owned \cup r.carried, Slug(r.op))

\* canViewUser, canUpdateUser, canDeleteUser on the user that was loaded; to
\* delete oneself takes the permission, too.
Allowed(r, target) ==
    \/ HasPermission(r.owned, Slug(r.op))
    \/ r.op \in {"getUser", "updateUser"} /\ target = r.user

\* What adminUpdateUser may write: isActive, the role or the own permissions.
Update(u) ==
    \/ /\ status' = [status EXCEPT ![u] = IF @ = "active" THEN "inactive" ELSE "active"]
       /\ UNCHANGED <<roleOf, overrides>>
    \/ /\ \E r \in Roles : roleOf' = [roleOf EXCEPT ![u] = r]
       /\ UNCHANGED <<status, overrides>>
    \/ /\ \E p \in Permissions : overrides' = [overrides EXCEPT ![u] =
                                  IF p \in @ THEN @ \ {p} ELSE @ \cup {p}]
       /\ UNCHANGED <<status, roleOf>>

\* getUserById and listUsers, adminUpdateUser, softDeleteUser of anybody or of
\* oneself.  A target deleted meanwhile is not found.
Serve(s) ==
    LET r == request[s] IN
    /\ r.at = "service"
    /\ \E target \in IF r.op = "deleteMe" THEN {r.user} ELSE Users :
        IF ~Allowed(r, target) \/ status[target] = "deleted" \/ r.op = "getUser"
        THEN UNCHANGED <<roleOf, overrides, status>>
        ELSE IF r.op = "updateUser" THEN Update(target)
        ELSE status' = [status EXCEPT ![target] = "deleted"] /\ UNCHANGED <<roleOf, overrides>>
    /\ request' = [request EXCEPT ![s] = NoRequest]
    /\ UNCHANGED <<up, lost, grants, roleLive, permLive, locked, token, blacklist, changes, left>>
    /\ Remember

-----------------------------------------------------------------------------
(* Administrators change roles and permissions: role.service.ts and           *)
(* permission.service.ts; the routes let administrators alone through.        *)

AnAdministrator == \E u \in Users : status[u] = "active" /\ RoleSlug(u) = "admin"

RoleChange(r) ==
    /\ Counted /\ AnAdministrator /\ r \in roleLive
    /\ UNCHANGED <<up, lost, roleOf, overrides, status, permLive, locked, token, blacklist>>
    /\ UNCHANGED <<request, left>>
    /\ Remember

\* assignPermissions, and updateRole with permissions, for system roles too: what
\* the role had is replaced.  updateRole's isActive is read by no check.
AssignPermissions(r) ==
    /\ \E P \in Bundles : grants' = [grants EXCEPT ![r] = P \cap permLive]
    /\ UNCHANGED roleLive
    /\ RoleChange(r)

\* createRole with the slug of a deleted role: a new document, the users of the
\* deleted one keep referring to that.
CreateRole(r) ==
    /\ Counted /\ AnAdministrator /\ r \notin roleLive
    /\ roleLive' = roleLive \cup {r}
    /\ \E P \in Bundles : grants' = [grants EXCEPT ![r] = P \cap permLive]
    /\ roleOf' = [u \in Users |-> IF roleOf[u] = r THEN NoRole ELSE roleOf[u]]
    /\ UNCHANGED <<up, lost, overrides, status, permLive, locked, token, blacklist, request, left>>
    /\ Remember

\* Mutant: system roles may be deleted as well.
DeleteRoleAny(r) ==
    /\ roleLive' = roleLive \ {r}
    /\ UNCHANGED grants
    /\ RoleChange(r)

\* "Cannot delete system roles"; the users of the role keep referring to it.
DeleteRole(r) ==
    /\ r \notin SystemRoles
    /\ roleLive' = roleLive \ {r}
    /\ UNCHANGED grants
    /\ RoleChange(r)

PermissionChange ==
    /\ Counted /\ AnAdministrator
    /\ UNCHANGED <<up, lost, roleOf, status, roleLive, locked, token, blacklist, request, left>>
    /\ Remember

DeletePermission(p) ==
    /\ p \in permLive
    /\ permLive' = permLive \ {p}
    /\ UNCHANGED <<grants, overrides>>
    /\ PermissionChange

\* A new document, which no role and no user refers to.
CreatePermission(p) ==
    /\ p \notin permLive
    /\ permLive' = permLive \cup {p}
    /\ grants' = [r \in Roles |-> grants[r] \ {p}]
    /\ overrides' = [u \in Users |-> overrides[u] \ {p}]
    /\ PermissionChange

\* updatePermission may rename: who had p has q from then on.
UpdatePermission(p, q) ==
    LET Renamed(P) == (P \ {p, q}) \cup (IF p \in P THEN {q} ELSE {}) IN
    /\ p \in permLive /\ q \notin permLive
    /\ permLive' = Renamed(permLive)
    /\ grants' = [r \in Roles |-> Renamed(grants[r])]
    /\ overrides' = [u \in Users |-> Renamed(overrides[u])]
    /\ PermissionChange

\* seedPermissions and seedRoles, which createPlatformAdmin and the seed script
\* run again: upserts revive what was deleted and reset the system roles.
SeedAccess ==
    /\ Counted
    /\ permLive' = Permissions /\ roleLive' = roleLive \cup SystemRoles
    /\ grants' = [grants EXCEPT !["admin"] = Permissions, !["investor"] = {}]
    /\ UNCHANGED <<up, lost, roleOf, overrides, status, locked, token, blacklist, request, left>>
    /\ Remember

RedisLost == /\ Counted /\ up /\ up' = FALSE /\ lost' = TRUE
             /\ UNCHANGED <<documents, locked, token, blacklist, request, held, left>>
RedisBack == /\ ~up /\ up' = TRUE
             /\ UNCHANGED <<lost, documents, locked, token, blacklist, request, changes>>
             /\ UNCHANGED <<held, left>>

Next ==
    \/ \E u \in Users : SignIn(u) \/ TokenExpires(u) \/ Logout(u) \/ Lock(u) \/ LockLapses(u)
    \/ \E s \in Slots : PresentToken(s) \/ LoadUser(s) \/ Guard(s) \/ Serve(s)
    \/ \E r \in Roles : AssignPermissions(r) \/ DeleteRole(r) \/ CreateRole(r)
    \/ \E p \in Permissions : DeletePermission(p) \/ CreatePermission(p)
    \/ \E p, q \in Permissions : UpdatePermission(p, q)
    \/ SeedAccess \/ RedisLost \/ RedisBack

Spec == Init /\ [][Next]_vars
-----------------------------------------------------------------------------
(* Properties. *)

TypeOK ==
    /\ up \in BOOLEAN /\ lost \in BOOLEAN /\ changes \in 0 .. MaxChanges
    /\ roleOf \in [Users -> Roles \cup {NoRole}] /\ overrides \in [Users -> SUBSET Permissions]
    /\ status \in [Users -> {"active", "inactive", "deleted"}]
    /\ grants \in [Roles -> SUBSET Permissions]
    /\ SystemRoles \subseteq roleLive /\ permLive \subseteq Permissions
    /\ token \in [Users -> [valid : BOOLEAN, permissions : SUBSET Permissions]]
    /\ blacklist \subseteq Users /\ left \subseteq Users /\ locked \subseteq Users

\* A request that is not an administrator's passes requirePermission with a
\* permission its user held at some time since its access token was issued: a
\* permission deleted or taken away before that no longer counts.
GuardUsesRecentGrants ==
    \A s \in Slots :
        LET r == request[s] IN
        r.at = "service" /\ r.op # "deleteMe" /\ r.role # "admin"
            => Slug(r.op) \in r.ever \cup heldNow[s]

\* A request changes or deletes the account of somebody else only if its user
\* held the permission for it, "user:manage" or "system:manage" after the request
\* arrived: to be an administrator, or to carry them in the token, is not enough,
\* and a permission taken away before is never used.
OthersChangedByHolders ==
    \A s \in Slots, u \in Users :
        /\ request[s].at = "service" /\ request'[s] = NoRequest /\ u # request[s].user
        /\ <<roleOf[u], overrides[u], status[u]>>' # <<roleOf[u], overrides[u], status[u]>>
        => heldNow[s] \cap {Slug(request[s].op), "user:manage", "system:manage"} # {}

\* As long as Redis answers, the access token of a user that logged out is
\* accepted for no request that comes afterwards.
LoggedOutTokensRefused ==
    \A s \in Slots : request[s].at = "idle" /\ request'[s].at # "idle"
        => lost \/ request'[s].user \notin left

\* What a step of a request may never do, whatever administrators change beside
\* it: the three above together.
GrantsDecide ==
    [][GuardUsesRecentGrants' /\ OthersChangedByHolders /\ LoggedOutTokensRefused]_vars
=============================================================================
