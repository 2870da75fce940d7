--------------------------- MODULE RefreshTokens ---------------------------
(***************************************************************************)
(* The sessions of one user: src/src/services/token.service.ts with the    *)
(* handlers of auth.service.ts and auth.controller.ts that issue, rotate   *)
(* and revoke refresh tokens.  Redis is the store a token is checked       *)
(* against, MongoDB keeps a copy of each token; one action per await (the  *)
(* two keys Redis has for a token are written and deleted in one step), so *)
(* requests interleave between any two of them.                            *)
(*                                                                         *)
(* A token is a number; a family is the token its session started with.    *)
(* A request is a record: what it does, where it stands (`at`), the token  *)
(* it was given, the one it issues, whether the Mongo copy was found, the  *)
(* tokens a scan returned, and whether the user document it loaded was     *)
(* saved by somebody else since (`stale`: the save raises VersionError).   *)
(***************************************************************************)
EXTENDS Naturals, RedisStore

CONSTANTS
    Slots,       \* requests served at a time
    MaxTokens,   \* tokens ever issued
    MaxRequests, \* requests ever begun
    MaxShocks    \* events of the environment: lost connections, rejected calls,
                 \* crashes, cleanups, deactivations

VARIABLES
    prefixed,   \* REDIS_KEY_PREFIX is not empty
    up,         \* the Redis client is ready
    failed,     \* a call failed, or the connection or the process was lost
    shocks,     \* events of the environment so far
    isActive,   \* the user's isActive
    live,       \* Redis: the tokens with their keys refresh:<hash> and refresh:user:<id>:<jti>
    copy,       \* Mongo: the refresh token documents and their status
    issued,     \* tokens signed so far
    family,     \* the family of each token
    parent,     \* the token each one replaced
    request,    \* the request in each slot
    begun,      \* requests begun so far
    received,   \* the tokens the clients have been given
    held,       \* for each family, the token its client received last
    \* What the properties remember of the past.
    overlapped, \* families that had two requests in flight at once
    ended,      \* families ended by a logout, a revocation or a refusal
    reused,     \* families for which a reuse of an older token was answered
    closed      \* live tokens a logout or a revocation of all has answered for

signed == <<issued, family, parent>>
history == <<overlapped, ended, reused, closed>>
client == <<received, held>>
environment == <<prefixed, up, failed, shocks, isActive>>
vars == <<environment, live, copy, signed, request, begun, client, history>>

Tokens == 1 .. MaxTokens
None == 0
Idle == [op |-> "idle", at |-> "idle", token |-> None, next |-> None,
         found |-> FALSE, keys |-> {}, stale |-> FALSE]

\* The user has signed in once: token 1 is live, copied and held.
Init ==
    /\ prefixed \in BOOLEAN /\ up = TRUE /\ failed = FALSE /\ shocks = 0
    /\ isActive = TRUE
    /\ live = {1}
    /\ copy = [t \in Tokens |-> IF t = 1 THEN "active" ELSE "none"]
    /\ issued = 1 /\ family = [t \in Tokens |-> IF t = 1 THEN 1 ELSE None]
    /\ parent = [t \in Tokens |-> None]
    /\ request = [s \in Slots |-> Idle] /\ begun = 0
    /\ received = {1} /\ held = [t \in Tokens |-> IF t = 1 THEN 1 ELSE None]
    /\ overlapped = {} /\ ended = {} /\ reused = {} /\ closed = {}

\* One more event of the environment.
Shock == shocks < MaxShocks /\ shocks' = shocks + 1

Busy(s) == request[s].op # "idle"
\* The family a request works for.
FamilyOf(r) == IF r.token # None THEN family[r.token]
               ELSE IF r.next # None THEN family[r.next] ELSE None
\* The families a new request for the families F overlaps with.
Overlaps(F) ==
    LET others == {FamilyOf(request[s]) : s \in {x \in Slots : Busy(x)}}
        everyone == \E s \in Slots : request[s].op \in {"logoutAll", "changePassword"}
    IN  IF everyone THEN F ELSE F \cap others

At(s, place) == request[s].at = place
Goto(s, place) == request' = [request EXCEPT ![s].at = place]
Done(s) == request' = [request EXCEPT ![s] = Idle]
\* The slot's request saves the user document: the other copies are stale.
SavedUser(s, r) ==
    request' = [x \in Slots |->
        IF x = s THEN r ELSE [request[x] EXCEPT !.stale = Busy(x)]]

-----------------------------------------------------------------------------
(* Requests arrive. *)

Begin(s, op, at, token, next) ==
    /\ ~Busy(s) /\ begun < MaxRequests /\ begun' = begun + 1
    /\ request' = [request EXCEPT ![s] =
           [Idle EXCEPT !.op = op, !.at = at, !.token = token, !.next = next]]

\* login and register, once the password is accepted: #issueTokens.
StartLogin(s) ==
    /\ isActive /\ issued < MaxTokens
    /\ issued' = issued + 1
    /\ family' = [family EXCEPT ![issued + 1] = issued + 1]
    /\ Begin(s, "login", "store", None, issued + 1)
    /\ overlapped' = overlapped \cup Overlaps({issued + 1})
    /\ UNCHANGED <<environment, live, copy, parent, client, ended, reused, closed>>

\* refreshAccessToken.  Any token received may be presented; an expired one
\* fails its JWT check before anything is read and changes nothing.
StartRefresh(s) ==
    \E t \in received :
        /\ Begin(s, "refresh", "read", t, None)
        /\ overlapped' = overlapped \cup Overlaps({family[t]})
        /\ UNCHANGED <<environment, live, copy, signed, client, ended, reused, closed>>

\* logout with the refresh token the client holds.
StartLogout(s) ==
    \E t \in received :
        /\ t = held[family[t]]
        /\ Begin(s, "logout", "read", t, None)
        /\ overlapped' = overlapped \cup Overlaps({family[t]})
        /\ UNCHANGED <<environment, live, copy, signed, client, ended, reused, closed>>

\* logoutAll, and changePassword or resetPassword once the user is loaded.
StartForAll(s) ==
    \E op \in {"logoutAll", "changePassword"} :
        /\ Begin(s, op, IF op = "logoutAll" THEN "scan" ELSE "password", None, None)
        /\ overlapped' = overlapped \cup
               ({FamilyOf(request[x]) : x \in {y \in Slots : Busy(y)}} \ {None})
        /\ UNCHANGED <<environment, live, copy, signed, client, ended, reused, closed>>

-----------------------------------------------------------------------------
(* rotateRefreshToken. *)

ReadToken(s) ==
    /\ At(s, "read") /\ request[s].op = "refresh"
    /\ Goto(s, IF RedisGet(live, up, request[s].token) THEN "delete" ELSE "refuse")
    /\ UNCHANGED <<environment, live, copy, signed, begun, client, history>>

RevokedFamily(f) ==
    [t \in Tokens |-> IF family[t] = f /\ copy[t] = "active" THEN "revoked" ELSE copy[t]]

\* "Refresh token reuse detected. Please login again."
Refuse(s) ==
    /\ At(s, "refuse")
    /\ copy' = RevokedFamily(family[request[s].token])
    /\ Done(s)
    /\ LET f == family[request[s].token]
       IN  IF request[s].token = held[f]
           THEN ended' = ended \cup {f} /\ UNCHANGED reused
           ELSE reused' = reused \cup {f} /\ UNCHANGED ended
    /\ UNCHANGED <<environment, live, signed, begun, client, overlapped, closed>>

\* Both keys of the token: refresh:<hash>, then refresh:user:<id>:<jti>.
DeleteToken(s) ==
    /\ At(s, "delete")
    /\ live' = RedisDel(live, up, {request[s].token})
    /\ Goto(s, "find")
    /\ UNCHANGED <<environment, copy, signed, begun, client, history>>

\* findByTokenHash looks for a copy that is not revoked; the successor is
\* signed in the same family whether it is found or not.
FindCopy(s) ==
    /\ At(s, "find") /\ request[s].op = "refresh" /\ issued < MaxTokens
    /\ issued' = issued + 1
    /\ family' = [family EXCEPT ![issued + 1] = family[request[s].token]]
    /\ parent' = [parent EXCEPT ![issued + 1] = request[s].token]
    /\ request' = [request EXCEPT ![s].at = "store", ![s].next = issued + 1,
                                  ![s].found = copy[request[s].token] = "active"]
    /\ UNCHANGED <<environment, live, copy, begun, client, history>>

\* Mutant: a replaced copy gets a status of its own.
RetireCopyRotated(s) ==
    /\ At(s, "retire")
    /\ copy' = [copy EXCEPT ![request[s].token] = "rotated"]
    /\ Goto(s, "load")
    /\ UNCHANGED <<environment, live, signed, begun, client, history>>

\* revokeById(doc._id, next.tokenHash)
RetireCopy(s) ==
    /\ At(s, "retire")
    /\ copy' = [copy EXCEPT ![request[s].token] = "revoked"]
    /\ Goto(s, "load")
    /\ UNCHANGED <<environment, live, signed, begun, client, history>>

\* findByIdWithRole; the document is up to date when it is loaded.
LoadUser(s) ==
    /\ At(s, "load")
    /\ IF isActive
       THEN /\ \E at \in {"save", "reply"} :    \* with or without a device id
                   request' = [request EXCEPT ![s].at = at, ![s].stale = FALSE]
            /\ UNCHANGED ended
       ELSE Done(s) /\ ended' = ended \cup {FamilyOf(request[s])}
    /\ UNCHANGED <<environment, live, copy, signed, begun, client, overlapped, reused, closed>>

-----------------------------------------------------------------------------
(* generateRefreshToken, for a login and for a rotation. *)

\* Mutant: one key for all sessions of the user.
StoreTokenOfUser(s) ==
    /\ At(s, "store")
    /\ live' = IF up THEN {request[s].next} ELSE live
    /\ Goto(s, "backup")
    /\ UNCHANGED <<environment, copy, signed, begun, client, history>>

\* Both keys of the token: refresh:<hash>, then refresh:user:<id>:<jti>.
StoreToken(s) ==
    /\ At(s, "store")
    /\ live' = RedisSet(live, up, request[s].next)
    /\ Goto(s, "backup")
    /\ UNCHANGED <<environment, copy, signed, begun, client, history>>

AfterBackup(r) == CASE r.op = "login" -> "save"
                    [] r.found -> "retire"
                    [] OTHER -> "load"

BackupToken(s) ==
    /\ At(s, "backup")
    /\ copy' = [copy EXCEPT ![request[s].next] = "active"]
    /\ Goto(s, AfterBackup(request[s]))
    /\ UNCHANGED <<environment, live, signed, begun, client, history>>

\* A failing create is logged and the token is issued without a copy.
BackupFails(s) ==
    /\ At(s, "backup") /\ Shock /\ failed' = TRUE
    /\ Goto(s, AfterBackup(request[s]))
    /\ UNCHANGED <<prefixed, up, isActive, live, copy, signed, begun, client, history>>

\* The device is written to the user document under its version: a stale one
\* raises VersionError, after the tokens were stored.
SaveDevice(s) ==
    /\ At(s, "save")
    /\ IF request[s].stale
       THEN Done(s) /\ ended' = ended \cup {FamilyOf(request[s])}
       ELSE SavedUser(s, [request[s] EXCEPT !.at = "reply"]) /\ UNCHANGED ended
    /\ UNCHANGED <<environment, live, copy, signed, begun, client, overlapped, reused, closed>>

Reply(s) ==
    /\ At(s, "reply")
    /\ received' = received \cup {request[s].next}
    /\ held' = [held EXCEPT ![family[request[s].next]] = request[s].next]
    /\ Done(s)
    /\ UNCHANGED <<environment, live, copy, signed, begun, history>>

-----------------------------------------------------------------------------
(* revokeRefreshToken (logout). *)

ReadForLogout(s) ==
    /\ At(s, "read") /\ request[s].op = "logout"
    /\ request' = [request EXCEPT ![s].at = "forget",
                                  ![s].found = RedisGet(live, up, request[s].token)]
    /\ UNCHANGED <<environment, live, copy, signed, begun, client, history>>

ForgetToken(s) ==
    /\ At(s, "forget")
    /\ live' = RedisDel(live, up, {request[s].token})
    /\ Goto(s, "find")
    /\ UNCHANGED <<environment, copy, signed, begun, client, history>>

\* The copy is found and revoked, the audit row written, the cookies cleared.
FinishLogout(s) ==
    /\ At(s, "find") /\ request[s].op = "logout"
    /\ copy' = [copy EXCEPT ![request[s].token] = IF @ = "active" THEN "revoked" ELSE @]
    /\ Done(s)
    /\ ended' = ended \cup {family[request[s].token]}
    /\ closed' = IF request[s].found THEN closed \cup {request[s].token} ELSE closed
    /\ UNCHANGED <<environment, live, signed, begun, client, overlapped, reused>>

-----------------------------------------------------------------------------
(* revokeAllRefreshTokensForUser (logoutAll, changePassword, resetPassword). *)

\* user.save() with the new password.
SavePassword(s) ==
    /\ At(s, "password")
    /\ IF request[s].stale THEN Done(s)
                           ELSE SavedUser(s, [request[s] EXCEPT !.at = "scan"])
    /\ UNCHANGED <<environment, live, copy, signed, begun, client, history>>

\* client.scan is not guarded: without a ready client it rejects the request,
\* before the Mongo copies are touched and after the password was saved.
ScanTokens(s) ==
    /\ At(s, "scan")
    /\ IF up THEN request' = [request EXCEPT ![s].at = "sweep",
                                 ![s].keys = ScanMatch(live, prefixed, Tokens)]
             ELSE Done(s)
    /\ ended' = IF up THEN ended \cup {family[t] : t \in ScanMatch(live, prefixed, Tokens)}
                      ELSE ended
    /\ UNCHANGED <<environment, live, copy, signed, begun, client, overlapped, reused, closed>>

\* Mutant: the key with the user's id is deleted, refresh:<hash> stays.
SweepKeyHalf(s) ==
    /\ At(s, "sweep")
    /\ \E t \in request[s].keys : request' = [request EXCEPT ![s].keys = @ \ {t}]
    /\ UNCHANGED <<environment, live, copy, signed, begun, client, history>>

\* One key of the scan: GET gives the hash, both keys are deleted; redisDel does
\* nothing without a ready client.
SweepKey(s) ==
    /\ At(s, "sweep")
    /\ \E t \in request[s].keys :
        /\ live' = RedisDel(live, up, {t})
        /\ request' = [request EXCEPT ![s].keys = @ \ {t}]
    /\ UNCHANGED <<environment, copy, signed, begun, client, history>>

\* GET, and SCAN for the next keys, are not guarded either: without a ready client
\* they reject the request, and what was not swept stays accepted.
SweepFails(s) ==
    /\ At(s, "sweep") /\ ~up
    /\ Done(s)
    /\ UNCHANGED <<environment, live, copy, signed, begun, client, history>>

\* revokeAllForUser, clearDevices, the audit row; the cookies are cleared.
RevokeCopies(s) ==
    /\ At(s, "sweep") /\ request[s].keys = {}
    /\ copy' = [t \in Tokens |-> IF copy[t] = "active" THEN "revoked" ELSE copy[t]]
    /\ Done(s)
    /\ closed' = IF prefixed THEN closed ELSE closed \cup received
    /\ UNCHANGED <<environment, live, signed, begun, client, overlapped, ended, reused>>

-----------------------------------------------------------------------------
(* The environment. *)

\* cleanupExpiredTokens: revoked copies are deleted.
CleanupExpiredTokens ==
    /\ Shock
    /\ copy' = [t \in Tokens |->
           IF copy[t] = "revoked" THEN "none" ELSE copy[t]]
    /\ UNCHANGED <<prefixed, up, failed, isActive, live, signed, request, begun, client, history>>

\* An administrator deactivates or activates the user.
ToggleActive ==
    /\ Shock
    /\ isActive' = ~isActive
    /\ UNCHANGED <<prefixed, up, failed, live, copy, signed, request, begun, client, history>>

RedisLost ==
    /\ up /\ Shock
    /\ up' = FALSE /\ failed' = TRUE
    /\ UNCHANGED <<prefixed, isActive, live, copy, signed, request, begun, client, history>>

RedisBack ==
    /\ ~up /\ up' = TRUE
    /\ UNCHANGED <<prefixed, failed, shocks, isActive, live, copy, signed, request, begun, client, history>>

\* The process stops, or a call of every request in flight is rejected.
Crash ==
    /\ Shock /\ \E s \in Slots : Busy(s)
    /\ failed' = TRUE
    /\ request' = [s \in Slots |-> Idle]
    /\ UNCHANGED <<prefixed, up, isActive, live, copy, signed, begun, client, history>>

Serve(s) ==
    \/ StartLogin(s) \/ StartRefresh(s) \/ StartLogout(s) \/ StartForAll(s)
    \/ ReadToken(s) \/ Refuse(s) \/ DeleteToken(s) \/ FindCopy(s)
    \/ RetireCopy(s) \/ LoadUser(s)
    \/ StoreToken(s) \/ BackupToken(s) \/ BackupFails(s)
    \/ SaveDevice(s) \/ Reply(s)
    \/ ReadForLogout(s) \/ ForgetToken(s) \/ FinishLogout(s)
    \/ SavePassword(s) \/ ScanTokens(s) \/ SweepKey(s) \/ SweepFails(s)
    \/ RevokeCopies(s)

Next ==
    \/ \E s \in Slots : Serve(s)
    \/ CleanupExpiredTokens \/ ToggleActive
    \/ RedisLost \/ RedisBack \/ Crash

Spec == Init /\ [][Next]_vars
-----------------------------------------------------------------------------
(* Properties. *)

Family(f) == {t \in 1 .. issued : family[t] = f}
Quiet(f) == \A s \in Slots : ~Busy(s) \/ (FamilyOf(request[s]) \notin {f, None})
\* The requests of family f came one after the other, and no call failed.
Orderly(f) == f \notin overlapped /\ ~failed

TypeOK ==
    /\ prefixed \in BOOLEAN /\ up \in BOOLEAN /\ failed \in BOOLEAN /\ shocks \in 0 .. MaxShocks
    /\ isActive \in BOOLEAN /\ issued \in 0 .. MaxTokens
    /\ live \subseteq 1 .. issued
    /\ received \subseteq 1 .. issued
    /\ copy \in [Tokens -> {"none", "active", "revoked"}]
    /\ \A t \in 1 .. issued : family[t] \in 1 .. t /\ parent[t] \in 0 .. t - 1
    /\ \A t \in (issued + 1) .. MaxTokens : copy[t] = "none"
    /\ \A s \in Slots : request[s].token \in received \cup {None}
                        /\ request[s].next \in 0 .. issued

\* A refresh token is replaced by at most one token, unless two refreshes of
\* its session overlapped or Redis failed while it was replaced.
OneSuccessor ==
    \A t \in 1 .. issued :
        Orderly(family[t]) => Cardinality({c \in 1 .. issued : parent[c] = t}) <= 1

\* A client that refreshes one request at a time keeps a token that works,
\* whatever older token is replayed, until its session is logged out,
\* revoked or refused.
HeldTokenWorks ==
    \A f \in 1 .. issued :
        /\ Orderly(f) /\ f \notin ended /\ Quiet(f)
        /\ held[f] # None
        => held[f] \in live

\* For a session that never overlapped, failed or had an old token replayed,
\* the Mongo copy of the token held is active as long as Redis accepts it
\* (with a key prefix, revoking all tokens revokes the copies alone).
StoresAgree ==
    \A f \in 1 .. issued :
        /\ Orderly(f) /\ f \notin reused /\ ~prefixed /\ \A s \in Slots : ~Busy(s)
        /\ held[f] \in live
        => copy[held[f]] = "active"

\* After a logout with the live token, or after all tokens were revoked with
\* no key prefix, none of the tokens of that session is accepted any more.
RevokedSessionsStayClosed ==
    \A t \in closed : Orderly(family[t]) => Family(family[t]) \cap live = {}

\* When logoutAll, changePassword or resetPassword answers, Redis accepts no
\* token of a session that nothing else was working on: "Keys are relative -
\* Redis client already applies REDIS_KEY_PREFIX" (cacheKeys.ts:3).
RevokeAllReachesRedis ==
    [][\A s \in Slots :
          RevokeCopies(s) => \A t \in received : Orderly(family[t]) => t \notin live']_vars

\* What rotation promises the client that is logged in (token.service.ts:180-215).
SessionsKept == OneSuccessor /\ HeldTokenWorks

\* What logging out and revoking promise of Redis and of the copies
\* (token.service.ts:217-251).
SessionsEnded == StoresAgree /\ RevokedSessionsStayClosed
=============================================================================
