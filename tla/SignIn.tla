------------------------------- MODULE SignIn -------------------------------
(***************************************************************************)
(* Signing in to one account from one address: AuthService.login with the  *)
(* lock of src/src/models/user.model.ts and the brute-force counter kept   *)
(* in Redis, beside the handlers that change the password, unlock or       *)
(* deactivate the account.  One action per await.                          *)
(*                                                                         *)
(* The user document is saved under optimistic concurrency: a request      *)
(* keeps the attempts and the lock it loaded, and `stale` once another     *)
(* request has saved the document since; a save of a stale document raises *)
(* VersionError.  findOneAndUpdate changes the document without that.      *)
(***************************************************************************)
EXTENDS Naturals, FiniteSets

CONSTANTS
    Slots,         \* requests served at a time
    MaxAttempts,   \* ACCOUNT_LOCK_MAX_ATTEMPTS
    AuthMax,       \* RATE_LIMIT_AUTH_MAX
    MaxRequests,   \* requests ever begun
    MaxShocks      \* times Redis goes away, or an administrator or time acts

ASSUME AttemptBounds ==
    MaxAttempts \in Nat /\ MaxAttempts >= 2 /\ {AuthMax, MaxRequests, MaxShocks} \subseteq Nat

VARIABLES
    up,           \* the Redis client is ready
    shocks,
    failed,       \* Redis was away at some time
    attempts,     \* the user's loginAttempts
    lock,         \* "none", "held" (lockUntil ahead) or "lapsed" (lockUntil passed)
    isActive,
    hits,         \* the counter rl:bruteforce:login:<ip>:<email>, 0 when missing
    expires,      \* the counter has a time to live
    request,      \* the request in each slot
    begun,        \* requests begun so far
    \* What the properties remember of the past.
    met,          \* two requests were in flight at once
    counted,      \* wrong passwords saved since the counter last started
    guessed,      \* wrong passwords compared since the attempts last started
    orphans       \* sessions stored for a login that then failed

account == <<attempts, lock, isActive>>
counter == <<hits, expires>>
connection == <<up, shocks, failed>>
ghosts == <<counted, guessed, orphans>>
vars == <<connection, account, counter, request, begun, met, ghosts>>

Idle == [op |-> "idle", at |-> "idle", attempts |-> 0, lock |-> "none", stale |-> FALSE]

Init ==
    /\ up = TRUE /\ shocks = 0 /\ failed = FALSE
    /\ attempts = 0 /\ lock = "none" /\ isActive = TRUE
    /\ hits = 0 /\ expires = FALSE
    /\ request = [s \in Slots |-> Idle] /\ begun = 0 /\ met = FALSE
    /\ counted = 0 /\ guessed = 0 /\ orphans = 0

Busy(s) == request[s].op # "idle"
At(s, place) == request[s].at = place
Goto(s, place) == request' = [request EXCEPT ![s].at = place]
Done(s) == request' = [request EXCEPT ![s] = Idle]
Shock == shocks < MaxShocks /\ shocks' = shocks + 1

\* The slot's request saves the document and goes on at `place` with its copy
\* up to date; every other copy becomes stale.
Saved(s, place, n, l) ==
    request' = [x \in Slots |->
        IF x # s THEN [request[x] EXCEPT !.stale = Busy(x)]
        ELSE IF place = "done" THEN Idle
        ELSE [request[s] EXCEPT !.at = place, !.attempts = n, !.lock = l]]

Begin(s, op, at) ==
    /\ ~Busy(s) /\ begun < MaxRequests
    /\ begun' = begun + 1
    /\ request' = [request EXCEPT ![s] = [Idle EXCEPT !.op = op, !.at = at]]
    /\ met' = (met \/ \E x \in Slots : Busy(x))
    /\ UNCHANGED <<connection, account, counter, ghosts>>

-----------------------------------------------------------------------------
(* login, with the right password or a wrong one. *)

StartLogin(s) == \E op \in {"right", "wrong"} : Begin(s, op, "assert")

\* #assertNotBruteForced; a missing store counts as no attempts.
AssertNotBruteForced(s) ==
    /\ At(s, "assert")
    /\ IF up /\ hits >= AuthMax THEN Done(s) ELSE Goto(s, "load")
    /\ UNCHANGED <<connection, account, counter, begun, met, ghosts>>

\* findByEmailForAuth: a locked or deactivated account is answered 403.
LoadUser(s) ==
    /\ At(s, "load") /\ request[s].op \in {"right", "wrong"}
    /\ IF lock = "held" \/ ~isActive THEN Done(s)
       ELSE request' = [request EXCEPT
                ![s].attempts = attempts, ![s].lock = lock, ![s].stale = FALSE,
                ![s].at = IF request[s].op = "right" THEN "reset" ELSE "increment"]
    /\ guessed' = IF lock = "held" \/ ~isActive \/ request[s].op = "right" THEN guessed
                  ELSE IF lock = "lapsed" THEN 1 ELSE guessed + 1
    /\ UNCHANGED <<connection, account, counter, begun, met, counted, orphans>>

\* incrementLoginAttempts on the loaded copy: after a lapsed lock the count
\* starts at 1, otherwise it locks the account at the maximum.
NextAttempts(r) == IF r.lock = "lapsed" THEN 1 ELSE r.attempts + 1
NextLock(r) == IF r.lock # "lapsed" /\ r.attempts + 1 >= MaxAttempts THEN "held" ELSE "none"

\* Mutant: the save is not refused when the document has changed since.
IncrementLoginAttemptsOver(s) ==
    /\ At(s, "increment")
    /\ attempts' = NextAttempts(request[s])
    /\ lock' = NextLock(request[s])
    /\ counted' = IF request[s].lock = "lapsed" THEN 1 ELSE counted + 1
    /\ Saved(s, "hit", NextAttempts(request[s]), NextLock(request[s]))
    /\ UNCHANGED <<connection, isActive, counter, begun, met, guessed, orphans>>

\* The save of a stale copy raises VersionError: neither this attempt nor the
\* brute-force hit is counted.
IncrementLoginAttempts(s) ==
    /\ At(s, "increment") /\ ~request[s].stale
    /\ attempts' = NextAttempts(request[s])
    /\ lock' = NextLock(request[s])
    /\ counted' = IF request[s].lock = "lapsed" THEN 1 ELSE counted + 1
    /\ Saved(s, "hit", NextAttempts(request[s]), NextLock(request[s]))
    /\ UNCHANGED <<connection, isActive, counter, begun, met, guessed, orphans>>

SaveRefused(s) ==
    /\ At(s, "increment") /\ request[s].stale
    /\ Done(s)
    /\ UNCHANGED <<connection, account, counter, begun, met, ghosts>>

\* #hitBruteForce: INCR, and EXPIRE in a command of its own on the first hit.
HitBruteForce(s) ==
    /\ At(s, "hit")
    /\ hits' = IF up THEN hits + 1 ELSE hits
    /\ IF up /\ hits = 0 THEN Goto(s, "expire") ELSE Done(s)
    /\ UNCHANGED <<connection, account, expires, begun, met, ghosts>>

\* Mutant: the time to live is not set.
ExpireCounterNever(s) ==
    /\ At(s, "expire")
    /\ Done(s)
    /\ UNCHANGED <<connection, account, counter, begun, met, ghosts>>

ExpireCounter(s) ==
    /\ At(s, "expire")
    /\ expires' = IF up /\ hits > 0 THEN TRUE ELSE expires
    /\ Done(s)
    /\ UNCHANGED <<connection, account, hits, begun, met, ghosts>>

\* resetLoginAttempts: nothing is written when nothing changed, and whether an
\* empty save of a stale copy is refused is left to Mongoose.
Dirty(r) == r.attempts # 0 \/ r.lock # "none"

ResetLoginAttempts(s) ==
    /\ At(s, "reset")
    /\ \/ /\ Dirty(request[s]) /\ ~request[s].stale
          /\ attempts' = 0 /\ lock' = "none" /\ counted' = 0 /\ guessed' = 0
          /\ Saved(s, "clear", 0, "none")
       \/ /\ ~Dirty(request[s])
          /\ Goto(s, "clear")
          /\ UNCHANGED <<attempts, lock, counted, guessed>>
       \/ /\ request[s].stale
          /\ Done(s)
          /\ UNCHANGED <<attempts, lock, counted, guessed>>
    /\ UNCHANGED <<connection, isActive, counter, begun, met, orphans>>

\* #clearBruteForce
ClearBruteForce(s) ==
    /\ At(s, "clear")
    /\ hits' = IF up THEN 0 ELSE hits
    /\ expires' = IF up THEN FALSE ELSE expires
    /\ Goto(s, "issue")
    /\ UNCHANGED <<connection, account, begun, met, ghosts>>

\* #issueTokens stores a session (RefreshTokens has its steps), then the last
\* login, its history and the device are saved with the document.
IssueTokens(s) ==
    /\ At(s, "issue")
    /\ IF request[s].stale
       THEN orphans' = orphans + 1 /\ Done(s)
       ELSE Saved(s, "done", 0, "none") /\ UNCHANGED orphans
    /\ UNCHANGED <<connection, account, counter, begun, met, counted, guessed>>

-----------------------------------------------------------------------------
(* The handlers that change the account beside the logins. *)

\* changePassword loads the account, compares, and saves the new password.
StartChange(s) == Begin(s, "change", "loadForAuth")
\* resetPassword saves the password and then resets the attempts.
StartReset(s) == Begin(s, "resetPassword", "loadForAuth")

LoadForAuth(s) ==
    /\ At(s, "loadForAuth")
    /\ request' = [request EXCEPT ![s].at = "save", ![s].stale = FALSE,
                                  ![s].attempts = attempts, ![s].lock = lock]
    /\ UNCHANGED <<connection, account, counter, begun, met, ghosts>>

SavePassword(s) ==
    /\ At(s, "save")
    /\ IF request[s].stale THEN Done(s)
       ELSE Saved(s, IF request[s].op = "change" THEN "done" ELSE "unlock",
                  request[s].attempts, request[s].lock)
    /\ UNCHANGED <<connection, account, counter, begun, met, ghosts>>

Unlock(s) ==
    /\ At(s, "unlock")
    /\ IF Dirty(request[s]) /\ ~request[s].stale
       THEN /\ attempts' = 0 /\ lock' = "none" /\ counted' = 0 /\ guessed' = 0
            /\ Saved(s, "done", 0, "none")
       ELSE Done(s) /\ UNCHANGED <<attempts, lock, counted, guessed>>
    /\ UNCHANGED <<connection, isActive, counter, begun, met, orphans>>

\* UserService activates or deactivates: findOneAndUpdate, no version.
SetActive ==
    /\ Shock /\ isActive' = ~isActive
    /\ UNCHANGED <<up, failed, attempts, lock, counter, request, begun, met, ghosts>>

\* lockUntil passes, in the document and in the copies loaded from it.
LockLapses ==
    /\ lock = "held"
    /\ lock' = "lapsed"
    /\ request' = [s \in Slots |->
           IF request[s].lock = "held" THEN [request[s] EXCEPT !.lock = "lapsed"]
                                       ELSE request[s]]
    /\ UNCHANGED <<connection, attempts, isActive, counter, begun, met, ghosts>>

\* The counter's time to live passes.
CounterLapses ==
    /\ hits > 0 /\ expires
    /\ hits' = 0 /\ expires' = FALSE
    /\ UNCHANGED <<connection, account, request, begun, met, ghosts>>

RedisLost ==
    /\ up /\ Shock /\ up' = FALSE /\ failed' = TRUE
    /\ UNCHANGED <<account, counter, request, begun, met, ghosts>>

RedisBack ==
    /\ ~up /\ up' = TRUE
    /\ UNCHANGED <<shocks, failed, account, counter, request, begun, met, ghosts>>

Serve(s) ==
    \/ StartLogin(s) \/ AssertNotBruteForced(s) \/ LoadUser(s)
    \/ IncrementLoginAttempts(s) \/ SaveRefused(s) \/ HitBruteForce(s) \/ ExpireCounter(s)
    \/ ResetLoginAttempts(s) \/ ClearBruteForce(s) \/ IssueTokens(s)
    \/ StartChange(s) \/ StartReset(s) \/ LoadForAuth(s) \/ SavePassword(s) \/ Unlock(s)

Next ==
    \/ \E s \in Slots : Serve(s)
    \/ SetActive \/ LockLapses \/ CounterLapses \/ RedisLost \/ RedisBack

Spec == Init /\ [][Next]_vars

\* Requests being served go on, and the time to live of the counter passes.
FairSpec == Spec /\ WF_vars(CounterLapses) /\ \A s \in Slots : WF_vars(Busy(s) /\ Serve(s))

-----------------------------------------------------------------------------
(* Properties. *)

Locks == {"none", "held", "lapsed"}
Ops == {"idle", "right", "wrong", "change", "resetPassword"}
Places == {"idle", "assert", "load", "increment", "hit", "expire", "reset", "clear",
           "issue", "loadForAuth", "save", "unlock"}
Requests == [op : Ops, at : Places, attempts : Nat, lock : Locks, stale : BOOLEAN]

TypeOK ==
    /\ up \in BOOLEAN /\ failed \in BOOLEAN /\ shocks \in Nat
    /\ attempts \in Nat /\ lock \in Locks /\ isActive \in BOOLEAN
    /\ hits \in Nat /\ expires \in BOOLEAN
    /\ request \in [Slots -> Requests]
    /\ begun \in Nat /\ met \in BOOLEAN
    /\ counted \in Nat /\ guessed \in Nat /\ orphans \in Nat

\* Saves never lose an attempt: the document counts every wrong password that
\* was answered 401 since the count last started, whatever ran beside it.
AttemptsNotLost == attempts = counted

\* An account with the maximum of failed attempts is locked, until the lock
\* lapses or the attempts are reset.
LockedAtTheMaximum == attempts >= MaxAttempts => lock # "none"

\* While nobody else works on the account, at most the maximum of wrong
\* passwords is compared before it is locked.
GuessesBounded == ~met => guessed <= MaxAttempts

\* Only a save that overlapped leaves a session nobody was given.
NoOrphanSessions == orphans > 0 => met

\* The counter has a time to live, once the request that started it is past
\* its EXPIRE; only an outage between the two commands leaves it without one.
CounterExpires ==
    hits > 0 /\ ~expires => failed \/ \E s \in Slots : At(s, "expire")

\* What the lock of user.model.ts and the brute-force counter of redis.helper.ts
\* promise together.
Lockout ==
    /\ AttemptsNotLost
    /\ LockedAtTheMaximum
    /\ GuessesBounded
    /\ NoOrphanSessions
    /\ CounterExpires

\* An address that reached the limit may try again in the end, unless Redis was
\* away between the two commands that start the counter.
LimitLifted == hits >= AuthMax ~> hits < AuthMax \/ failed
=============================================================================
