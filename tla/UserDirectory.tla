--------------------------- MODULE UserDirectory ---------------------------
(***************************************************************************)
(* The accounts behind the sign-in: user documents, the investor profiles  *)
(* that go with them, and the handlers that create, restore and soft-      *)
(* delete either (auth.service.ts register, investor.service.ts create and *)
(* remove, user.service.ts softDeleteUser and adminUpdateUser, the admin   *)
(* seeder and createPlatformAdmin), with the nightly purge of deleted ones.*)
(*                                                                         *)
(* MongoDB has no transaction here: every await is a step of its own and   *)
(* requests interleave between them.  Two facts of the database decide     *)
(* what the checks before a write are worth, and the code settles neither: *)
(*   - user.model.ts asks for a unique index on the e-mail of accounts not *)
(*     deleted, with a partial filter the server may reject when it builds *)
(*     the index; `uniqueIndex` says whether it exists;                    *)
(*   - findOne by e-mail has no sort: of a deleted and a live account with *)
(*     the same e-mail it returns either.                                  *)
(***************************************************************************)
EXTENDS Naturals, Sequences, FiniteSets

CONSTANTS
    Slots,       \* requests served at a time
    Emails,      \* e-mail addresses
    MaxAccounts, \* user documents ever created
    MaxRequests, \* requests ever begun
    MaxShocks    \* rejected database calls, crashes and purges

VARIABLES
    uniqueIndex, \* the unique index on the e-mail exists
    users,       \* user documents, in the order they were created
    investors,   \* investor profiles, in the order they were created
    request,     \* the request in each slot
    begun,       \* requests begun
    shocks,      \* rejected calls, crashes and purges so far
    \* What the properties remember of the past.
    mixed,       \* e-mails that had a deleted account when one was created or restored
    crossed,     \* e-mails two requests were creating accounts for at once
    detached,    \* user documents deleted, or restored, apart from their profile
    broken       \* e-mails whose request was cut short

database == <<uniqueIndex, users, investors>>
history == <<mixed, crossed, detached, broken>>
vars == <<database, request, begun, shocks, history>>

Idle == [op |-> "idle", at |-> "idle", email |-> "", user |-> 0]

Init ==
    /\ uniqueIndex \in BOOLEAN
    /\ users = <<>> /\ investors = <<>>
    /\ request = [s \in Slots |-> Idle] /\ begun = 0 /\ shocks = 0
    /\ mixed = {} /\ crossed = {} /\ detached = {} /\ broken = {}

-----------------------------------------------------------------------------
(* The repositories. *)

\* findByEmail with includeDeleted: what findOne may return, 0 for nothing.
Matches(docs, e) == {i \in DOMAIN docs : docs[i].email = e /\ ~docs[i].purged}
FindAny(docs, e) == IF Matches(docs, e) = {} THEN {0} ELSE Matches(docs, e)
\* findOne through the soft-delete filter of base.model.ts.
LiveMatches(docs, e) == {i \in Matches(docs, e) : ~docs[i].deleted}
Refused(docs, i) == i # 0 /\ ~docs[i].deleted

\* What the unique index says to one more live account of the e-mail.
Accepts(e) == uniqueIndex => LiveMatches(users, e) = {}
NewUser(e, role) == Append(users, [email |-> e, role |-> role, active |-> TRUE,
                                 deleted |-> FALSE, purged |-> FALSE])
\* softDeleteById and restoreById change one document, if it is not so yet.
SoftDelete(docs, i) == [docs EXCEPT ![i].deleted = TRUE]
Restore(docs, i) == [docs EXCEPT ![i].deleted = FALSE]

-----------------------------------------------------------------------------
(* Requests. *)

Busy(s) == request[s].op # "idle"
At(s, op, at) == request[s].op = op /\ request[s].at = at
Goto(s, at) == request' = [request EXCEPT ![s].at = at]
Done(s) == request' = [request EXCEPT ![s] = Idle]

Begin(s, op, at, e, u) ==
    /\ ~Busy(s) /\ begun < MaxRequests /\ begun' = begun + 1
    /\ request' = [request EXCEPT ![s] = [op |-> op, at |-> at, email |-> e, user |-> u]]

Creating == {"register", "invest", "seed"}

Creates(s, op, at) ==
    \E e \in Emails :
        /\ Begin(s, op, at, e, 0)
        /\ crossed' = IF \E x \in Slots : request[x].op \in Creating /\ request[x].email = e
                      THEN crossed \cup {e} ELSE crossed
        /\ UNCHANGED <<database, shocks, mixed, detached, broken>>

\* POST /auth/register
StartRegister(s) == Creates(s, "register", "accounts")
\* POST /investors
StartInvestor(s) == Creates(s, "invest", "profiles")
\* POST /auth/register-admin, the seed script and the createAdmin script
StartSeed(s) == Creates(s, "seed", "accounts")

\* investor.service create: "Investor with this email already exists".
CheckProfiles(s) ==
    /\ At(s, "invest", "profiles")
    /\ \E i \in FindAny(investors, request[s].email) :
           IF Refused(investors, i) THEN Done(s) ELSE Goto(s, "accounts")
    /\ UNCHANGED <<database, begun, shocks, history>>

\* "Email already registered" and "A user with this email already exists".
CheckAccounts(s) ==
    /\ request[s].op \in {"register", "invest"} /\ request[s].at = "accounts"
    /\ \E i \in FindAny(users, request[s].email) :
           IF Refused(users, i) THEN Done(s) ELSE Goto(s, "create")
    /\ UNCHANGED <<database, begun, shocks, history>>

\* users.create; a registration is over when the account exists.
CreateAccount(s) ==
    LET e == request[s].email IN
    /\ request[s].at = "create" /\ Len(users) < MaxAccounts
    /\ IF Accepts(e)
       THEN /\ users' = NewUser(e, IF request[s].op = "seed" THEN "admin" ELSE "investor")
            /\ mixed' = IF Matches(users, e) = LiveMatches(users, e) THEN mixed ELSE mixed \cup {e}
            /\ request' = [request EXCEPT ![s] = IF request[s].op = "invest"
                   THEN [@ EXCEPT !.at = "profile", !.user = Len(users) + 1] ELSE Idle]
       ELSE Done(s) /\ UNCHANGED <<users, mixed>>
    /\ UNCHANGED <<uniqueIndex, investors, begun, shocks, crossed, detached, broken>>

\* investors.create with the new account.
CreateProfile(s) ==
    /\ At(s, "invest", "profile")
    /\ investors' = Append(investors,
           [email |-> request[s].email, user |-> request[s].user,
            deleted |-> FALSE, purged |-> FALSE])
    /\ Done(s)
    /\ UNCHANGED <<uniqueIndex, users, begun, shocks, history>>

\* seedAdmin: a live account is left alone, a deleted one restored, else one
\* is created.
SeedAdmin(s) ==
    /\ At(s, "seed", "accounts")
    /\ \E i \in FindAny(users, request[s].email) :
        IF i = 0 THEN Goto(s, "create")
        ELSE IF Refused(users, i) THEN Done(s)
        ELSE request' = [request EXCEPT ![s].at = "restore", ![s].user = i]
    /\ UNCHANGED <<database, begun, shocks, history>>

\* restoreById, which raises on a duplicate of the unique index.
RestoreAccount(s) ==
    LET u == request[s].user  e == request[s].email IN
    /\ At(s, "seed", "restore")
    /\ IF users[u].deleted /\ ~users[u].purged /\ Accepts(e)
       THEN /\ users' = Restore(users, u)
            /\ mixed' = mixed \cup {e}
            /\ detached' = detached \cup {u}
            /\ Goto(s, "promote")
       ELSE Done(s) /\ UNCHANGED <<users, mixed, detached>>
    /\ UNCHANGED <<uniqueIndex, investors, begun, shocks, crossed, broken>>

\* user.save() with the new password, the admin role, active; saving a purged
\* document is an error.
PromoteAccount(s) ==
    LET u == request[s].user IN
    /\ At(s, "seed", "promote")
    /\ users' = IF users[u].purged THEN users
                ELSE [users EXCEPT ![u].role = "admin", ![u].active = TRUE]
    /\ Done(s)
    /\ UNCHANGED <<uniqueIndex, investors, begun, shocks, history>>

\* investor.service remove: softDeleteById filters the profiles that are live.
RemoveInvestor(s) ==
    \E i \in DOMAIN investors :
        /\ ~investors[i].deleted
        /\ Begin(s, "remove", "account", investors[i].email, investors[i].user)
        /\ investors' = SoftDelete(investors, i)
        /\ UNCHANGED <<uniqueIndex, users, shocks, history>>

\* Mutant: the account of a removed investor is left as it is.
RemoveAccountNot(s) ==
    /\ At(s, "remove", "account")
    /\ Done(s)
    /\ UNCHANGED <<database, begun, shocks, history>>

RemoveAccount(s) ==
    /\ At(s, "remove", "account")
    /\ users' = SoftDelete(users, request[s].user)
    /\ Done(s)
    /\ UNCHANGED <<uniqueIndex, investors, begun, shocks, history>>

\* user.service softDeleteUser: the account alone.
SoftDeleteUser(s) ==
    \E u \in DOMAIN users :
        /\ ~Busy(s) /\ begun < MaxRequests /\ begun' = begun + 1
        /\ ~users[u].deleted
        /\ users' = SoftDelete(users, u)
        /\ detached' = detached \cup {u}
        /\ UNCHANGED <<uniqueIndex, investors, request, shocks, mixed, crossed, broken>>

\* adminUpdateUser: isActive or role, on an account that is not deleted.
AdminUpdateUser(s) ==
    \E u \in DOMAIN users :
        /\ ~Busy(s) /\ begun < MaxRequests /\ begun' = begun + 1
        /\ ~users[u].deleted
        /\ \/ users' = [users EXCEPT ![u].active = ~@]
           \/ \E r \in {"admin", "investor"} : users' = [users EXCEPT ![u].role = r]
        /\ UNCHANGED <<uniqueIndex, investors, request, shocks, history>>

\* cleanupSoftDeletedUsers: deleteMany, which no soft-delete filter turns away,
\* removes the accounts that were deleted long enough ago, one or more here.
CleanupSoftDeletedUsers ==
    \E U \in (SUBSET {u \in DOMAIN users : users[u].deleted /\ ~users[u].purged}) \ {{}} :
        /\ shocks < MaxShocks /\ shocks' = shocks + 1
        /\ users' = [u \in DOMAIN users |->
               IF u \in U THEN [users[u] EXCEPT !.purged = TRUE] ELSE users[u]]
        /\ UNCHANGED <<uniqueIndex, investors, request, begun, history>>

\* A database call is rejected, or the process stops, in the middle of a request.
CutShort(s) ==
    /\ Busy(s) /\ shocks < MaxShocks /\ shocks' = shocks + 1
    /\ broken' = broken \cup {request[s].email}
    /\ Done(s)
    /\ UNCHANGED <<database, begun, mixed, crossed, detached>>

Handle(s) ==
    \/ StartRegister(s) \/ StartInvestor(s) \/ StartSeed(s)
    \/ CheckProfiles(s) \/ CheckAccounts(s)
    \/ CreateAccount(s) \/ CreateProfile(s)
    \/ SeedAdmin(s) \/ RestoreAccount(s) \/ PromoteAccount(s)
    \/ RemoveInvestor(s) \/ RemoveAccount(s) \/ SoftDeleteUser(s)
    \/ AdminUpdateUser(s) \/ CutShort(s)

Next == (\E s \in Slots : Handle(s)) \/ CleanupSoftDeletedUsers

Spec == Init /\ [][Next]_vars
-----------------------------------------------------------------------------
(* Properties. *)

TypeOK ==
    /\ uniqueIndex \in BOOLEAN /\ Len(users) <= MaxAccounts
    /\ \A i \in DOMAIN users : users[i].email \in Emails /\ users[i].role \in {"admin", "investor"}
                               /\ (users[i].purged => users[i].deleted)
    /\ \A i \in DOMAIN investors : investors[i].user \in DOMAIN users
    /\ begun \in 0 .. MaxRequests /\ shocks \in 0 .. MaxShocks
    /\ detached \subseteq DOMAIN users

\* An e-mail signs in to at most one account.  Without the unique index the
\* check before the write is enough only while no two requests create the
\* account at once and no deleted account of the e-mail hides the live one.
OneAccountPerEmail ==
    \A e \in Emails : uniqueIndex \/ e \notin mixed \cup crossed
        => Cardinality(LiveMatches(users, e)) <= 1

\* Once no request works on an e-mail, an investor profile and its account are
\* live or deleted together, unless a call failed between their two writes or
\* the account was deleted or restored by itself.
ProfileAndAccountTogether ==
    \A i \in DOMAIN investors :
        LET p == investors[i] IN
        (/\ p.email \notin broken /\ p.user \notin detached
         /\ \A s \in Slots : request[s].email # p.email)
        => (p.deleted <=> users[p.user].deleted) /\ users[p.user].email = p.email

\* What the checks before a write and the order of the writes promise of the
\* accounts, with no transaction around them.
AccountsConsistent == OneAccountPerEmail /\ ProfileAndAccountTogether
=============================================================================
