---------------------------- MODULE OneTimeCodes ----------------------------
(***************************************************************************)
(* Password recovery for one e-mail address: the one-time codes of         *)
(* src/src/services/otp.service.ts, kept in Redis or, while Redis is away, *)
(* in the process's memory, and the reset tokens of token.service.ts that  *)
(* a code is exchanged for, with the handlers of auth.service.ts that use  *)
(* them.  One action per await.                                            *)
(***************************************************************************)
EXTENDS Naturals, RedisStore

CONSTANTS
    Slots,         \* requests served at a time
    MaxAttempts,   \* verify's maxAttempts
    MaxCodes,      \* codes ever generated
    MaxRequests,   \* requests ever begun
    MaxShocks      \* times Redis goes away

VARIABLES
    up,          \* the Redis client is ready
    shocks,      \* times Redis has gone away
    changed,     \* Redis went away or came back since the start
    inRedis,     \* the entry under otp:password_reset:<email>, or NoEntry
    inMemory,    \* the entry of memoryOtps, or NoEntry
    generated,   \* codes generated so far
    resetTokens, \* Redis: the reset tokens with a key pwdreset:<hash>
    pointer,     \* Redis: pwdreset:user:<id>
    exchanged,   \* reset tokens issued so far
    request,     \* the request in each slot
    begun,       \* requests begun so far
    \* What the properties remember of the past.
    met,         \* two requests were in flight at once
    accepted,    \* how often each code was accepted
    wrong,       \* how many wrong guesses were answered while each code was newest
    spent,       \* how often each reset token was accepted
    dead         \* codes generated before a completed reset

codes == <<inRedis, inMemory, generated>>
tokens == <<resetTokens, pointer, exchanged>>
connection == <<up, shocks, changed>>
history == <<accepted, wrong, spent, dead>>
vars == <<connection, codes, tokens, request, begun, met, history>>

Codes == 1 .. MaxCodes
Tokens == 1 .. MaxRequests
None == 0
NoEntry == [otp |-> None, attempts |-> 0]
Entry(otp, attempts) == [otp |-> otp, attempts |-> attempts]
Idle == [op |-> "idle", at |-> "idle", guess |-> None, entry |-> NoEntry, token |-> None]

Init ==
    /\ up \in BOOLEAN /\ shocks = 0 /\ changed = FALSE
    /\ inRedis = NoEntry /\ inMemory = NoEntry /\ generated = 0
    /\ resetTokens = {} /\ pointer = None /\ exchanged = 0
    /\ request = [s \in Slots |-> Idle] /\ begun = 0 /\ met = FALSE
    /\ accepted = [c \in Codes |-> 0] /\ wrong = [c \in Codes |-> 0]
    /\ spent = [t \in Tokens |-> 0] /\ dead = {}

Busy(s) == request[s].op # "idle"
At(s, place) == request[s].at = place
Goto(s, place) == request' = [request EXCEPT ![s].at = place]
Done(s) == request' = [request EXCEPT ![s] = Idle]

Begin(s, r) ==
    /\ ~Busy(s) /\ begun < MaxRequests
    /\ begun' = begun + 1
    /\ request' = [request EXCEPT ![s] = r]
    /\ met' = (met \/ \E x \in Slots : Busy(x))

-----------------------------------------------------------------------------
(* forgotPassword: OtpService.generate. *)

StartForgot(s) ==
    /\ Begin(s, [Idle EXCEPT !.op = "forgot", !.at = "generate"])
    /\ UNCHANGED <<connection, codes, tokens, history>>

\* The entry goes to memory only when Redis did not take it; an older entry
\* in the other store stays.
Generate(s) ==
    /\ At(s, "generate") /\ generated < MaxCodes
    /\ generated' = generated + 1
    /\ IF up THEN inRedis' = Entry(generated + 1, 0) /\ UNCHANGED inMemory
             ELSE inMemory' = Entry(generated + 1, 0) /\ UNCHANGED inRedis
    /\ Done(s)
    /\ UNCHANGED <<connection, tokens, begun, met, history>>

-----------------------------------------------------------------------------
(* OtpService.verify, for verifyPasswordResetOtp and for resetPassword with  *)
(* an e-mail and a code.  A guess is a code generated earlier or a wrong one. *)

StartVerify(s) ==
    \E guess \in 0 .. generated, op \in {"verify", "resetByCode"} :
        /\ generated > 0
        /\ Begin(s, [Idle EXCEPT !.op = op, !.at = "read", !.guess = guess])
        /\ UNCHANGED <<connection, codes, tokens, history>>

CountWrong ==
    wrong' = [wrong EXCEPT ![generated] = @ + 1]

Found == IF up /\ inRedis # NoEntry THEN inRedis ELSE inMemory
FromMemory == ~(up /\ inRedis # NoEntry)

NotFound(s) ==
    /\ At(s, "read") /\ request[s].op \in {"verify", "resetByCode"}
    /\ Found = NoEntry
    /\ Done(s)
    /\ UNCHANGED <<connection, codes, tokens, begun, met, history>>

\* maxAttempts were made: the entries are deleted.
TooMany(s) ==
    /\ At(s, "read") /\ request[s].op \in {"verify", "resetByCode"}
    /\ Found # NoEntry /\ Found.attempts >= MaxAttempts
    /\ inMemory' = NoEntry /\ inRedis' = IF up THEN NoEntry ELSE inRedis
    /\ Done(s)
    /\ UNCHANGED <<connection, generated, tokens, begun, met, history>>

\* The entry in memory is an object: the attempt is counted with the check.
WrongInMemory(s) ==
    /\ At(s, "read") /\ request[s].op \in {"verify", "resetByCode"}
    /\ Found # NoEntry /\ Found.attempts < MaxAttempts /\ FromMemory
    /\ Found.otp # request[s].guess
    /\ inMemory' = [inMemory EXCEPT !.attempts = @ + 1]
    /\ Done(s) /\ CountWrong
    /\ UNCHANGED <<connection, inRedis, generated, tokens, begun, met, accepted, spent, dead>>

\* The entry read from Redis is a copy, written back after another await.
WrongInRedis(s) ==
    /\ At(s, "read") /\ request[s].op \in {"verify", "resetByCode"}
    /\ Found # NoEntry /\ Found.attempts < MaxAttempts /\ ~FromMemory
    /\ Found.otp # request[s].guess
    /\ request' = [request EXCEPT ![s].at = "writeBack",
                       ![s].entry = [Found EXCEPT !.attempts = @ + 1]]
    /\ UNCHANGED <<connection, codes, tokens, begun, met, history>>

WriteBack(s) ==
    /\ At(s, "writeBack")
    /\ inRedis' = IF up THEN request[s].entry ELSE inRedis
    /\ Done(s) /\ CountWrong
    /\ UNCHANGED <<connection, inMemory, generated, tokens, begun, met, accepted, spent, dead>>

RightCode(s) ==
    /\ At(s, "read") /\ request[s].op \in {"verify", "resetByCode"}
    /\ Found # NoEntry /\ Found.attempts < MaxAttempts
    /\ Found.otp = request[s].guess
    /\ Goto(s, "consume")
    /\ UNCHANGED <<connection, codes, tokens, begun, met, history>>

\* Mutant: the entry in memory is left behind.
ConsumeInRedis(s) ==
    /\ At(s, "consume")
    /\ inRedis' = IF up THEN NoEntry ELSE inRedis
    /\ accepted' = [accepted EXCEPT ![request[s].guess] = @ + 1]
    /\ Goto(s, IF request[s].op = "verify" THEN "previous" ELSE "save")
    /\ UNCHANGED <<connection, inMemory, generated, tokens, begun, met, wrong, spent, dead>>

Consume(s) ==
    /\ At(s, "consume")
    /\ inRedis' = IF up THEN NoEntry ELSE inRedis
    /\ inMemory' = NoEntry
    /\ accepted' = [accepted EXCEPT ![request[s].guess] = @ + 1]
    /\ Goto(s, IF request[s].op = "verify" THEN "previous" ELSE "save")
    /\ UNCHANGED <<connection, generated, tokens, begun, met, wrong, spent, dead>>

-----------------------------------------------------------------------------
(* storePasswordResetToken, after verifyPasswordResetOtp. *)

\* The token issued before is deleted.
DropPrevious(s) ==
    /\ At(s, "previous")
    /\ resetTokens' = RedisDel(resetTokens, up, {pointer})
    /\ Goto(s, "storeToken")
    /\ UNCHANGED <<connection, codes, pointer, exchanged, begun, met, history>>

\* A token that Redis did not take is answered all the same.
StoreResetToken(s) ==
    /\ At(s, "storeToken")
    /\ exchanged' = exchanged + 1
    /\ resetTokens' = RedisSet(resetTokens, up, exchanged + 1)
    /\ pointer' = IF up THEN exchanged + 1 ELSE pointer
    /\ Done(s)
    /\ UNCHANGED <<connection, codes, begun, met, history>>

-----------------------------------------------------------------------------
(* resetPassword. *)

StartReset(s) ==
    \E t \in 1 .. exchanged :
        /\ Begin(s, [Idle EXCEPT !.op = "reset", !.at = "readToken", !.token = t])
        /\ UNCHANGED <<connection, codes, tokens, history>>

ReadResetToken(s) ==
    /\ At(s, "readToken")
    /\ IF RedisGet(resetTokens, up, request[s].token) THEN Goto(s, "dropToken") ELSE Done(s)
    /\ UNCHANGED <<connection, codes, tokens, begun, met, history>>

DropResetToken(s) ==
    /\ At(s, "dropToken")
    /\ resetTokens' = RedisDel(resetTokens, up, {request[s].token})
    /\ pointer' = IF up THEN None ELSE pointer
    /\ spent' = [spent EXCEPT ![request[s].token] = @ + 1]
    /\ Goto(s, "save")
    /\ UNCHANGED <<connection, codes, exchanged, begun, met, accepted, wrong, dead>>

\* The password is saved; without a ready client the scan for the refresh
\* tokens then rejects the request.
SaveNewPassword(s) ==
    /\ At(s, "save")
    /\ IF up THEN Goto(s, "invalidate") ELSE Done(s)
    /\ UNCHANGED <<connection, codes, tokens, begun, met, history>>

\* OtpService.invalidate
Invalidate(s) ==
    /\ At(s, "invalidate")
    /\ inMemory' = NoEntry
    /\ inRedis' = IF up THEN NoEntry ELSE inRedis
    /\ dead' = dead \cup 1 .. generated
    /\ Done(s)
    /\ UNCHANGED <<connection, generated, tokens, begun, met, accepted, wrong, spent>>

-----------------------------------------------------------------------------
RedisLost ==
    /\ up /\ shocks < MaxShocks
    /\ up' = FALSE /\ shocks' = shocks + 1 /\ changed' = TRUE
    /\ UNCHANGED <<codes, tokens, request, begun, met, history>>

RedisBack ==
    /\ ~up /\ up' = TRUE /\ changed' = TRUE
    /\ UNCHANGED <<shocks, codes, tokens, request, begun, met, history>>

Next ==
    \/ \E s \in Slots :
        \/ StartForgot(s) \/ Generate(s) \/ StartVerify(s)
        \/ NotFound(s) \/ TooMany(s) \/ WrongInMemory(s) \/ WrongInRedis(s)
        \/ WriteBack(s) \/ RightCode(s) \/ Consume(s)
        \/ DropPrevious(s) \/ StoreResetToken(s)
        \/ StartReset(s) \/ ReadResetToken(s) \/ DropResetToken(s)
        \/ SaveNewPassword(s) \/ Invalidate(s)
    \/ RedisLost \/ RedisBack

Spec == Init /\ [][Next]_vars

-----------------------------------------------------------------------------
(* Properties. *)

Entries == [otp : 0 .. MaxCodes, attempts : 0 .. MaxAttempts]

TypeOK ==
    /\ up \in BOOLEAN /\ changed \in BOOLEAN /\ shocks \in 0 .. MaxShocks
    /\ generated \in 0 .. MaxCodes /\ exchanged \in 0 .. MaxRequests
    /\ inRedis \in Entries /\ inMemory \in Entries
    /\ {inRedis.otp, inMemory.otp} \subseteq 0 .. generated
    /\ resetTokens \subseteq 1 .. exchanged /\ pointer \in 0 .. exchanged
    /\ \A s \in Slots : request[s].entry \in Entries

Steady == ~met /\ ~changed

\* A code is accepted once and a reset token is accepted once, unless two
\* requests overlapped or the connection to Redis changed.
CodesAndTokensUsedOnce ==
    Steady => /\ \A c \in Codes : accepted[c] <= 1
              /\ \A t \in Tokens : spent[t] <= 1

\* At most maxAttempts wrong guesses are answered for a code: always while the
\* codes are in memory, and with Redis unless two requests overlapped.
GuessesBounded ==
    \A c \in Codes :
        Steady \/ (~up /\ ~changed) => wrong[c] <= MaxAttempts

\* While the connection does not change only the newest code is in a store:
\* an older one is there only when Redis went away or came back between the
\* two, or when a wrong guess in flight wrote an older entry back.
OnlyNewestCode ==
    Steady => {inRedis.otp, inMemory.otp} \subseteq {None, generated}

\* Only the newest reset token works.
OneResetToken == Steady => resetTokens \subseteq {pointer} \ {None}

\* A reset that was answered leaves no code that was sent before it.
CodesDieWithTheReset ==
    Steady => {inRedis.otp, inMemory.otp} \cap dead = {}

\* What the recovery of a password promises of its codes and reset tokens
\* (otp.service.ts:40-130, token.service.ts:276-307).
RecoveryRules ==
    /\ CodesAndTokensUsedOnce
    /\ GuessesBounded
    /\ OnlyNewestCode
    /\ OneResetToken
    /\ CodesDieWithTheReset
=============================================================================
