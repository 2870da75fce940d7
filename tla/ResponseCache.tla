--------------------------- MODULE ResponseCache ---------------------------
(***************************************************************************)
(* The two caches a GET request is answered from: whole responses          *)
(* (cacheMiddleware) in front of the service results (CacheService), and   *)
(* how a write clears them: the service deletes its own keys before it     *)
(* answers, cacheInvalidator deletes the responses after the answer was    *)
(* sent.  Both are kept in Redis with a time to live.                      *)
(*                                                                         *)
(* Pages have keys of their own and do not influence each other, so a      *)
(* behaviour follows one of them, `view`.  It reads the resources          *)
(* Joins[view]; the writes of one of them, Owner[view], clear it.  The     *)
(* content of a page is the version of each resource it was computed from. *)
(***************************************************************************)
EXTENDS Naturals

CONSTANTS
    Slots,       \* requests served at a time
    Views,       \* cached pages
    Owner,       \* the resource whose writes clear a page
    Joins,       \* the resources a page reads
    ExactKeys,   \* pages whose service key is deleted by name, not by pattern
    MaxWrites    \* writes ever begun

Caches == {"service", "response"}

VARIABLES
    view,         \* the page followed
    prefixed,     \* REDIS_KEY_PREFIX is not empty: patterns match nothing
    up,           \* the Redis client is ready
    lost,         \* the connection has been lost once
    version,      \* the database: how often each resource was written
    cache,        \* Redis: what cache:<view> and http:cache:<view> hold, or NoPage
    request,      \* the request in each slot
    written,      \* writes begun so far
    \* What the properties remember of the past.
    floor,        \* the version of Owner[view] in the database when each cache was cleared last
    late          \* the page of each cache was read before a clearing and stored after it

connection == <<view, prefixed, up, lost>>
stored == <<cache, floor, late>>
vars == <<connection, version, stored, request, written>>

NoPage == [r \in {} |-> 0]
Idle == [op |-> "idle", on |-> "none", clears |-> {}, page |-> NoPage, late |-> FALSE]

Init ==
    /\ view \in Views
    /\ prefixed \in BOOLEAN /\ up = TRUE /\ lost = FALSE
    /\ version = [r \in Joins[view] |-> 0] /\ written = 0
    /\ cache = [c \in Caches |-> NoPage]
    /\ request = [s \in Slots |-> Idle]
    /\ floor = [c \in Caches |-> 0] /\ late = [c \in Caches |-> FALSE]

Busy(s) == request[s].op # "idle"
At(s, op) == request[s].op = op
Goto(s, op) == request' = [request EXCEPT ![s].op = op]
Done(s) == request' = [request EXCEPT ![s] = Idle]
Reads == {"lookup", "compute", "fillService", "fillResponse"}
Writes == {"write", "clearService", "clearResponses"}
\* A read that has its page.
Filling(r) == r.op \in {"fillService", "fillResponse"}

-----------------------------------------------------------------------------
(* A GET: cacheMiddleware, then CacheService.getOrSet. *)

\* A cached response is answered at once and changes nothing.
StartRead(s) ==
    /\ ~Busy(s) /\ ~(up /\ cache["response"] # NoPage)
    /\ Goto(s, "lookup")
    /\ UNCHANGED <<connection, version, stored, written>>

LookUpService(s) ==
    /\ At(s, "lookup")
    /\ request' = [request EXCEPT ![s] =
           IF up /\ cache["service"] # NoPage
           THEN [@ EXCEPT !.op = "fillResponse", !.page = cache["service"],
                          !.late = late["service"]]
           ELSE [@ EXCEPT !.op = "compute"]]
    /\ UNCHANGED <<connection, version, stored, written>>

\* The factory reads the database.
Compute(s) ==
    /\ At(s, "compute")
    /\ request' = [request EXCEPT ![s].op = "fillService", ![s].page = version]
    /\ UNCHANGED <<connection, version, stored, written>>

\* The page of a read is kept in a cache.
Store(s, c) ==
    /\ cache' = IF up THEN [cache EXCEPT ![c] = request[s].page] ELSE cache
    /\ late' = IF up THEN [late EXCEPT ![c] = request[s].late] ELSE late
    /\ UNCHANGED <<connection, version, floor, written>>

FillService(s) ==
    /\ At(s, "fillService") /\ Store(s, "service") /\ Goto(s, "fillResponse")

\* The response is stored beside being sent; nothing waits for it.
FillResponse(s) ==
    /\ At(s, "fillResponse") /\ Store(s, "response") /\ Done(s)

-----------------------------------------------------------------------------
(* A write of a resource: a user, a role or a permission. *)

\* What a write of r clears of the page.  Nothing, where the page only joins r,
\* and for the writes of users by verifyEmail, the sign-ins, the investor service
\* and the seeders.  A user who edits the own profile leaves the service's lists
\* to cacheInvalidator.
Clearings(r) ==
    IF r # Owner[view] THEN {{}}
    ELSE {{}, Caches} \cup (IF view \in ExactKeys THEN {} ELSE {{"response"}})

StartWrite(s) ==
    \E r \in Joins[view] :
        /\ ~Busy(s) /\ written < MaxWrites /\ written' = written + 1
        /\ \E c \in Clearings(r) :
               request' = [request EXCEPT ![s] =
                   [op |-> "write", on |-> r, clears |-> c, page |-> NoPage, late |-> FALSE]]
        /\ UNCHANGED <<connection, version, stored>>

WriteDatabase(s) ==
    /\ At(s, "write")
    /\ version' = [version EXCEPT ![request[s].on] = @ + 1]
    /\ request' = [request EXCEPT ![s] =
           IF @.clears = {} THEN Idle ELSE [@ EXCEPT !.op = "clearService", !.on = "none"]]
    /\ UNCHANGED <<connection, stored, written>>

\* The keys of the caches in C are deleted and the request of s goes on as r.  A
\* read that has its page by now stores it afterwards.
Clear(s, C, r) ==
    /\ cache' = [c \in Caches |-> IF c \in C THEN NoPage ELSE cache[c]]
    /\ floor' = [c \in Caches |-> IF c \in C THEN version[Owner[view]] ELSE floor[c]]
    /\ late' = [c \in Caches |-> c \notin C /\ late[c]]
    /\ request' = [x \in Slots |->
           IF x = s THEN r
           ELSE IF C # {} /\ Filling(request[x]) THEN [request[x] EXCEPT !.late = TRUE]
           ELSE request[x]]
    /\ UNCHANGED <<connection, version, written>>

\* cache.invalidate by name or cache.invalidatePattern, before the answer.
ServiceClears(s) ==
    IF up /\ "service" \in request[s].clears /\ (view \in ExactKeys \/ ~prefixed)
    THEN {"service"} ELSE {}

\* Mutant: the service key stays until its time to live is over.
ClearServiceNot(s) ==
    /\ At(s, "clearService")
    /\ floor' = [floor EXCEPT !["service"] =
           IF ServiceClears(s) = {} THEN @ ELSE version[Owner[view]]]
    /\ Goto(s, "clearResponses")
    /\ UNCHANGED <<connection, version, cache, late, written>>

ClearService(s) ==
    /\ At(s, "clearService")
    /\ Clear(s, ServiceClears(s), [Idle EXCEPT !.op = "clearResponses"])

\* cacheInvalidator, once the answer was sent; its patterns match the keys of
\* both caches.
ClearResponses(s) ==
    /\ At(s, "clearResponses")
    /\ Clear(s, IF up /\ ~prefixed THEN Caches ELSE {}, Idle)

-----------------------------------------------------------------------------
\* Mutant: responses are stored without a time to live.
ExpireServiceAlone(c) ==
    /\ c = "service" /\ cache[c] # NoPage
    /\ cache' = [cache EXCEPT ![c] = NoPage] /\ late' = [late EXCEPT ![c] = FALSE]
    /\ UNCHANGED <<connection, version, floor, request, written>>

\* The time to live of an entry passes.
Expire(c) ==
    /\ cache[c] # NoPage
    /\ cache' = [cache EXCEPT ![c] = NoPage] /\ late' = [late EXCEPT ![c] = FALSE]
    /\ UNCHANGED <<connection, version, floor, request, written>>

RedisLost ==
    /\ up /\ ~lost /\ up' = FALSE /\ lost' = TRUE
    /\ UNCHANGED <<view, prefixed, version, stored, request, written>>

RedisBack ==
    /\ ~up /\ up' = TRUE
    /\ UNCHANGED <<view, prefixed, lost, version, stored, request, written>>

Progress(s) ==
    \/ LookUpService(s) \/ Compute(s) \/ FillService(s) \/ FillResponse(s)
    \/ WriteDatabase(s) \/ ClearService(s) \/ ClearResponses(s)

Next ==
    \/ \E s \in Slots : StartRead(s) \/ StartWrite(s) \/ Progress(s)
    \/ \E c \in Caches : Expire(c)
    \/ RedisLost \/ RedisBack

Spec == Init /\ [][Next]_vars

\* Requests being served go on, and the times to live of the entries pass.
FairSpec ==
    Spec /\ (\A c \in Caches : WF_vars(Expire(c))) /\ \A s \in Slots : WF_vars(Progress(s))

-----------------------------------------------------------------------------
(* Properties. *)

Pages == [Joins[view] -> 0 .. MaxWrites] \cup {NoPage}

TypeOK ==
    /\ view \in Views /\ prefixed \in BOOLEAN /\ up \in BOOLEAN /\ lost \in BOOLEAN
    /\ version \in [Joins[view] -> 0 .. MaxWrites] /\ written \in 0 .. MaxWrites
    /\ cache \in [Caches -> Pages] /\ late \in [Caches -> BOOLEAN]
    /\ floor \in [Caches -> 0 .. MaxWrites]
    /\ \A s \in Slots : /\ request[s].op \in Reads \cup Writes \cup {"idle"}
                        /\ request[s].clears \subseteq Caches
                        /\ request[s].page \in Pages /\ request[s].late \in BOOLEAN

\* Once a write cleared a cache, what the cache holds was read after that write
\* and all before it, however reads, writes, expiry and outages interleave.  The
\* one exception is a page that was read before the clearing and stored after
\* it, directly or through the service's cache.
WritesReachTheCaches ==
    \A c \in Caches :
        cache[c] # NoPage /\ ~late[c] => cache[c][Owner[view]] >= floor[c]

Fresh == \A c \in Caches : cache[c] \in {NoPage, version}

\* Whatever was missed by an invalidation, by a write that clears nothing, by a
\* late page, a join or an outage, the caches agree with the database some time
\* after the last write.
CachesBecomeFresh == <>[]Fresh
=============================================================================
