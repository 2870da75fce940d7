-------------------------- MODULE ServerLifecycle --------------------------
(***************************************************************************)
(* The process: start() and shutdown() of server.ts with the connections   *)
(* of database.ts and redis.ts, the workers, the cron jobs, Socket.IO and  *)
(* the HTTP server.  Each await of start() and shutdown() is a step, so a  *)
(* signal may arrive anywhere in the start and the two then interleave.    *)
(*                                                                         *)
(* External facts: closing the Socket.IO server closes the HTTP server it  *)
(* is attached to; closing an HTTP server that is not listening is an      *)
(* error; closing a worker waits for its jobs and closing the HTTP server  *)
(* for its connections (`stuck`: one of them never ends).                  *)
(***************************************************************************)
EXTENDS Naturals

CONSTANTS
    MongoRetries, \* MONGODB_MAX_RETRIES, at least one: with none, start() connects to nothing
    RedisRetries, \* REDIS_MAX_RETRIES
    MaxOutages    \* times the Redis server goes away

VARIABLES
    boot,      \* where start() stands
    attempt,   \* failed attempts to reach MongoDB
    mongo,     \* "down", "up" or "closed"
    redis,     \* the client: "none", "ready", "retrying", "disabled", "closed"
    retries,   \* `times` of the last call of reconnectStrategy that gave a delay
    serverUp,  \* the Redis server answers
    outages,   \* times it went away
    probe,     \* a readiness probe waits in connectRedis
    workers, cron, io, \* running
    http,      \* "none", "created", "listening" or "closed"
    stop,      \* where shutdown() stands, "no" before
    timer,     \* the 15 s timer is armed
    exit,      \* "running", "ok" (code 0) or "error" (code 1)
    stuck,     \* a job or a connection that never ends
    \* What the properties remember of the past.
    early,     \* the signal came before the server was serving
    probed,    \* a probe found the client not ready
    giveUp,    \* why the client was disabled
    failedInARow \* reconnections that failed since the client was last ready

redisVars == <<redis, retries, serverUp, outages, probe, probed, giveUp, failedInARow>>
parts == <<workers, cron, io, http>>
vars == <<boot, attempt, mongo, redisVars, parts, stop, timer, exit, stuck, early>>

Init ==
    /\ boot = "database" /\ attempt = 0 /\ mongo = "down"
    /\ redis = "none" /\ retries = 0 /\ serverUp \in BOOLEAN /\ outages = 0 /\ probe = FALSE
    /\ workers = FALSE /\ cron = FALSE /\ io = FALSE /\ http = "none"
    /\ stop = "no" /\ timer = FALSE /\ exit = "running" /\ stuck \in BOOLEAN
    /\ early = FALSE /\ probed = FALSE /\ giveUp = "none"
    /\ failedInARow = 0

Running == exit = "running"
-----------------------------------------------------------------------------
(* start() *)

\* connectDatabase: the attempts are counted, the last failure is thrown.
ConnectDatabase ==
    /\ Running /\ boot = "database"
    /\ \/ mongo' = "up" /\ boot' = "redis" /\ UNCHANGED <<attempt, exit>>
       \/ /\ attempt' = attempt + 1
          /\ IF attempt + 1 < MongoRetries THEN UNCHANGED <<boot, exit>>
             ELSE boot' = "failed" /\ exit' = "error"
          /\ UNCHANGED mongo
    /\ UNCHANGED <<redisVars, parts, stop, timer, stuck, early>>

\* connectRedis: a first connection that fails disables Redis for good.
ConnectRedis ==
    /\ Running /\ boot = "redis" /\ boot' = "background"
    /\ IF redis = "none" /\ giveUp = "none"
       THEN /\ redis' = IF serverUp THEN "ready" ELSE "disabled"
            /\ giveUp' = IF serverUp THEN giveUp ELSE "boot"
       ELSE UNCHANGED <<redis, giveUp>>
    /\ UNCHANGED <<attempt, mongo, retries, serverUp, outages, probe, probed, failedInARow, parts, stop,
                   timer, exit, stuck, early>>

\* initEvents, the workers when Redis is ready, the cron jobs, the HTTP server.
StartBackground ==
    /\ Running /\ boot = "background" /\ boot' = "sockets"
    /\ workers' = (redis = "ready") /\ cron' = TRUE /\ http' = "created"
    /\ UNCHANGED <<attempt, mongo, redisVars, io, stop, timer, exit, stuck, early>>

\* initSocketIo returns null when it fails.
InitSockets ==
    /\ Running /\ boot = "sockets" /\ boot' = "listen"
    /\ io' \in BOOLEAN
    /\ UNCHANGED <<attempt, mongo, redisVars, workers, cron, http, stop, timer, exit, stuck, early>>

Listen ==
    /\ Running /\ boot = "listen"
    /\ \/ http' = "listening" /\ boot' = "serving" /\ UNCHANGED exit
       \/ boot' = "failed" /\ exit' = "error" /\ UNCHANGED http
    /\ UNCHANGED <<attempt, mongo, redisVars, workers, cron, io, stop, timer, stuck, early>>

Start == ConnectDatabase \/ ConnectRedis \/ StartBackground \/ InitSockets \/ Listen

-----------------------------------------------------------------------------
(* Redis comes and goes. *)

\* reconnectStrategy, called for the `times`-th time since the client was ready:
\* it gives a delay, or turns Redis off for the rest of the process.
ReconnectStrategy(times) ==
    IF times > RedisRetries
    THEN redis' = "disabled" /\ giveUp' = "retries" /\ UNCHANGED retries
    ELSE redis' = "retrying" /\ retries' = times /\ UNCHANGED giveUp

\* The server goes away; a connection that was ready closes, which is the first
\* call of reconnectStrategy.
RedisLost ==
    /\ Running /\ serverUp /\ outages < MaxOutages
    /\ serverUp' = FALSE /\ outages' = outages + 1
    /\ IF redis = "ready" THEN ReconnectStrategy(retries + 1)
                          ELSE UNCHANGED <<redis, retries, giveUp>>
    /\ UNCHANGED <<boot, attempt, mongo, probe, probed, failedInARow, parts, stop, timer,
                   exit, stuck, early>>

RedisReturns ==
    /\ Running /\ ~serverUp /\ serverUp' = TRUE
    /\ UNCHANGED <<boot, attempt, mongo, redis, retries, outages, probe, probed, giveUp, failedInARow, parts,
                   stop, timer, exit, stuck, early>>

\* Mutant: the count goes on from the outage before.
ReconnectCounting ==
    /\ Running /\ redis = "retrying"
    /\ IF serverUp THEN redis' = "ready" /\ UNCHANGED <<retries, giveUp>>
                   ELSE ReconnectStrategy(retries + 1)
    /\ failedInARow' = IF serverUp THEN 0 ELSE failedInARow + 1
    /\ UNCHANGED <<boot, attempt, mongo, serverUp, outages, probe, probed, parts, stop, timer,
                   exit, stuck, early>>

\* A reconnection: the client is ready and `times` starts again, or the
\* connection closes once more.
Reconnect ==
    /\ Running /\ redis = "retrying"
    /\ IF serverUp THEN redis' = "ready" /\ retries' = 0 /\ UNCHANGED giveUp
                   ELSE ReconnectStrategy(retries + 1)
    /\ failedInARow' = IF serverUp THEN 0 ELSE failedInARow + 1
    /\ UNCHANGED <<boot, attempt, mongo, serverUp, outages, probe, probed, parts, stop, timer,
                   exit, stuck, early>>

\* pingRedis of the readiness probe, with the client not ready: connectRedis
\* waits 3 s for it.
Probe ==
    /\ Running /\ http = "listening" /\ redis = "retrying" /\ ~probe
    /\ probe' = TRUE /\ probed' = TRUE
    /\ UNCHANGED <<boot, attempt, mongo, redis, retries, serverUp, outages, giveUp, failedInARow, parts, stop,
                   timer, exit, stuck, early>>

\* The client was ready in time, or Redis is disabled for good.
ProbeEnds ==
    /\ Running /\ probe /\ probe' = FALSE
    /\ IF redis = "retrying" THEN redis' = "disabled" /\ giveUp' = "probe"
                             ELSE UNCHANGED <<redis, giveUp>>
    /\ UNCHANGED <<boot, attempt, mongo, retries, serverUp, outages, probed, failedInARow, parts, stop, timer,
                   exit, stuck, early>>

-----------------------------------------------------------------------------
(* shutdown() *)

\* Mutant: no timer behind the orderly shutdown.
SignalUntimed ==
    /\ Running /\ stop = "no" /\ stop' = "workers"
    /\ cron' = FALSE
    /\ early' = (boot # "serving")
    /\ UNCHANGED <<boot, attempt, mongo, redisVars, workers, io, http, timer, exit, stuck>>

\* A signal, an uncaught exception or an unhandled rejection; a second one is
\* ignored.  The timer is armed and the cron jobs stopped.
Signal ==
    /\ Running /\ stop = "no" /\ stop' = "workers" /\ timer' = TRUE
    /\ cron' = FALSE
    /\ early' = (boot # "serving")
    /\ UNCHANGED <<boot, attempt, mongo, redisVars, workers, io, http, exit, stuck>>

StopWorkers ==
    /\ Running /\ stop = "workers" /\ ~(workers /\ stuck)
    /\ workers' = FALSE /\ stop' = "sockets"
    /\ UNCHANGED <<boot, attempt, mongo, redisVars, cron, io, http, timer, exit, stuck, early>>

\* io.close
CloseSockets ==
    /\ Running /\ stop = "sockets" /\ ~(io /\ stuck)
    /\ io' = FALSE /\ stop' = "http"
    /\ http' = IF io /\ http = "listening" THEN "closed" ELSE http
    /\ UNCHANGED <<boot, attempt, mongo, redisVars, workers, cron, timer, exit, stuck, early>>

\* httpServer.close: an error ends the shutdown with code 1.
CloseHttp ==
    /\ Running /\ stop = "http"
    /\ CASE http = "none" -> stop' = "redis" /\ UNCHANGED <<http, exit>>
         [] http = "listening" -> ~stuck /\ http' = "closed" /\ stop' = "redis" /\ UNCHANGED exit
         [] OTHER -> exit' = "error" /\ UNCHANGED <<stop, http>>
    /\ UNCHANGED <<boot, attempt, mongo, redisVars, workers, cron, io, timer, stuck, early>>

DisconnectRedis ==
    /\ Running /\ stop = "redis" /\ stop' = "database"
    /\ redis' = IF redis \in {"ready", "retrying"} THEN "closed" ELSE redis
    /\ UNCHANGED <<boot, attempt, mongo, retries, serverUp, outages, probe, probed, giveUp, failedInARow,
                   parts, timer, exit, stuck, early>>

DisconnectDatabase ==
    /\ Running /\ stop = "database"
    /\ mongo' = IF mongo = "up" THEN "closed" ELSE mongo
    /\ exit' = "ok"
    /\ UNCHANGED <<boot, attempt, redisVars, parts, stop, timer, stuck, early>>

\* "Forced shutdown after timeout"
ForceExit ==
    /\ Running /\ timer /\ exit' = "error"
    /\ UNCHANGED <<boot, attempt, mongo, redisVars, parts, stop, timer, stuck, early>>

Shutdown == StopWorkers \/ CloseSockets \/ CloseHttp \/ DisconnectRedis \/ DisconnectDatabase

Next ==
    \/ ConnectDatabase \/ ConnectRedis \/ StartBackground \/ InitSockets \/ Listen
    \/ RedisLost \/ RedisReturns \/ Reconnect \/ Probe \/ ProbeEnds
    \/ Signal \/ StopWorkers \/ CloseSockets \/ CloseHttp \/ DisconnectRedis
    \/ DisconnectDatabase \/ ForceExit

Spec == Init /\ [][Next]_vars
\* Promises settle or time out, reconnections are scheduled, the timer fires.
FairSpec == Spec /\ WF_vars(Start) /\ WF_vars(Reconnect) /\ WF_vars(ProbeEnds) /\ WF_vars(ForceExit)
-----------------------------------------------------------------------------
(* Properties. *)

TypeOK ==
    /\ boot \in {"database", "redis", "background", "sockets", "listen", "serving", "failed"}
    /\ attempt \in 0 .. MongoRetries /\ mongo \in {"down", "up", "closed"}
    /\ redis \in {"none", "ready", "retrying", "disabled", "closed"} /\ retries \in 0 .. RedisRetries
    /\ {serverUp, probe, workers, cron, io, timer, stuck, early, probed} \subseteq BOOLEAN
    /\ outages \in 0 .. MaxOutages /\ http \in {"none", "created", "listening", "closed"}
    /\ stop \in {"no", "workers", "sockets", "http", "redis", "database"}
    /\ failedInARow \in 0 .. RedisRetries
    /\ exit \in {"running", "ok", "error"} /\ giveUp \in {"none", "boot", "retries", "probe"}

\* A process that was serving when it was told to stop and exits with code 0 has
\* closed everything it opened.
CleanExit ==
    exit = "ok" /\ ~early =>
        /\ ~workers /\ ~cron /\ ~io /\ http = "closed" /\ mongo = "closed"
        /\ redis \in {"closed", "disabled"}

\* Redis is turned off for the rest of the process only when it was away at the
\* start, because a readiness probe came while the client was reconnecting, or
\* after exactly REDIS_MAX_RETRIES reconnections failed in a row since it was last
\* ready: no outage is given fewer, whatever outages came before, and none more.
OutagesSurvived ==
    redis = "disabled" /\ giveUp = "retries" => failedInARow = RedisRetries

\* A process told to stop exits, whatever a job or a connection does.
ShutdownEnds == stop # "no" ~> exit # "running"

\* A start ends: the server listens, or the process exits.
StartEnds == boot # "serving" ~> boot = "serving" \/ exit # "running"

\* A client that is reconnecting is ready again or given up in the end.
ReconnectingEnds == redis = "retrying" ~> redis # "retrying" \/ exit # "running"

\* What the process promises of its connections while it runs and when it exits.
ProcessSafe == CleanExit /\ OutagesSurvived

\* No start, shutdown or reconnection hangs.
ProcessSettles == ShutdownEnds /\ StartEnds /\ ReconnectingEnds
=============================================================================
