----------------------------- MODULE MCServices -----------------------------
(***************************************************************************)
(* The parts of the backend with liveness properties, in one instance as   *)
(* in MCPlatform: `part` says which of them a behaviour is about, and the  *)
(* variables of the others keep their initial values.  Fairness is asked   *)
(* of the part that moves alone.  No symmetry: it is not sound here.       *)
(***************************************************************************)
EXTENDS SignIn, TLC

CONSTANTS
    MaxWrites,                                      \* of the caches
    AccessSlots, Users, Bundles, MaxChanges,        \* of the access control
    MongoRetries, RedisRetries, MaxOutages,         \* of the process
    MaxEvents, MaxJobs, Attempts, Memory            \* of the queues

VARIABLES
    part,
    pageView, pagePrefixed, pageUp, pageLost, pageVersion, pageCache,
    pageRequest, pageWritten, pageFloor, pageLate,
    grantUp, grantLost, grantRoleOf, grantOverrides, grantStatus,
    grantGrants, grantRoleLive, grantPermLive, grantLocked, grantToken,
    grantBlacklist, grantRequest, grantChanges, grantHeldSince, grantHeldNow,
    grantLeft,
    runBoot, runAttempt, runMongo, runRedis, runRetries, runServerUp,
    runOutages, runProbe, runWorkers, runCron, runIo, runHttp, runStop,
    runTimer, runExit, runStuck, runEarly, runProbed, runGiveUp,
    runFailedInARow,
    jobHandlers, jobEvents, jobJobs, jobAdded, jobEffects, jobInbox,
    jobShocks, jobUnsure, jobStalls, jobCut, jobWanted

pageVars ==
    <<pageView, pagePrefixed, pageUp, pageLost, pageVersion, pageCache,
      pageRequest, pageWritten, pageFloor, pageLate>>
grantVars ==
    <<grantUp, grantLost, grantRoleOf, grantOverrides, grantStatus,
      grantGrants, grantRoleLive, grantPermLive, grantLocked, grantToken,
      grantBlacklist, grantRequest, grantChanges, grantHeldSince, grantHeldNow,
      grantLeft>>
runVars ==
    <<runBoot, runAttempt, runMongo, runRedis, runRetries, runServerUp,
      runOutages, runProbe, runWorkers, runCron, runIo, runHttp, runStop,
      runTimer, runExit, runStuck, runEarly, runProbed, runGiveUp,
      runFailedInARow>>
jobVars ==
    <<jobHandlers, jobEvents, jobJobs, jobAdded, jobEffects, jobInbox,
      jobShocks, jobUnsure, jobStalls, jobCut, jobWanted>>
serviceVars == <<part, vars, pageVars, grantVars, runVars, jobVars>>

-----------------------------------------------------------------------------
(* A profile, which shows the role of its user, and a list of users, whose *)
(* roles are left out here: the profile has what a joined resource brings. *)
PageViews == {"profile", "users"}
PageJoins ==
    [v \in PageViews |-> IF v = "profile" THEN {"users", "roles"} ELSE {"users"}]

Caches == INSTANCE ResponseCache WITH
    Views <- PageViews, Owner <- [v \in PageViews |-> "users"],
    Joins <- PageJoins, ExactKeys <- {"profile"},
    view <- pageView, prefixed <- pagePrefixed, up <- pageUp, lost <- pageLost,
    version <- pageVersion, cache <- pageCache, request <- pageRequest,
    written <- pageWritten, floor <- pageFloor, late <- pageLate

Access == INSTANCE AccessControl WITH
    Slots <- AccessSlots, up <- grantUp, lost <- grantLost,
    roleOf <- grantRoleOf, overrides <- grantOverrides,
    status <- grantStatus, grants <- grantGrants, roleLive <- grantRoleLive,
    permLive <- grantPermLive, locked <- grantLocked, token <- grantToken,
    blacklist <- grantBlacklist, request <- grantRequest,
    changes <- grantChanges, heldSince <- grantHeldSince,
    heldNow <- grantHeldNow, left <- grantLeft

Process == INSTANCE ServerLifecycle WITH
    boot <- runBoot,
    attempt <- runAttempt, mongo <- runMongo, redis <- runRedis,
    retries <- runRetries, serverUp <- runServerUp, outages <- runOutages,
    probe <- runProbe, workers <- runWorkers, cron <- runCron, io <- runIo,
    http <- runHttp, stop <- runStop, timer <- runTimer, exit <- runExit,
    stuck <- runStuck, early <- runEarly, probed <- runProbed,
    giveUp <- runGiveUp, failedInARow <- runFailedInARow

Queues == INSTANCE JobQueue WITH
    handlers <- jobHandlers, events <- jobEvents, jobs <- jobJobs,
    added <- jobAdded, effects <- jobEffects, inbox <- jobInbox,
    shocks <- jobShocks, unsure <- jobUnsure, stalls <- jobStalls,
    cut <- jobCut, wanted <- jobWanted

-----------------------------------------------------------------------------
(* Where a part is not the one the behaviour is about, one initial state   *)
(* of it is enough.                                                        *)
ServicesInit ==
    /\ part \in {"signin", "caches", "access", "process", "queues"}
    /\ Init
    /\ Caches!Init /\ (part # "caches" => pageView = "users" /\ ~pagePrefixed)
    /\ Access!Init
    /\ part # "access" => /\ \A u \in Users : grantRoleOf[u] = "admin"
                          /\ grantGrants["desk"] = CHOOSE P \in Bundles : TRUE
    /\ Process!Init /\ (part # "process" => runServerUp /\ ~runStuck)
    /\ Queues!Init

SignInStep ==
    /\ part = "signin" /\ Next
    /\ UNCHANGED <<part, pageVars, grantVars, runVars, jobVars>>

CacheStep ==
    /\ part = "caches" /\ Caches!Next
    /\ UNCHANGED <<part, vars, grantVars, runVars, jobVars>>

AccessStep ==
    /\ part = "access" /\ Access!Next
    /\ UNCHANGED <<part, vars, pageVars, runVars, jobVars>>

ProcessStep ==
    /\ part = "process" /\ Process!Next
    /\ UNCHANGED <<part, vars, pageVars, grantVars, jobVars>>

QueueStep ==
    /\ part = "queues" /\ Queues!Next
    /\ UNCHANGED <<part, vars, pageVars, grantVars, runVars>>

ServicesNext ==
    \/ SignInStep
    \/ CacheStep
    \/ AccessStep
    \/ ProcessStep
    \/ QueueStep

(* The fairness of the parts (FairSpec of each): requests being served go  *)
(* on, times to live pass, the timers and the workers of the process run.  *)
ServicesFairness ==
    /\ WF_vars(part = "signin" /\ CounterLapses)
    /\ \A s \in Slots : WF_vars(part = "signin" /\ Busy(s) /\ Serve(s))
    /\ \A c \in Caches!Caches : WF_pageVars(part = "caches" /\ Caches!Expire(c))
    /\ \A s \in Slots : WF_pageVars(part = "caches" /\ Caches!Progress(s))
    /\ WF_runVars(part = "process" /\ Process!Start)
    /\ WF_runVars(part = "process" /\ Process!Reconnect)
    /\ WF_runVars(part = "process" /\ Process!ProbeEnds)
    /\ WF_runVars(part = "process" /\ Process!ForceExit)
    /\ \A j \in 1..MaxJobs : WF_jobVars(part = "queues" /\ Queues!Work(j))

ServicesSpec == ServicesInit /\ [][ServicesNext]_serviceVars /\ ServicesFairness

-----------------------------------------------------------------------------
(* The properties of the parts, each where its part is the one that moves. *)

(* Every part keeps its types. *)
ServicesTypeOK ==
    /\ part = "signin" => TypeOK
    /\ part = "caches" => Caches!TypeOK
    /\ part = "access" => Access!TypeOK
    /\ part = "process" => Process!TypeOK
    /\ part = "queues" => Queues!TypeOK

\* A cache that was cleared holds what was read after that, but for late pages.
WritesReachTheCaches == part = "caches" => Caches!WritesReachTheCaches
\* The caches agree with the database some time after the last write.
CachesBecomeFresh == part = "caches" => Caches!CachesBecomeFresh
\* What a request does follows from grants its user held.
GrantsDecide == Access!GrantsDecide
\* The process keeps Redis through outages and exits clean.
ProcessSafe == part = "process" => Process!ProcessSafe
\* No start, shutdown or reconnection hangs.
ProcessSettles == part = "process" => Process!ProcessSettles
\* Events become jobs, jobs become mails and notifications.
JobsDelivered == part = "queues" => Queues!JobsDelivered
\* Every job is completed or failed in the end.
JobsSettle == part = "queues" => Queues!JobsSettle
=============================================================================
