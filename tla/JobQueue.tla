------------------------------ MODULE JobQueue ------------------------------
(***************************************************************************)
(* The e-mail and notification queues: the listeners of user.events.ts     *)
(* that put jobs in, the workers that take them out, the mails and         *)
(* notifications they make.  BullMQ keeps the jobs in Redis and is modelled *)
(* from how src/src/queues and src/src/jobs set it up: a job that throws   *)
(* is tried again after a back-off, up to QUEUE_ATTEMPTS times in all; a   *)
(* job whose worker died is found stalled and given to a worker again,     *)
(* once, without counting as an attempt.                                   *)
(***************************************************************************)
EXTENDS Naturals, FiniteSets

CONSTANTS
    MaxEvents, \* events published
    MaxJobs,   \* jobs ever added
    Attempts,  \* QUEUE_ATTEMPTS
    Memory,    \* notifications kept per user (200)
    MaxShocks  \* failing adds, failing mails, crashes

VARIABLES
    handlers, \* listeners at work: what each still has to add, in order
    events,   \* events published
    jobs,     \* the jobs, by number
    added,    \* jobs added
    effects,  \* mails sent and notifications stored for each job
    inbox,    \* notifications in the worker's memory, newest first
    shocks,   \* failures and crashes so far
    \* What the properties remember of the past.
    unsure,   \* mails that went out although sendMail raised, for each job
    stalls,   \* times each job was taken from a dead worker
    cut,      \* handlers that failed or died before their last add
    wanted    \* jobs the events asked for
vars == <<handlers, events, jobs, added, effects, inbox, shocks, unsure, stalls, cut, wanted>>

Jobs == 1 .. MaxJobs
NoJob == [queue |-> "none", state |-> "none", tries |-> 0, valid |-> TRUE]
Unfinished == {"waiting", "active", "performed", "delayed"}

Init ==
    /\ handlers = {} /\ events = 0
    /\ jobs = [j \in Jobs |-> NoJob] /\ added = 0
    /\ effects = [j \in Jobs |-> 0] /\ inbox = <<>> /\ shocks = 0
    /\ unsure = [j \in Jobs |-> 0] /\ stalls = [j \in Jobs |-> 0] /\ cut = 0 /\ wanted = 0

Shock == shocks < MaxShocks /\ shocks' = shocks + 1
SetState(j, state) == jobs' = [jobs EXCEPT ![j].state = state]

-----------------------------------------------------------------------------
(* The listeners. *)

\* onUserRegistered adds a mail, then a notification; without a user's e-mail
\* it adds nothing.
PublishRegistered ==
    /\ events < MaxEvents /\ events' = events + 1
    /\ \/ /\ handlers' = handlers \cup {[event |-> events + 1, todo |-> <<"email", "notification">>]}
          /\ wanted' = wanted + 2
       \/ UNCHANGED <<handlers, wanted>>
    /\ UNCHANGED <<jobs, added, effects, inbox, shocks, unsure, stalls, cut>>

\* onUserLogin adds a notification.
PublishLogin ==
    /\ events < MaxEvents /\ events' = events + 1
    /\ handlers' = handlers \cup {[event |-> events + 1, todo |-> <<"notification">>]}
    /\ wanted' = wanted + 1
    /\ UNCHANGED <<jobs, added, effects, inbox, shocks, unsure, stalls, cut>>

\* queue.add with the default options.
Added(queue, valid) ==
    /\ added < MaxJobs /\ added' = added + 1
    /\ jobs' = [jobs EXCEPT ![added + 1] =
           [queue |-> queue, state |-> "waiting", tries |-> 0, valid |-> valid]]
    /\ UNCHANGED <<events, effects, inbox, shocks, unsure, stalls, cut, wanted>>

\* Mutant: a mail that cannot be sent ends the listener.
EnqueueEmailOrStop(h) ==
    /\ h.todo = <<"email", "notification">>
    /\ \E valid \in BOOLEAN :
        /\ Added("email", valid)
        /\ handlers' = (handlers \ {h}) \cup
               (IF valid THEN {[h EXCEPT !.todo = <<"notification">>]} ELSE {})

\* A mail with no recipient is added too; the listener goes on.
EnqueueEmail(h) ==
    /\ h.todo = <<"email", "notification">>
    /\ \E valid \in BOOLEAN : Added("email", valid)
    /\ handlers' = (handlers \ {h}) \cup {[h EXCEPT !.todo = <<"notification">>]}

EnqueueNotification(h) ==
    /\ h.todo = <<"notification">>
    /\ Added("notification", TRUE)
    /\ handlers' = handlers \ {h}

\* "handler failed": what was left to add is not.
EnqueueFails(h) ==
    /\ Shock
    /\ handlers' = handlers \ {h} /\ cut' = cut + 1
    /\ UNCHANGED <<events, jobs, added, effects, inbox, unsure, stalls, wanted>>

-----------------------------------------------------------------------------
(* The workers. *)

Take(j) ==
    /\ jobs[j].state = "waiting"
    /\ SetState(j, "active")
    /\ UNCHANGED <<handlers, events, added, effects, inbox, shocks, unsure, stalls, cut, wanted>>

\* The last attempt leaves the job failed, the others delay it.
Failed(j) ==
    jobs' = [jobs EXCEPT ![j].tries = @ + 1,
                         ![j].state = IF jobs[j].tries + 1 < Attempts THEN "delayed" ELSE "failed"]

\* processEmailJob: the mail goes out.
SendEmail(j) ==
    /\ jobs[j].state = "active" /\ jobs[j].queue = "email" /\ jobs[j].valid
    /\ effects' = [effects EXCEPT ![j] = @ + 1]
    /\ SetState(j, "performed")
    /\ UNCHANGED <<handlers, events, added, inbox, shocks, unsure, stalls, cut, wanted>>

\* "verification email requires user and token": the same at every attempt.
RejectEmail(j) ==
    /\ jobs[j].state = "active" /\ jobs[j].queue = "email" /\ ~jobs[j].valid
    /\ Failed(j)
    /\ UNCHANGED <<handlers, events, added, effects, inbox, shocks, unsure, stalls, cut, wanted>>

\* sendMail raises, before or after the mail server accepted the mail.
MailError(j) ==
    /\ jobs[j].state = "active" /\ jobs[j].queue = "email" /\ jobs[j].valid /\ Shock
    /\ Failed(j)
    /\ \E sent \in {0, 1} : /\ effects' = [effects EXCEPT ![j] = @ + sent]
                            /\ unsure' = [unsure EXCEPT ![j] = @ + sent]
    /\ UNCHANGED <<handlers, events, added, inbox, stalls, cut, wanted>>

\* processNotificationJob: the newest in front, the oldest dropped.
Notify(j) ==
    /\ jobs[j].state = "active" /\ jobs[j].queue = "notification"
    /\ effects' = [effects EXCEPT ![j] = @ + 1]
    /\ inbox' = [i \in 1 .. (IF Cardinality(DOMAIN inbox) < Memory
                             THEN Cardinality(DOMAIN inbox) + 1 ELSE Memory) |->
                     IF i = 1 THEN j ELSE inbox[i - 1]]
    /\ SetState(j, "performed")
    /\ UNCHANGED <<handlers, events, added, shocks, unsure, stalls, cut, wanted>>

\* The worker tells Redis.
Complete(j) ==
    /\ jobs[j].state = "performed"
    /\ SetState(j, "completed")
    /\ UNCHANGED <<handlers, events, added, effects, inbox, shocks, unsure, stalls, cut, wanted>>

\* Mutant: a delayed job is not given back to the workers.
BackoffEndsNever(j) == FALSE /\ jobs[j].state = "delayed" /\ UNCHANGED vars

BackoffEnds(j) ==
    /\ jobs[j].state = "delayed"
    /\ SetState(j, "waiting")
    /\ UNCHANGED <<handlers, events, added, effects, inbox, shocks, unsure, stalls, cut, wanted>>

\* The process dies and is started again: handlers and memory are gone, and the
\* jobs that were active are found stalled, a second time failed.
Crash ==
    LET held == {j \in Jobs : jobs[j].state \in {"active", "performed"}} IN
    /\ Shock /\ (handlers # {} \/ held # {})
    /\ handlers' = {} /\ inbox' = <<>> /\ cut' = cut + Cardinality(handlers)
    /\ jobs' = [j \in Jobs |-> IF j \notin held THEN jobs[j]
           ELSE [jobs[j] EXCEPT !.state = IF stalls[j] = 0 THEN "waiting" ELSE "failed"]]
    /\ stalls' = [j \in Jobs |-> stalls[j] + IF j \in held THEN 1 ELSE 0]
    /\ UNCHANGED <<events, added, effects, unsure, wanted>>

Work(j) == Take(j) \/ SendEmail(j) \/ RejectEmail(j) \/ Notify(j) \/ Complete(j) \/ BackoffEnds(j)

Next ==
    \/ PublishRegistered \/ PublishLogin
    \/ \E h \in handlers : EnqueueEmail(h) \/ EnqueueNotification(h) \/ EnqueueFails(h)
    \/ \E j \in Jobs : \/ Take(j) \/ SendEmail(j) \/ RejectEmail(j) \/ MailError(j)
                       \/ Notify(j) \/ Complete(j) \/ BackoffEnds(j)
    \/ Crash

Spec == Init /\ [][Next]_vars
\* Workers run as long as the process does, and delayed jobs come back.
FairSpec == Spec /\ \A j \in Jobs : WF_vars(Work(j))
-----------------------------------------------------------------------------
(* Properties. *)

TypeOK ==
    /\ added \in 0 .. MaxJobs /\ events \in 0 .. MaxEvents /\ shocks \in 0 .. MaxShocks
    /\ \A j \in Jobs : /\ jobs[j].state \in Unfinished \cup {"none", "completed", "failed"}
                       /\ jobs[j].tries \in 0 .. Attempts
    /\ \A i \in DOMAIN inbox : inbox[i] \in 1 .. added

\* A completed job had its effect; a job has it more than once only after a mail
\* whose sending was reported as an error, or a worker that died; a mail with no
\* recipient never goes out.
DeliveredOnceWithoutFaults ==
    \A j \in Jobs :
        /\ jobs[j].state = "completed" => effects[j] >= 1
        /\ effects[j] <= 1 + unsure[j] + stalls[j]
        /\ ~jobs[j].valid => effects[j] = 0

\* An event ends with all the jobs it asked for, unless an add failed or the
\* process died in between.
EventsBecomeJobs == handlers = {} /\ cut = 0 => added = wanted

\* Every job is completed or failed in the end.
JobsSettle == \A j \in Jobs : jobs[j].state \in Unfinished ~> jobs[j].state \notin Unfinished

\* What the listeners and the workers promise of mails and notifications.
JobsDelivered == DeliveredOnceWithoutFaults /\ EventsBecomeJobs
=============================================================================
