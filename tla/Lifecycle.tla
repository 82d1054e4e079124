----------------------------- MODULE Lifecycle ------------------------------
(* main.py's lifespan and lifecycle.py: the start of the process with its         *)
(* background tasks, and its end.  The server takes requests after startup() and  *)
(* calls shutdown() when all of them have been answered.                          *)
EXTENDS Naturals, FiniteSets

Tasks == {"pool", "warmup"}  \* session_pool_refresher and warm_youtube_session

VARIABLES stage,       \* of the process, see LifecycleTypeOK
          task,        \* task[t]: "none", "running", "cancelled" or "ended"
          background,  \* background_tasks
          scheduler    \* "off", "on" or "stopping"

lifecycleVars == <<stage, task, background, scheduler>>

LifecycleInit ==
    /\ stage = "down" /\ task = [t \in Tasks |-> "none"]
    /\ background = {} /\ scheduler = "off"

\* load_and_apply is over; what it changes is not part of the lifecycle.
Loads ==
    /\ stage = "down" /\ stage' = "loaded"
    /\ UNCHANGED <<task, background, scheduler>>

\* validate_startup_config
Validates(valid) ==
    /\ stage = "loaded"
    /\ stage' = IF valid THEN "warming" ELSE "failed"
    /\ UNCHANGED <<task, background, scheduler>>

\* _start_tiktok_pool, whose warm-up comes first and may fail, _start_youtube_warmup
\* and _start_scheduler, which may fail too: each failure is logged, no more.
Starts(pool, jobs) ==
    LET started == IF pool THEN {"pool", "warmup"} ELSE {"warmup"}
    IN  /\ stage = "warming" /\ stage' = "serving"
        /\ task' = [t \in Tasks |-> IF t \in started THEN "running" ELSE "none"]
        /\ background' = started
        /\ scheduler' = IF jobs THEN "on" ELSE "off"

\* A task returns, or stops because it has been cancelled.
TaskEnds(t) ==
    /\ task[t] \in {"running", "cancelled"}
    /\ task' = [task EXCEPT ![t] = "ended"]
    /\ UNCHANGED <<stage, background, scheduler>>

\* The server is told to stop, and takes no more requests.
StopAsked ==
    /\ stage = "serving" /\ stage' = "draining"
    /\ UNCHANGED <<task, background, scheduler>>

\* shutdown: task.cancel() for every background task; faulty variant: not for the
\* refresher, which never ends by itself.
OnlyWarmUp == background \ {"pool"}
ToCancel == background

Cancels ==
    /\ stage = "draining" /\ stage' = "gathering"
    /\ task' = [t \in Tasks |-> IF t \in ToCancel /\ task[t] = "running"
                               THEN "cancelled" ELSE task[t]]
    /\ UNCHANGED <<background, scheduler>>

\* asyncio.gather(*background_tasks); faulty variant: not awaited.
NotAwaited == TRUE
AllEnded == \A t \in background : task[t] = "ended"

Shutdown ==
    /\ stage = "gathering" /\ AllEnded
    /\ stage' = "stopped" /\ background' = {}
    /\ scheduler' = IF scheduler = "on" THEN "stopping" ELSE scheduler
    /\ UNCHANGED task

\* AsyncIOScheduler.shutdown stops the scheduler from the event loop.
SchedulerStops ==
    /\ scheduler = "stopping" /\ scheduler' = "off"
    /\ UNCHANGED <<stage, task, background>>

-----------------------------------------------------------------------------
LifecycleTypeOK ==
    /\ stage \in {"down", "loaded", "warming", "serving", "draining", "gathering",
                  "stopped", "failed"}
    /\ task \in [Tasks -> {"none", "running", "cancelled", "ended"}]
    /\ background \subseteq Tasks /\ scheduler \in {"off", "on", "stopping"}
=============================================================================
