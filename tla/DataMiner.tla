----------------------------- MODULE DataMiner ------------------------------
(* The process: its lifecycle, the gateway requests come in through, and the      *)
(* YouTube session their operations share with the warm-up task of the start.     *)
(* An operation is one request to its platform here; pages, retries, proxies and  *)
(* the cache have modules of their own.                                           *)
EXTENDS Lifecycle, YouTubeSession, Gateway

CONSTANTS Defaults,  \* config/rate_limits.py: limits of every path, of routes and services
          Remotes    \* what the remote configuration may say of some of them

ASSUME LimitsAssumption ==
    /\ Calls = Requests
    /\ Defaults \in [Entries -> Nat]
    /\ \A remote \in Remotes : DOMAIN remote \subseteq DOMAIN Defaults
                              /\ remote \in [DOMAIN remote -> Nat]

minerVars == <<lifecycleVars, sessionVars, gatewayVars>>

-----------------------------------------------------------------------------
Init == LifecycleInit /\ SessionInit /\ GatewayInit

\* apply_schema: what is found takes the place of the defaults, entry by entry.
Merged(remote) ==
    [entry \in DOMAIN Defaults |->
        IF entry \in DOMAIN remote THEN remote[entry] ELSE Defaults[entry]]

\* load_and_apply: without answer, or with one that cannot be read, the defaults stay.
LoadAndApply ==
    /\ Loads
    /\ \E remote \in Remotes : limits' = Merged(remote)
    /\ UNCHANGED <<settings, clients, used, request, served, sessionVars>>

Validated ==
    /\ Validates(settings.apiKeys /\ (settings.serviceAuth => settings.serviceToken))
    /\ UNCHANGED <<gatewayVars, sessionVars>>

Startup ==
    /\ \E pool \in BOOLEAN, jobs \in {settings.scheduler, FALSE} : Starts(pool, jobs)
    /\ UNCHANGED <<gatewayVars, sessionVars>>

WarmUpAsks ==
    /\ task["warmup"] = "running" /\ Ask(WarmUp)
    /\ UNCHANGED <<gatewayVars, lifecycleVars>>

WarmUpEnds ==
    /\ task["warmup"] = "running" /\ user[WarmUp] = "done" /\ TaskEnds("warmup")
    /\ UNCHANGED <<gatewayVars, sessionVars>>

-----------------------------------------------------------------------------
Request(r) ==
    /\ stage = "serving" /\ \E q \in clients : Arrives(r, q)
    /\ UNCHANGED <<lifecycleVars, sessionVars>>

\* YouTube's operations and the MCP tools that call them begin with the key.
NeedsKey(r) == request[r] \in {"youtube", "mcp"}

Call(r) ==
    /\ NeedsKey(r) /\ Ask(r)
    /\ UNCHANGED <<lifecycleVars, gatewayVars>>

LockTurn(u) == Turn(u) /\ UNCHANGED <<lifecycleVars, gatewayVars>>

Scrape(u) ==
    /\ \E key, visitor \in BOOLEAN : ScrapeEnds(u, key, visitor)
    /\ UNCHANGED <<lifecycleVars, gatewayVars>>

\* The routes of api/youtube.py and the tools of the MCP server answer with what the
\* service returns or raises; TikTok's, and Google's, need no key of YouTube.
AnswerYouTube(r) ==
    /\ request[r] = "youtube" /\ Forgets(r) /\ OperationEnds(r)
    /\ UNCHANGED lifecycleVars

AnswerTool(r) ==
    /\ request[r] = "mcp" /\ Forgets(r) /\ OperationEnds(r)
    /\ UNCHANGED lifecycleVars

AnswerTikTok(r) ==
    /\ request[r] = "tiktok" /\ OperationEnds(r)
    /\ UNCHANGED <<lifecycleVars, sessionVars>>

Answer(r) == AnswerYouTube(r) \/ AnswerTool(r) \/ AnswerTikTok(r)

-----------------------------------------------------------------------------
StopSignal == StopAsked /\ UNCHANGED <<gatewayVars, sessionVars>>

CancelTasks == Active = {} /\ Cancels /\ UNCHANGED <<gatewayVars, sessionVars>>

CancelledTaskEnds(t) ==
    /\ task[t] = "cancelled" /\ TaskEnds(t)
    /\ IF t = "warmup" THEN Cancelled(WarmUp) ELSE UNCHANGED sessionVars
    /\ UNCHANGED gatewayVars

TasksGathered == Shutdown /\ UNCHANGED <<gatewayVars, sessionVars>>

JobsStop == SchedulerStops /\ UNCHANGED <<gatewayVars, sessionVars>>

Window ==
    /\ \E quota \in Quotas : WindowEnds(quota)
    /\ UNCHANGED <<lifecycleVars, sessionVars>>

Time == SessionTick /\ UNCHANGED <<lifecycleVars, gatewayVars>>

-----------------------------------------------------------------------------
Next ==
    \/ LoadAndApply \/ Validated \/ Startup \/ WarmUpAsks \/ WarmUpEnds
    \/ \E r \in Requests : Request(r) \/ Call(r) \/ Answer(r)
    \/ \E u \in Users : LockTurn(u) \/ Scrape(u)
    \/ StopSignal \/ CancelTasks \/ TasksGathered \/ JobsStop
    \/ \E t \in Tasks : CancelledTaskEnds(t)
    \/ Window \/ Time

\* The event loop runs whatever can run, and every request to YouTube ends, with an
\* answer or with the client's timeout.  Nobody needs to send requests or to stop
\* the process, and neither windows nor ttls need to end.
Fairness ==
    /\ WF_minerVars(LoadAndApply) /\ WF_minerVars(Validated) /\ WF_minerVars(Startup)
    /\ WF_minerVars(WarmUpAsks) /\ WF_minerVars(WarmUpEnds)
    /\ \A r \in Requests : WF_minerVars(Call(r)) /\ WF_minerVars(Answer(r))
    /\ \A u \in Users : WF_minerVars(LockTurn(u)) /\ WF_minerVars(Scrape(u))
    /\ WF_minerVars(CancelTasks) /\ WF_minerVars(TasksGathered) /\ WF_minerVars(JobsStop)
    /\ \A t \in Tasks : WF_minerVars(CancelledTaskEnds(t))

Spec == Init /\ [][Next]_minerVars /\ Fairness

-----------------------------------------------------------------------------
(* Properties.                                                                 *)

\* What the modules say of their variables.
TypeOK == LifecycleTypeOK /\ SessionTypeOK /\ GatewayTypeOK

\* A process that has stopped, or that has refused to start, leaves no task and no
\* lock behind, also when the stop comes while the warm-up scrapes or waits; and
\* until the start has been made nothing runs.
NothingLeftRunning ==
    stage \notin {"serving", "draining", "gathering"} =>
        /\ \A t \in Tasks : task[t] \in {"none", "ended"}
        /\ background = {} /\ holder = Nobody /\ queue = <<>>
        /\ scheduler # "on" /\ Active = {}

\* A process that is configured comes to serve, whatever fails at its start; every
\* request is answered, also when all of them find the key expired and their
\* scrapes fail; and a process that is told to stop does.
EverythingEnds ==
    /\ stage = "warming" ~> stage = "serving"
    /\ \A r \in Requests : request[r] # "idle" ~> request[r] = "idle"
    /\ stage = "draining" ~> stage = "stopped" /\ scheduler = "off"
=============================================================================
