-------------------------- MODULE DataMinerProofs ---------------------------
(* Proofs about the process, for any requests, settings, limits, remote           *)
(* configurations and ttls: what its rate limits count, who scrapes, and what a    *)
(* process that has stopped leaves behind.                                        *)
EXTENDS DataMiner, SequenceFacts, TLAPS

Counters == [Quotas -> Nat]

\* No limit has counted more than it lets pass, and each has counted all that was
\* answered; a route's has counted nothing else.  Limits are loaded before the first
\* request is counted.
LimitInv ==
    /\ limits \in [Entries -> Nat] /\ used \in Counters /\ served \in Counters
    /\ \A quota \in Quotas : served[quota] <= used[quota] /\ used[quota] <= LimitOf(quota)
    /\ \A quota \in Quotas : quota.per = "route" => used[quota] = served[quota]
    /\ stage = "down" => \A quota \in Quotas : used[quota] = 0

\* The user that scrapes is the one that holds the lock.
HolderScrapes == \A u \in Users : user[u] = "scraping" <=> holder = u

SessionInv ==
    /\ user \in [Users -> {"idle", "waiting", "scraping", "done"}]
    /\ HolderScrapes

-----------------------------------------------------------------------------
(* Lemmas.                                                                     *)

\* A request that is admitted has been counted by every limit that it comes under; and
\* the limit of a route is the innermost layer: it counts none but those.
LEMMA CountedAreAdmitted ==
    ASSUME NEW q
    PROVE  /\ Admitted(q) => Counted(q) = QuotasOf(q)
           /\ \A quota \in Counted(q) : quota.per = "route" => Admitted(q)
<1>1. DOMAIN Layers = 1 .. 7 /\ Layers[1] = "hour" /\ Layers[2] = "minute" /\ Layers[7] = "route"
  BY DEF Layers
<1>2. \A m \in 1 .. 6 : Layers[m] # "route"
  BY DEF Layers
<1>3. ASSUME Admitted(q), NEW quota \in QuotasOf(q)
      PROVE  quota \in Counted(q)
  <2>1. /\ quota.per \in LimitLayers /\ quota.path = q.path
        /\ quota.per = "route" => quota.path \in Routes
    BY DEF QuotasOf, QuotaOf, Quotas
  <2>2. Metered(quota.per, q)
    BY <2>1 DEF Metered
  <2>3. Reaches(quota.per, q)
    BY <1>3 DEF Admitted, Reaches
  <2>4. ~Refuses(quota.per, q)
    BY <1>1, <1>3, <2>1 DEF Admitted, LimitLayers
  <2>5. QED  BY <2>2, <2>3, <2>4 DEF Counted
<1>4. ASSUME NEW quota \in Counted(q), quota.per = "route"
      PROVE  Admitted(q)
  <2>1. Reaches("route", q) /\ ~Refuses("route", q)
    BY <1>4 DEF Counted
  <2>2. ASSUME NEW n \in 1 .. 6
        PROVE  ~Refuses(Layers[n], q)
    <3>1. \A m \in 1 .. n : Layers[m] # "route"
      BY <1>2
    <3>2. QED  BY <1>1, <2>1, <3>1 DEF Reaches
  <2>3. \A n \in 1 .. 7 : n \in 1 .. 6 \/ n = 7
    OBVIOUS
  <2>4. QED  BY <1>1, <2>1, <2>2, <2>3 DEF Admitted
<1>5. Counted(q) \subseteq QuotasOf(q)
  BY DEF Counted
<1>6. QED  BY <1>3, <1>4, <1>5

\* What a limit counts it has let pass.
LEMMA LetPassByLimit ==
    ASSUME NEW q, NEW quota \in Counted(q)
    PROVE  quota \in Quotas /\ ~(used[quota] >= LimitOf(quota))
<1>1. PICK layer \in LimitLayers : quota = QuotaOf(layer, q)
  BY DEF Counted, QuotasOf
<1>2. quota.per = layer
  BY <1>1 DEF QuotaOf
<1>3. Metered(layer, q) /\ ~Refuses(layer, q) /\ quota \in Quotas
  BY <1>2 DEF Counted, QuotasOf
<1>4. QED  BY <1>1, <1>3 DEF Refuses, LimitRefuses

LEMMA LimitIsNat ==
    ASSUME limits \in [Entries -> Nat], NEW quota \in Quotas
    PROVE  LimitOf(quota) \in Nat
<1>1. /\ quota.per \in {"hour", "minute", "route"}
      /\ quota.per = "route" => quota.path \in Routes
  BY DEF Quotas, LimitLayers
<1>2. {"hour", "minute", "service"} \subseteq Entries /\ Routes \subseteq Entries
  BY DEF Entries
<1>3. QED  BY <1>1, <1>2 DEF LimitOf

\* What takes the place of the defaults has a limit for every path and route.
LEMMA MergedLimits ==
    ASSUME LimitsAssumption, NEW remote \in Remotes
    PROVE  Merged(remote) \in [Entries -> Nat]
  BY DEF LimitsAssumption, Merged

-----------------------------------------------------------------------------
(* Steps that say nothing of the limits, and steps that say nothing of the lock.   *)

limitVars == <<limits, used, served>>

LEMMA LimitsUntouched ==
    ASSUME LimitInv, UNCHANGED limitVars, stage' = "down" => stage = "down"
    PROVE  LimitInv'
<1>1. \A c \in Quotas : LimitOf(c)' = LimitOf(c)
  BY DEF LimitOf, limitVars
<1>2. QED  BY <1>1 DEF LimitInv, limitVars

\* A request uses one more of each limit that lets it pass.
LEMMA ArrivalKeepsLimits ==
    ASSUME LimitInv, stage = "serving", stage' = "serving", NEW r, NEW q, Arrives(r, q)
    PROVE  LimitInv'
<1>1. limits' = limits /\ (\A c \in Quotas : LimitOf(c)' = LimitOf(c) /\ LimitOf(c) \in Nat)
  BY LimitIsNat DEF Arrives, LimitOf, LimitInv
<1>2. \A c \in Quotas : used'[c] = IF c \in Counted(q) THEN used[c] + 1 ELSE used[c]
  BY DEF Arrives, OneMore
<1>3. \A c \in Quotas :
         served'[c] = IF Admitted(q) /\ c \in QuotasOf(q) THEN served[c] + 1 ELSE served[c]
  BY DEF Arrives, OneMore
<1>4. used' \in Counters /\ served' \in Counters
  BY DEF Arrives, OneMore, LimitInv, Counters
<1>5. \A c \in Quotas : used[c] \in Nat /\ served[c] \in Nat
  BY DEF LimitInv, Counters
<1>6. ASSUME NEW c \in Quotas
      PROVE  /\ served'[c] <= used'[c] /\ used'[c] <= LimitOf(c)'
             /\ c.per = "route" => used'[c] = served'[c]
  <2>1. /\ used[c] \in Nat /\ served[c] \in Nat /\ LimitOf(c) \in Nat
        /\ served[c] <= used[c] /\ used[c] <= LimitOf(c)
        /\ c.per = "route" => used[c] = served[c]
    BY <1>1, <1>5 DEF LimitInv
  <2>2. CASE c \in Counted(q)
    <3>1. ~(used[c] >= LimitOf(c)) /\ c \in QuotasOf(q)
      BY <2>2, LetPassByLimit DEF Counted
    <3>2. c.per = "route" => Admitted(q)
      BY <2>2, CountedAreAdmitted
    <3>3. QED  BY <1>1, <1>2, <1>3, <2>1, <2>2, <3>1, <3>2
  <2>3. CASE c \notin Counted(q)
    <3>1. ~(Admitted(q) /\ c \in QuotasOf(q))
      BY <2>3, CountedAreAdmitted
    <3>2. QED  BY <1>1, <1>2, <1>3, <2>1, <2>3, <3>1
  <2>4. QED  BY <2>2, <2>3
<1>7. QED  BY <1>1, <1>4, <1>6 DEF LimitInv

LEMMA WindowKeepsLimits ==
    ASSUME LimitInv, stage' = stage, NEW quota \in Quotas, WindowEnds(quota)
    PROVE  LimitInv'
<1>1. limits' = limits /\ (\A c \in Quotas : LimitOf(c)' = LimitOf(c) /\ LimitOf(c) \in Nat)
  BY LimitIsNat DEF WindowEnds, LimitOf, LimitInv
<1>2. used' \in Counters /\ served' \in Counters
  BY DEF WindowEnds, LimitInv, Counters
<1>3. \A c \in Quotas : \/ used'[c] = used[c] /\ served'[c] = served[c]
                        \/ used'[c] = 0 /\ served'[c] = 0
  BY DEF WindowEnds, LimitInv, Counters
<1>4. ASSUME NEW c \in Quotas
      PROVE  /\ served'[c] <= used'[c] /\ used'[c] <= LimitOf(c)'
             /\ c.per = "route" => used'[c] = served'[c]
             /\ stage = "down" => used'[c] = 0
  BY <1>1, <1>3 DEF LimitInv
<1>5. QED  BY <1>1, <1>2, <1>4 DEF LimitInv

LEMMA LoadingKeepsLimits ==
    ASSUME LimitsAssumption, LimitInv, LoadAndApply
    PROVE  LimitInv'
<1>1. stage = "down" /\ stage' = "loaded" /\ UNCHANGED <<used, served>>
  BY DEF LoadAndApply, Loads
<1>2. limits' \in [Entries -> Nat]
  BY MergedLimits DEF LoadAndApply
<1>3. \A c \in Quotas : used'[c] = 0 /\ served'[c] = 0
  BY <1>1 DEF LimitInv, Counters
<1>4. \A c \in Quotas : LimitOf(c)' \in Nat
  <2> SUFFICES ASSUME NEW c \in Quotas
               PROVE  LimitOf(c)' \in Nat
    OBVIOUS
  <2>1. c.per \in {"hour", "minute", "route"} /\ (c.per = "route" => c.path \in Routes)
    BY DEF Quotas, LimitLayers
  <2>2. {"hour", "minute", "service"} \subseteq Entries /\ Routes \subseteq Entries
    BY DEF Entries
  <2>3. \A entry \in Entries : limits'[entry] \in Nat
    BY <1>2
  <2>4. CASE c.per = "route"
    <3>1. LimitOf(c)' \in {limits'["service"], limits'[c.path]}
      BY <2>4 DEF LimitOf
    <3>2. QED  BY <2>1, <2>2, <2>3, <2>4, <3>1
  <2>5. CASE c.per # "route"
    <3>1. LimitOf(c)' = limits'[c.per]
      BY <2>5 DEF LimitOf
    <3>2. QED  BY <2>1, <2>2, <2>3, <2>5, <3>1
  <2>6. QED  BY <2>4, <2>5
<1>5. QED  BY <1>1, <1>2, <1>3, <1>4 DEF LimitInv

\* No step of a user moves more than that user; whoever takes to scraping has found
\* nothing and holds the lock from then on.
LEMMA AskKeepsSession ==
    ASSUME SessionInv, NEW u \in Users, Ask(u)
    PROVE  /\ SessionInv'
           /\ \A v \in Users : user[v] # "scraping" /\ user'[v] = "scraping" => ~Satisfied(v)
<1>1. Nobody \notin Users
  BY SessionAssumption DEF Users
<1>2. QED  BY <1>1 DEF Ask, SessionInv, HolderScrapes

LEMMA TurnKeepsSession ==
    ASSUME SessionInv, NEW u \in Users, Turn(u)
    PROVE  /\ SessionInv'
           /\ \A v \in Users : user[v] # "scraping" /\ user'[v] = "scraping" => ~Satisfied(v)
<1>1. Nobody \notin Users
  BY SessionAssumption DEF Users
<1>2. QED  BY <1>1 DEF Turn, FoundUnderLock, SessionInv, HolderScrapes

LEMMA ScrapeKeepsSession ==
    ASSUME SessionInv, NEW u \in Users, NEW key, NEW visitor, ScrapeEnds(u, key, visitor)
    PROVE  SessionInv' /\ \A v \in Users : user'[v] = "scraping" => user[v] = "scraping"
<1>1. Nobody \notin Users
  BY SessionAssumption DEF Users
<1>2. QED  BY <1>1 DEF ScrapeEnds, SessionInv, HolderScrapes

LEMMA CancelKeepsSession ==
    ASSUME SessionInv, NEW u \in Users, Cancelled(u)
    PROVE  SessionInv' /\ \A v \in Users : user'[v] = "scraping" => user[v] = "scraping"
<1>1. Nobody \notin Users
  BY SessionAssumption DEF Users
<1>2. QED  BY <1>1 DEF Cancelled, SessionInv, HolderScrapes

LEMMA ForgettingKeepsSession ==
    ASSUME SessionInv, NEW u \in Users, Forgets(u)
    PROVE  SessionInv' /\ \A v \in Users : user'[v] = "scraping" => user[v] = "scraping"
  BY DEF Forgets, SessionInv, HolderScrapes

-----------------------------------------------------------------------------
(* The invariants.                                                             *)

InNoVain == \A u \in Users : user[u] # "scraping" /\ user'[u] = "scraping" => ~Satisfied(u)

LEMMA InvariantsInit == Init => LimitInv /\ SessionInv
<1>1. GatewayInit /\ LifecycleInit => LimitInv
  <2> SUFFICES ASSUME GatewayInit, LifecycleInit
               PROVE  LimitInv
    OBVIOUS
  <2>1. /\ limits \in [Entries -> Nat] /\ used \in Counters /\ served \in Counters
        /\ \A quota \in Quotas : used[quota] = 0 /\ served[quota] = 0
    BY DEF GatewayInit, Counters
  <2>2. \A quota \in Quotas : LimitOf(quota) \in Nat
    BY <2>1, LimitIsNat
  <2>3. QED  BY <2>1, <2>2 DEF LimitInv
<1>2. SessionInit => SessionInv
  BY SessionAssumption DEF SessionInit, SessionInv, HolderScrapes, Users
<1>3. QED  BY <1>1, <1>2 DEF Init

LEMMA LimitsStep == LimitInv /\ [Next]_minerVars => LimitInv'
<1> SUFFICES ASSUME LimitInv, [Next]_minerVars
             PROVE  LimitInv'
  OBVIOUS
<1>1. CASE LoadAndApply
  BY <1>1, LimitsAssumption, LoadingKeepsLimits
<1>2. CASE Validated
  BY <1>2, LimitsUntouched DEF Validated, Validates, gatewayVars, limitVars
<1>3. CASE Startup
  BY <1>3, LimitsUntouched DEF Startup, Starts, gatewayVars, limitVars
<1>4. CASE WarmUpAsks
  BY <1>4, LimitsUntouched DEF WarmUpAsks, gatewayVars, lifecycleVars, limitVars
<1>5. CASE WarmUpEnds
  BY <1>5, LimitsUntouched DEF WarmUpEnds, TaskEnds, gatewayVars, limitVars
<1>6. ASSUME NEW r \in Requests, Request(r)
      PROVE  LimitInv'
  <2>1. PICK q \in clients : Arrives(r, q)
    BY <1>6 DEF Request
  <2>2. stage = "serving" /\ stage' = "serving"
    BY <1>6 DEF Request, lifecycleVars
  <2>3. QED  BY <2>1, <2>2, ArrivalKeepsLimits
<1>7. ASSUME NEW r \in Requests, Call(r)
      PROVE  LimitInv'
  BY <1>7, LimitsUntouched DEF Call, gatewayVars, lifecycleVars, limitVars
<1>8. ASSUME NEW r \in Requests, Answer(r)
      PROVE  LimitInv'
  BY <1>8, LimitsUntouched
     DEF Answer, AnswerYouTube, AnswerTool, AnswerTikTok, OperationEnds, lifecycleVars, limitVars
<1>9. ASSUME NEW u \in Users, LockTurn(u) \/ Scrape(u)
      PROVE  LimitInv'
  BY <1>9, LimitsUntouched DEF LockTurn, Scrape, gatewayVars, lifecycleVars, limitVars
<1>10. CASE StopSignal \/ CancelTasks \/ TasksGathered \/ JobsStop
  BY <1>10, LimitsUntouched
     DEF StopSignal, StopAsked, CancelTasks, Cancels, TasksGathered, Shutdown, JobsStop,
         SchedulerStops, gatewayVars, limitVars
<1>11. ASSUME NEW t \in Tasks, CancelledTaskEnds(t)
       PROVE  LimitInv'
  BY <1>11, LimitsUntouched DEF CancelledTaskEnds, TaskEnds, gatewayVars, limitVars
<1>12. CASE Window
  BY <1>12, WindowKeepsLimits DEF Window, lifecycleVars
<1>13. CASE Time
  BY <1>13, LimitsUntouched DEF Time, gatewayVars, lifecycleVars, limitVars
<1>14. CASE UNCHANGED minerVars
  BY <1>14, LimitsUntouched DEF minerVars, gatewayVars, lifecycleVars, limitVars
<1>15. QED
  BY <1>1, <1>2, <1>3, <1>4, <1>5, <1>6, <1>7, <1>8, <1>9, <1>10, <1>11, <1>12, <1>13, <1>14
     DEF Next

LEMMA SessionUntouched ==
    ASSUME SessionInv, UNCHANGED sessionVars
    PROVE  SessionInv' /\ InNoVain
  BY DEF SessionInv, HolderScrapes, InNoVain, sessionVars

LEMMA SessionStep == SessionInv /\ [Next]_minerVars => SessionInv' /\ InNoVain
<1> SUFFICES ASSUME SessionInv, [Next]_minerVars
             PROVE  SessionInv' /\ InNoVain
  OBVIOUS
<1>1. WarmUp \in Users /\ Requests \subseteq Users
  BY LimitsAssumption DEF LimitsAssumption, Users
<1>2. CASE LoadAndApply \/ Validated \/ Startup \/ WarmUpEnds
  BY <1>2, SessionUntouched DEF LoadAndApply, Validated, Startup, WarmUpEnds, sessionVars
<1>3. CASE WarmUpAsks
  BY <1>1, <1>3, AskKeepsSession DEF WarmUpAsks, InNoVain
<1>4. ASSUME NEW r \in Requests, Request(r)
      PROVE  SessionInv' /\ InNoVain
  BY <1>4, SessionUntouched DEF Request
<1>5. ASSUME NEW r \in Requests, Call(r)
      PROVE  SessionInv' /\ InNoVain
  BY <1>1, <1>5, AskKeepsSession DEF Call, InNoVain
<1>6. ASSUME NEW r \in Requests, Answer(r)
      PROVE  SessionInv' /\ InNoVain
  <2>1. CASE AnswerYouTube(r) \/ AnswerTool(r)
    BY <1>1, <2>1, ForgettingKeepsSession DEF AnswerYouTube, AnswerTool, InNoVain
  <2>2. CASE AnswerTikTok(r)
    BY <2>2, SessionUntouched DEF AnswerTikTok
  <2>3. QED  BY <1>6, <2>1, <2>2 DEF Answer
<1>7. ASSUME NEW u \in Users, LockTurn(u)
      PROVE  SessionInv' /\ InNoVain
  BY <1>7, TurnKeepsSession DEF LockTurn, InNoVain
<1>8. ASSUME NEW u \in Users, Scrape(u)
      PROVE  SessionInv' /\ InNoVain
  BY <1>8, ScrapeKeepsSession DEF Scrape, InNoVain
<1>9. CASE StopSignal \/ CancelTasks \/ TasksGathered \/ JobsStop
  BY <1>9, SessionUntouched DEF StopSignal, CancelTasks, TasksGathered, JobsStop
<1>10. ASSUME NEW t \in Tasks, CancelledTaskEnds(t)
       PROVE  SessionInv' /\ InNoVain
  BY <1>1, <1>10, CancelKeepsSession, SessionUntouched DEF CancelledTaskEnds, InNoVain
<1>11. CASE Window
  BY <1>11, SessionUntouched DEF Window
<1>12. CASE Time
  BY <1>12 DEF Time, SessionTick, SessionInv, HolderScrapes, InNoVain
<1>13. CASE UNCHANGED minerVars
  BY <1>13, SessionUntouched DEF minerVars
<1>14. QED
  BY <1>2, <1>3, <1>4, <1>5, <1>6, <1>7, <1>8, <1>9, <1>10, <1>11, <1>12, <1>13 DEF Next

-----------------------------------------------------------------------------
(* What runs, and for whom: who waits for the lock or holds it is a task that     *)
(* has not ended or a request that has not been answered.                         *)

Busy(u) == user[u] \in {"waiting", "scraping"}

QueueInv ==
    /\ queue \in Seq(Users) /\ Distinct(queue)
    /\ \A u \in ToSet(queue) : user[u] = "waiting"
    /\ holder \in Users \cup {Nobody}

OwnerInv ==
    /\ DOMAIN request = Requests
    /\ \A u \in Users : Busy(u) =>
          IF u = WarmUp THEN task["warmup"] \in {"running", "cancelled"} ELSE NeedsKey(u)

Early == stage \notin {"serving", "draining", "gathering"}

TaskInv ==
    /\ task \in [Tasks -> {"none", "running", "cancelled", "ended"}]
    /\ \A t \in Tasks : task[t] \in {"running", "cancelled"} => t \in background
    /\ Early => background = {} /\ scheduler # "on"
    /\ stage \notin {"serving", "draining"} => Active = {}

EndInv == SessionInv /\ QueueInv /\ OwnerInv /\ TaskInv

LEMMA WarmUpIsNoRequest ==
    /\ Users = Requests \cup {WarmUp} /\ WarmUp \notin Requests /\ Nobody \notin Users
    /\ "warmup" \in Tasks
  BY SessionAssumption, LimitsAssumption DEF LimitsAssumption, Users, Tasks

\* A user that gets in line, whose turn it is, or that leaves the line.
LEMMA AskKeepsQueue ==
    ASSUME SessionInv, QueueInv, NEW u \in Users, Ask(u)
    PROVE  QueueInv' /\ \A v \in Users \ {u} : user'[v] = user[v]
<1>1. user' \in [Users -> {"idle", "waiting", "scraping", "done"}]
      /\ \A v \in Users \ {u} : user'[v] = user[v]
  BY DEF Ask, SessionInv
<1>2. u \notin ToSet(queue)
  BY DEF Ask, QueueInv
<1>3. ToSet(queue) \subseteq Users
  BY DEF QueueInv, ToSet
<1>4. CASE queue' = queue
  BY <1>1, <1>2, <1>3, <1>4 DEF QueueInv, Ask
<1>5. CASE queue' = Append(queue, u) /\ user'[u] = "waiting" /\ holder' = holder
  <2>1. /\ queue' \in Seq(Users) /\ Distinct(queue')
        /\ ToSet(queue') = ToSet(queue) \cup {u}
    BY <1>2, <1>5, AppendDistinct DEF QueueInv
  <2>2. QED  BY <1>1, <1>3, <1>5, <2>1 DEF QueueInv
<1>6. queue' = queue \/ (queue' = Append(queue, u) /\ user'[u] = "waiting" /\ holder' = holder)
  BY DEF Ask, SessionInv
<1>7. QED  BY <1>1, <1>4, <1>5, <1>6

LEMMA TurnKeepsQueue ==
    ASSUME SessionInv, QueueInv, NEW u \in Users, Turn(u)
    PROVE  /\ QueueInv' /\ Busy(u)
           /\ \A v \in Users \ {u} : user'[v] = user[v]
<1>1. queue \in Seq(Users) /\ Len(queue) \in Nat \ {0} /\ queue[1] = u /\ queue' = Tail(queue)
  BY DEF Turn, QueueInv
<1>2. /\ queue' \in Seq(Users) /\ Len(queue') = Len(queue) - 1
      /\ \A i \in 1 .. Len(queue) - 1 : queue'[i] = queue[i + 1]
  BY <1>1
<1>3. DOMAIN queue = 1 .. Len(queue) /\ DOMAIN queue' = 1 .. Len(queue) - 1
  BY <1>1, <1>2
<1>4. \A i, j \in 1 .. Len(queue) : queue[i] = queue[j] => i = j
  BY <1>3 DEF QueueInv, Distinct
<1>5. Distinct(queue')
  <2>1. SUFFICES ASSUME NEW i \in 1 .. Len(queue) - 1, NEW j \in 1 .. Len(queue) - 1,
                        queue'[i] = queue'[j]
                 PROVE  i = j
    BY <1>3 DEF Distinct
  <2>2. i + 1 \in 1 .. Len(queue) /\ j + 1 \in 1 .. Len(queue)
    BY <1>1
  <2>3. queue[i + 1] = queue[j + 1]
    BY <1>2, <2>1
  <2>4. i + 1 = j + 1
    BY <1>4, <2>2, <2>3
  <2>5. QED  BY <2>4
<1>6. ASSUME NEW i \in 1 .. Len(queue) - 1
      PROVE  queue'[i] \in ToSet(queue) /\ queue'[i] # u
  <2>1. 1 \in 1 .. Len(queue) /\ i + 1 \in 1 .. Len(queue) /\ i + 1 # 1
    BY <1>1
  <2>2. queue'[i] = queue[i + 1] /\ queue[i + 1] # queue[1]
    BY <1>2, <1>4, <2>1
  <2>3. QED  BY <1>1, <1>3, <2>1, <2>2 DEF ToSet
<1>7. ToSet(queue') \subseteq ToSet(queue) \ {u}
  BY <1>3, <1>6 DEF ToSet
<1>8. user[u] = "waiting"
  BY <1>1, <1>3 DEF QueueInv, ToSet
<1>9. /\ \A v \in Users \ {u} : user'[v] = user[v]
      /\ holder' \in Users \cup {Nobody}
  BY DEF Turn, SessionInv, QueueInv
<1>10. ToSet(queue) \subseteq Users
  BY DEF QueueInv, ToSet
<1>11. \A v \in ToSet(queue') : user'[v] = "waiting"
  BY <1>7, <1>9, <1>10 DEF QueueInv
<1>12. QED  BY <1>2, <1>5, <1>8, <1>9, <1>11 DEF QueueInv, Busy

LEMMA ScrapeKeepsQueue ==
    ASSUME SessionInv, QueueInv, NEW u \in Users, NEW key, NEW visitor,
           ScrapeEnds(u, key, visitor)
    PROVE  QueueInv' /\ user'[u] = "done" /\ \A v \in Users \ {u} : user'[v] = user[v]
<1>1. ToSet(queue) \subseteq Users
  BY DEF QueueInv, ToSet
<1>2. QED  BY <1>1 DEF ScrapeEnds, SessionInv, QueueInv

LEMMA CancelKeepsQueue ==
    ASSUME SessionInv, QueueInv, NEW u \in Users, Cancelled(u)
    PROVE  QueueInv' /\ user'[u] = "done" /\ \A v \in Users \ {u} : user'[v] = user[v]
<1>1. /\ user'[u] = "done" /\ \A v \in Users \ {u} : user'[v] = user[v]
      /\ holder' \in Users \cup {Nobody} /\ queue' = Without(u)
  BY DEF Cancelled, SessionInv, QueueInv
<1>2. queue \in Seq(Users) /\ Distinct(queue) /\ ToSet(queue) \subseteq Users
      /\ DOMAIN queue = 1 .. Len(queue)
  BY DEF QueueInv, ToSet
<1>3. queue' \in Seq(Users) /\ Distinct(queue') /\ ToSet(queue') = ToSet(queue) \ {u}
  <2>1. CASE u \in ToSet(queue)
    <3> DEFINE p == CHOOSE place \in DOMAIN queue : queue[place] = u
    <3>1. p \in 1 .. Len(queue) /\ queue[p] = u
      <4>1. \E place \in DOMAIN queue : queue[place] = u
        BY <2>1 DEF ToSet
      <4>2. QED  BY <1>2, <4>1
    <3>2. queue' = RemoveAt(queue, p)
      BY <1>1, <2>1 DEF Without
    <3> HIDE DEF p
    <3>3. QED  BY <1>2, <3>1, <3>2, RemoveAtElements, RemoveAtDistinct
  <2>2. CASE u \notin ToSet(queue)
    BY <1>1, <1>2, <2>2 DEF Without
  <2>3. QED  BY <2>1, <2>2
<1>4. \A v \in ToSet(queue') : user'[v] = "waiting"
  BY <1>1, <1>2, <1>3 DEF QueueInv
<1>5. QED  BY <1>1, <1>3, <1>4 DEF QueueInv

LEMMA ForgettingKeepsQueue ==
    ASSUME SessionInv, QueueInv, NEW u \in Users, Forgets(u)
    PROVE  QueueInv' /\ ~Busy(u) /\ user'[u] = "idle" /\ \A v \in Users \ {u} : user'[v] = user[v]
<1>1. u \notin ToSet(queue) /\ ToSet(queue) \subseteq Users
  BY DEF Forgets, QueueInv, ToSet
<1>2. QED  BY <1>1 DEF Forgets, SessionInv, QueueInv, Busy

LEMMA EndInit == Init => EndInv
<1> SUFFICES ASSUME Init PROVE EndInv
  OBVIOUS
<1>1. SessionInv
  BY InvariantsInit
<1>2. QueueInv
  BY DEF Init, SessionInit, QueueInv, Distinct, ToSet
<1>3. OwnerInv
  BY DEF Init, SessionInit, GatewayInit, OwnerInv, Busy
<1>4. TaskInv
  BY DEF Init, LifecycleInit, GatewayInit, TaskInv, Active
<1>5. QED  BY <1>1, <1>2, <1>3, <1>4 DEF EndInv

\* A step of the lifecycle that touches neither the session nor the gateway.
LEMMA LifecycleStep ==
    ASSUME EndInv, UNCHANGED sessionVars, UNCHANGED request, TaskInv',
           task["warmup"] \in {"running", "cancelled"}
              => task'["warmup"] \in {"running", "cancelled"} \/ ~Busy(WarmUp)
    PROVE  QueueInv' /\ OwnerInv' /\ TaskInv'
<1>1. QueueInv'
  BY DEF EndInv, QueueInv, sessionVars
<1>2. OwnerInv'
  BY DEF EndInv, OwnerInv, sessionVars, Busy, NeedsKey
<1>3. QED  BY <1>1, <1>2

\* A step of one user, whose task or request is at work.
LEMMA UserStep ==
    ASSUME EndInv, NEW u \in Users, QueueInv', \A v \in Users \ {u} : user'[v] = user[v],
           IF u = WarmUp THEN task["warmup"] \in {"running", "cancelled"} ELSE NeedsKey(u),
           UNCHANGED lifecycleVars, UNCHANGED request
    PROVE  QueueInv' /\ OwnerInv' /\ TaskInv'
<1>1. OwnerInv'
  BY DEF EndInv, OwnerInv, Busy, NeedsKey, lifecycleVars
<1>2. TaskInv'
  BY DEF EndInv, TaskInv, Early, Active, lifecycleVars
<1>3. QED  BY <1>1, <1>2

LEMMA EndStep == EndInv /\ [Next]_minerVars => EndInv'
<1> SUFFICES ASSUME EndInv, [Next]_minerVars
             PROVE  EndInv'
  OBVIOUS
<1>0. SessionInv /\ SessionInv' /\ QueueInv /\ OwnerInv /\ TaskInv
  BY SessionStep DEF EndInv
<1>1. ASSUME LoadAndApply \/ Validated PROVE QueueInv' /\ OwnerInv' /\ TaskInv'
  <2>1. /\ UNCHANGED <<task, background, scheduler, request>> /\ UNCHANGED sessionVars
        /\ Early /\ stage \notin {"serving", "draining"}
    BY <1>1 DEF LoadAndApply, Loads, Validated, Validates, gatewayVars, Early
  <2>2. TaskInv'
    BY <1>0, <2>1 DEF TaskInv, Early, Active
  <2>3. QED  BY <2>1, <2>2, LifecycleStep
<1>2. ASSUME Startup PROVE QueueInv' /\ OwnerInv' /\ TaskInv'
  <2>1. PICK pool \in BOOLEAN, jobs \in {settings.scheduler, FALSE} : Starts(pool, jobs)
    BY <1>2 DEF Startup
  <2>2. UNCHANGED <<request>> /\ UNCHANGED sessionVars
    BY <1>2 DEF Startup, gatewayVars
  <2>3. TaskInv'
    BY <2>1 DEF Starts, TaskInv, Early
  <2>4. ~Busy(WarmUp)
    BY <1>0, <2>1, WarmUpIsNoRequest DEF Starts, TaskInv, OwnerInv, Early
  <2>5. QED  BY <2>2, <2>3, <2>4, LifecycleStep
<1>3. ASSUME WarmUpAsks PROVE QueueInv' /\ OwnerInv' /\ TaskInv'
  <2>1. /\ Ask(WarmUp) /\ task["warmup"] \in {"running", "cancelled"}
        /\ UNCHANGED lifecycleVars /\ UNCHANGED request
    BY <1>3 DEF WarmUpAsks, gatewayVars
  <2>2. QED  BY <1>0, <2>1, AskKeepsQueue, UserStep, WarmUpIsNoRequest
<1>4. ASSUME WarmUpEnds PROVE QueueInv' /\ OwnerInv' /\ TaskInv'
  <2>1. /\ ~Busy(WarmUp) /\ task' = [task EXCEPT !["warmup"] = "ended"]
        /\ UNCHANGED <<stage, background, scheduler, request>> /\ UNCHANGED sessionVars
    BY <1>4 DEF WarmUpEnds, TaskEnds, Busy, gatewayVars
  <2>2. TaskInv'
    BY <1>0, <2>1 DEF TaskInv, Early, Active
  <2>3. QED  BY <2>1, <2>2, LifecycleStep
<1>5. ASSUME NEW r \in Requests, Request(r) PROVE QueueInv' /\ OwnerInv' /\ TaskInv'
  <2>1. PICK q \in clients : Arrives(r, q)
    BY <1>5 DEF Request
  <2>2. /\ request[r] = "idle" /\ UNCHANGED sessionVars /\ UNCHANGED lifecycleVars
        /\ stage = "serving" /\ DOMAIN request' = Requests
        /\ \A v \in Requests \ {r} : request'[v] = request[v]
    BY <1>0, <1>5, <2>1 DEF Request, Arrives, OwnerInv
  <2>3. QueueInv'
    BY <1>0, <2>2 DEF QueueInv, sessionVars
  <2>4. ~Busy(r)
    BY <1>0, <2>2, WarmUpIsNoRequest DEF OwnerInv, NeedsKey
  <2>5. OwnerInv'
    BY <1>0, <2>2, <2>4, WarmUpIsNoRequest
       DEF OwnerInv, Busy, NeedsKey, sessionVars, lifecycleVars
  <2>6. TaskInv'
    BY <1>0, <2>2 DEF TaskInv, Early, Active, lifecycleVars
  <2>7. QED  BY <2>3, <2>5, <2>6
<1>6. ASSUME NEW r \in Requests, Call(r) PROVE QueueInv' /\ OwnerInv' /\ TaskInv'
  <2>1. /\ Ask(r) /\ NeedsKey(r) /\ UNCHANGED lifecycleVars /\ UNCHANGED request
    BY <1>6 DEF Call, gatewayVars
  <2>2. QED  BY <1>0, <2>1, AskKeepsQueue, UserStep, WarmUpIsNoRequest
<1>7. ASSUME NEW r \in Requests, Answer(r) PROVE QueueInv' /\ OwnerInv' /\ TaskInv'
  <2>1. /\ QueueInv' /\ ~Busy(r) /\ ~Busy(r)' /\ \A v \in Users \ {r} : user'[v] = user[v]
    <3>1. CASE AnswerYouTube(r) \/ AnswerTool(r)
      BY <1>0, <3>1, ForgettingKeepsQueue, WarmUpIsNoRequest DEF AnswerYouTube, AnswerTool, Busy
    <3>2. CASE AnswerTikTok(r)
      <4>1. UNCHANGED sessionVars /\ request[r] = "tiktok"
        BY <3>2 DEF AnswerTikTok
      <4>2. ~Busy(r)
        BY <1>0, <4>1, WarmUpIsNoRequest DEF OwnerInv, NeedsKey
      <4>3. QED  BY <1>0, <4>1, <4>2 DEF QueueInv, sessionVars, Busy
    <3>3. QED  BY <1>7, <3>1, <3>2 DEF Answer
  <2>2. OperationEnds(r) /\ UNCHANGED lifecycleVars
    BY <1>7 DEF Answer, AnswerYouTube, AnswerTool, AnswerTikTok
  <2>3. OwnerInv'
    BY <1>0, <2>1, <2>2, WarmUpIsNoRequest
       DEF OperationEnds, OwnerInv, Busy, NeedsKey, lifecycleVars
  <2>4. TaskInv'
    BY <1>0, <2>2 DEF OperationEnds, OwnerInv, TaskInv, Early, Active, lifecycleVars
  <2>5. QED  BY <2>1, <2>3, <2>4
<1>8. ASSUME NEW u \in Users, LockTurn(u) \/ Scrape(u) PROVE QueueInv' /\ OwnerInv' /\ TaskInv'
  <2>1. UNCHANGED lifecycleVars /\ UNCHANGED request
    BY <1>8 DEF LockTurn, Scrape, gatewayVars
  <2>2. Busy(u) /\ QueueInv' /\ \A v \in Users \ {u} : user'[v] = user[v]
    <3>1. CASE LockTurn(u)
      BY <1>0, <3>1, TurnKeepsQueue DEF LockTurn
    <3>2. CASE Scrape(u)
      BY <1>0, <3>2, ScrapeKeepsQueue DEF Scrape, ScrapeEnds, Busy
    <3>3. QED  BY <1>8, <3>1, <3>2
  <2>3. IF u = WarmUp THEN task["warmup"] \in {"running", "cancelled"} ELSE NeedsKey(u)
    BY <1>0, <2>2 DEF OwnerInv
  <2>4. QED  BY <2>1, <2>2, <2>3, UserStep
<1>9. ASSUME StopSignal \/ CancelTasks PROVE QueueInv' /\ OwnerInv' /\ TaskInv'
  <2>1. /\ UNCHANGED <<background, scheduler, request>> /\ UNCHANGED sessionVars
        /\ ~Early /\ ~Early'
        /\ (stage' = "draining" \/ Active = {})
    BY <1>9 DEF StopSignal, StopAsked, CancelTasks, Cancels, gatewayVars, Early
  <2>2. \A t \in Tasks : task[t] \in {"running", "cancelled"} <=> task'[t] \in {"running", "cancelled"}
    BY <1>0, <1>9 DEF StopSignal, StopAsked, CancelTasks, Cancels, TaskInv
  <2>3. task' \in [Tasks -> {"none", "running", "cancelled", "ended"}]
    BY <1>0, <1>9 DEF StopSignal, StopAsked, CancelTasks, Cancels, TaskInv
  <2>4. TaskInv'
    BY <1>0, <2>1, <2>2, <2>3 DEF TaskInv, Active
  <2>5. QED  BY <2>1, <2>2, <2>4, LifecycleStep, WarmUpIsNoRequest
<1>10. ASSUME TasksGathered \/ JobsStop PROVE QueueInv' /\ OwnerInv' /\ TaskInv'
  <2>1. UNCHANGED <<task, request>> /\ UNCHANGED sessionVars
    BY <1>10 DEF TasksGathered, Shutdown, JobsStop, SchedulerStops, gatewayVars
  <2>2. TaskInv'
    <3>1. CASE TasksGathered
      BY <1>0, <2>1, <3>1 DEF TasksGathered, Shutdown, AllEnded, TaskInv, Early, Active
    <3>2. CASE JobsStop
      BY <1>0, <2>1, <3>2 DEF JobsStop, SchedulerStops, TaskInv, Early, Active
    <3>3. QED  BY <1>10, <3>1, <3>2
  <2>3. QED  BY <2>1, <2>2, LifecycleStep
<1>11. ASSUME NEW t \in Tasks, CancelledTaskEnds(t) PROVE QueueInv' /\ OwnerInv' /\ TaskInv'
  <2>1. /\ task[t] = "cancelled" /\ task' = [task EXCEPT ![t] = "ended"]
        /\ UNCHANGED <<stage, background, scheduler, request>>
    BY <1>11 DEF CancelledTaskEnds, TaskEnds, gatewayVars
  <2>2. TaskInv'
    BY <1>0, <2>1 DEF TaskInv, Early, Active
  <2>3. CASE t = "warmup"
    <3>1. QueueInv' /\ user'[WarmUp] = "done" /\ \A v \in Users \ {WarmUp} : user'[v] = user[v]
      BY <1>0, <1>11, <2>3, CancelKeepsQueue, WarmUpIsNoRequest DEF CancelledTaskEnds
    <3>2. OwnerInv'
      BY <1>0, <2>1, <3>1 DEF OwnerInv, Busy, NeedsKey
    <3>3. QED  BY <2>2, <3>1, <3>2
  <2>4. CASE t # "warmup"
    <3>1. UNCHANGED sessionVars /\ task'["warmup"] = task["warmup"]
      BY <1>0, <1>11, <2>1, <2>4, WarmUpIsNoRequest DEF CancelledTaskEnds, TaskInv
    <3>2. QED  BY <2>1, <2>2, <3>1, LifecycleStep
  <2>5. QED  BY <2>3, <2>4
<1>12. ASSUME Window \/ Time \/ UNCHANGED minerVars PROVE QueueInv' /\ OwnerInv' /\ TaskInv'
  <2>1. UNCHANGED <<user, holder, queue, request>> /\ UNCHANGED lifecycleVars
    BY <1>12 DEF Window, WindowEnds, Time, SessionTick, minerVars, gatewayVars, sessionVars
  <2>2. QED
    BY <1>0, <2>1
       DEF QueueInv, OwnerInv, TaskInv, Busy, NeedsKey, Early, Active, lifecycleVars
<1>13. QueueInv' /\ OwnerInv' /\ TaskInv'
  BY <1>1, <1>2, <1>3, <1>4, <1>5, <1>6, <1>7, <1>8, <1>9, <1>10, <1>11, <1>12 DEF Next
<1>14. QED  BY <1>0, <1>13 DEF EndInv

-----------------------------------------------------------------------------
(* Theorems.                                                                   *)

\* The middlewares, the key check and the limits of main.py in their order: whatever
\* the settings and the limits are, limits that the remote configuration changed
\* included, a caller is never answered beyond one of its limits, and what the limit of
\* a route counts is operations.
THEOREM LimitsHold == Spec => []LimitsAreKept
<1>1. LimitInv => LimitsAreKept
  <2> SUFFICES ASSUME LimitInv
               PROVE  LimitsAreKept
    OBVIOUS
  <2>1. \A quota \in Quotas : /\ used[quota] \in Nat /\ served[quota] \in Nat
                             /\ LimitOf(quota) \in Nat
    BY LimitIsNat DEF LimitInv, Counters
  <2>2. \A quota \in Quotas : served[quota] <= used[quota] /\ used[quota] <= LimitOf(quota)
    BY DEF LimitInv
  <2>3. \A quota \in Quotas : served[quota] <= LimitOf(quota)
    BY <2>1, <2>2
  <2>4. QED  BY <2>3 DEF LimitInv, LimitsAreKept
<1>2. QED  BY <1>1, InvariantsInit, LimitsStep, PTL DEF Spec

\* _key_lock: the user that scrapes holds the lock, so two never scrape at a time,
\* also when the warm-up task is cancelled while it scrapes.
THEOREM OneScrapesAtATime == Spec => [](\A u, v \in Users :
                                 user[u] = "scraping" /\ user[v] = "scraping" => u = v)
<1>1. SessionInv => \A u, v \in Users : user[u] = "scraping" /\ user[v] = "scraping" => u = v
  BY DEF SessionInv, HolderScrapes
<1>2. QED  BY <1>1, InvariantsInit, SessionStep, PTL DEF Spec

\* get_youtube_api_key and warm_youtube_session: nobody scrapes for what is there,
\* whoever else scraped, failed or was cancelled in the meantime.
THEOREM NoScrapeInVain == Spec => OneScrapeForAll
<1>1. SessionInv /\ [Next]_minerVars => [InNoVain]_sessionVars
  BY SessionStep
<1>2. QED  BY <1>1, InvariantsInit, SessionStep, PTL DEF Spec, OneScrapeForAll, InNoVain

\* shutdown: a process that has stopped, or has refused to start, leaves no task, no
\* lock and nobody in the line for it, also when the warm-up is cancelled there.
THEOREM NothingIsLeft == Spec => []NothingLeftRunning
<1>1. EndInv => NothingLeftRunning
  <2> SUFFICES ASSUME EndInv, Early
               PROVE  /\ \A t \in Tasks : task[t] \in {"none", "ended"}
                      /\ background = {} /\ holder = Nobody /\ queue = <<>>
                      /\ scheduler # "on" /\ Active = {}
    BY DEF NothingLeftRunning, Early
  <2>1. /\ \A t \in Tasks : task[t] \in {"none", "ended"}
        /\ background = {} /\ scheduler # "on" /\ Active = {}
    BY DEF EndInv, TaskInv, Early
  <2>2. ASSUME NEW u \in Users, Busy(u) PROVE FALSE
    BY <2>1, <2>2, WarmUpIsNoRequest DEF EndInv, OwnerInv, NeedsKey, Active
  <2>3. holder = Nobody
    BY <2>2 DEF EndInv, SessionInv, HolderScrapes, QueueInv, Busy
  <2>4. queue = <<>>
    <3>1. ToSet(queue) = {}
      BY <2>2 DEF EndInv, QueueInv, Busy, ToSet
    <3>2. QED  BY <3>1 DEF EndInv, QueueInv, ToSet
  <2>5. QED  BY <2>1, <2>3, <2>4
<1>2. QED  BY <1>1, EndInit, EndStep, PTL DEF Spec
=============================================================================
