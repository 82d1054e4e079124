------------------------------ MODULE Gateway -------------------------------
(* The way of an HTTP request through main.py: the middlewares in the order in    *)
(* which they see it, the key check of the routers, the limits of the routes, the *)
(* operation and its end.  Nothing on the way to the operation awaits anything    *)
(* but the next layer, so a request is refused or admitted in one step.  There    *)
(* are limits in two places: SlowAPI's middleware, outside every check, counts    *)
(* requests of whoever they say they come from, by the hour and by the minute;    *)
(* the decorated endpoints, behind every check, count by limits of their own.     *)
(* Logging, client info, locale and CORS let every request pass and are left out, *)
(* and so are the status codes.                                                   *)
EXTENDS Naturals, Sequences

CONSTANTS Requests,    \* slots for requests under way
          Deployments  \* settings the process may be started with, and the requests that
                       \* may come to it: the path; the API key, or the bearer token for
                       \* MCP; the service's name and token; and whether the address is
                       \* in the allowlist

Routes == {"youtube", "tiktok"}  \* routes under /api; Google's are like TikTok's
Paths == Routes \cup {"mcp", "health"}

Headers == [path : Paths, key : {"none", "wrong", "right"},
            service : {"none", "wrong", "right"}, listed : BOOLEAN]

ASSUME GatewayAssumption ==
    Deployments \subseteq
        [settings : [serviceAuth : BOOLEAN, allowlist : BOOLEAN, mcpToken : BOOLEAN,
                     scheduler : BOOLEAN, apiKeys : BOOLEAN, serviceToken : BOOLEAN],
         clients : SUBSET Headers]

VARIABLES settings,   \* config/settings.py, read from the environment at import
          clients,    \* the requests that come
          limits,     \* rate_limits: Entries -> limit of a window
          used,       \* the limiter's count for a quota in its current window
          request,    \* request[r]: "idle", or the path whose operation is under way
          served      \* history: the requests that were answered in that window

gatewayVars == <<settings, clients, limits, used, request, served>>

Entries == Routes \cup {"service", "hour", "minute"}

\* What a limit counts: a caller's requests to a path, by the hour and the minute
\* (RATE_LIMIT_DEFAULT, RATE_LIMIT_BURST), and by the route's own limit.
LimitLayers == {"hour", "minute", "route"}
Identities == {"service", "key", "ip"}
Quotas == {quota \in [by : Identities, path : Paths, per : LimitLayers] :
               quota.per = "route" => quota.path \in Routes}

Active == {r \in Requests : request[r] # "idle"}

-----------------------------------------------------------------------------
\* get_identifier: the name of the service comes first, then the head of the API key,
\* which a wrong key may share; neither has been checked.
Identifier(q) ==
    IF q.service # "none" THEN "service"
    ELSE IF q.path # "mcp" /\ q.key # "none" THEN "key" ELSE "ip"

QuotaOf(layer, q) == [by |-> Identifier(q), path |-> q.path, per |-> layer]
QuotasOf(q) == {QuotaOf(layer, q) : layer \in LimitLayers} \cap Quotas

\* endpoint_limit: the limit of the service if it has one, else of the route.
LimitOf(quota) ==
    IF quota.per # "route" THEN limits[quota.per]
    ELSE IF quota.by = "service" /\ limits["service"] > 0 THEN limits["service"]
    ELSE limits[quota.path]

\* validate_service_identity
Identified(q) == q.service = "right"

\* What each layer refuses.
ServiceAuthRefuses(q) == settings.serviceAuth /\ q.path \in Routes /\ ~Identified(q)
AllowlistRefuses(q) == settings.allowlist /\ q.path # "health" /\ ~Identified(q) /\ ~q.listed
McpAuthRefuses(q) == settings.mcpToken /\ q.path = "mcp" /\ q.key # "right"
ApiKeyRefuses(q) == q.path \in Routes /\ q.key # "right"

\* Which requests a limit is for.  The limits of the routes are functions, and those do
\* not exempt their routes from the defaults.  Faulty variant: they do.
ExemptRoutes(layer, q) == layer = "route" <=> q.path \in Routes
Metered(layer, q) == layer = "route" => q.path \in Routes

LimitRefuses(layer, q) ==
    /\ layer \in LimitLayers /\ Metered(layer, q)
    /\ used[QuotaOf(layer, q)] >= LimitOf(QuotaOf(layer, q))

Refuses(layer, q) ==
    \/ layer = "service_auth" /\ ServiceAuthRefuses(q)
    \/ layer = "allowlist" /\ AllowlistRefuses(q)
    \/ layer = "mcp_auth" /\ McpAuthRefuses(q)
    \/ layer = "api_key" /\ ApiKeyRefuses(q)
    \/ LimitRefuses(layer, q)

\* add_middleware puts the last one outermost; the router's dependencies come before
\* the decorated endpoint.
Layers == <<"hour", "minute", "service_auth", "allowlist", "mcp_auth", "api_key", "route">>

\* A request gets to a layer that no other one keeps it from, and is admitted when
\* none refuses it.  A limit counts each request that it sees and lets pass.
Reaches(layer, q) ==
    \A n \in DOMAIN Layers :
        (\A m \in 1 .. n : Layers[m] # layer) => ~Refuses(Layers[n], q)

Admitted(q) == \A n \in DOMAIN Layers : ~Refuses(Layers[n], q)

Counted(q) ==
    {quota \in QuotasOf(q) :
        Metered(quota.per, q) /\ Reaches(quota.per, q) /\ ~Refuses(quota.per, q)}

OneMore(count, quotas) ==
    [quota \in Quotas |-> IF quota \in quotas THEN count[quota] + 1 ELSE count[quota]]

-----------------------------------------------------------------------------
GatewayInit ==
    /\ \E d \in Deployments : settings = d.settings /\ clients = d.clients
    /\ limits = [entry \in Entries |-> 0]
    /\ used = [quota \in Quotas |-> 0] /\ served = [quota \in Quotas |-> 0]
    /\ request = [r \in Requests |-> "idle"]

\* A request comes in: it is refused (401, 403 or 429), answered at once, or goes on
\* to its operation.
Arrives(r, q) ==
    /\ request[r] = "idle"
    /\ used' = OneMore(used, Counted(q))
    /\ request' = IF Admitted(q) /\ q.path # "health"
                  THEN [request EXCEPT ![r] = q.path] ELSE request
    /\ served' = IF Admitted(q) THEN OneMore(served, QuotasOf(q)) ELSE served
    /\ UNCHANGED <<settings, clients, limits>>

\* api_ok, call_tool: the result, or an answer made from what was raised.
OperationEnds(r) ==
    /\ request[r] # "idle" /\ request' = [request EXCEPT ![r] = "idle"]
    /\ UNCHANGED <<settings, clients, limits, used, served>>

\* The limiter's storage: a window is over.
WindowEnds(quota) ==
    /\ used[quota] > 0
    /\ used' = [used EXCEPT ![quota] = 0] /\ served' = [served EXCEPT ![quota] = 0]
    /\ UNCHANGED <<settings, clients, limits, request>>

-----------------------------------------------------------------------------
(* Properties.                                                                 *)

GatewayTypeOK ==
    /\ [settings |-> settings, clients |-> clients] \in Deployments
    /\ limits \in [Entries -> Nat]
    /\ used \in [Quotas -> Nat] /\ served \in [Quotas -> Nat]
    /\ request \in [Requests -> (Paths \ {"health"}) \cup {"idle"}]

\* No caller gets more answers from a path in a window than any of its limits says,
\* the hourly and the minute's ones "on every endpoint" included.  A route's own limit
\* is spent on operations alone: requests that another layer refuses, for whatever
\* reason, use up nothing of it.  (They do use up the other two.)
LimitsAreKept ==
    /\ \A quota \in Quotas : served[quota] <= LimitOf(quota)
    /\ \A quota \in Quotas : quota.per = "route" => used[quota] = served[quota]
=============================================================================
