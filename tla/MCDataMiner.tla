---------------------------- MODULE MCDataMiner -----------------------------
EXTENDS DataMiner, TLC

CONSTANTS r1, r2

MCRequests == {r1, r2}

Q(path, key, service, listed) == [path |-> path, key |-> key, service |-> service, listed |-> listed]
S(serviceAuth, allowlist, jobs, apiKeys, token) ==
    [serviceAuth |-> serviceAuth, allowlist |-> allowlist, mcpToken |-> TRUE,
     scheduler |-> jobs, apiKeys |-> apiKeys, serviceToken |-> token]

\* A server for services, one open to keys alone, and two that cannot start, with one
\* kind of caller at a time.  Those whose operations use the YouTube session are let
\* through; every refusal comes alone and together with others, under each way of being
\* counted, where operations need no session.
ForServices ==
    {{Q("mcp", "right", "none", TRUE)},
     {Q("tiktok", key, service, FALSE) :
         key \in {"none", "right"}, service \in {"wrong", "right"}},
     {Q("tiktok", "right", "none", TRUE), Q("mcp", "wrong", "none", TRUE)}}
ForKeys ==
    {{Q("youtube", "right", "none", TRUE)},
     {Q("tiktok", key, "none", listed) : key \in {"wrong", "right"}, listed \in BOOLEAN},
     {Q("tiktok", "none", "none", TRUE), Q("mcp", "wrong", "none", FALSE)},
     {Q("health", "none", "none", FALSE)}}
MCDeployments ==
    [settings : {S(TRUE, FALSE, TRUE, TRUE, TRUE)}, clients : ForServices]
    \cup [settings : {S(FALSE, TRUE, FALSE, TRUE, FALSE)}, clients : ForKeys]
    \cup [settings : {S(FALSE, FALSE, FALSE, FALSE, TRUE), S(TRUE, TRUE, TRUE, TRUE, FALSE)},
          clients : {{Q("health", "none", "none", FALSE)}}]

\* A service without a limit of its own until the remote configuration gives it one.
MCDefaults ==
    [entry \in Entries |-> CASE entry = "service" -> 0 [] entry = "hour" -> 2 [] OTHER -> 1]
MCRemotes == {[entry \in {"service"} |-> 2]}
=============================================================================
