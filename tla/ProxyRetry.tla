----------------------------- MODULE ProxyRetry -----------------------------
(* app/crawlers/retry.py: retry_async, and _call of app/services/youtube.py,   *)
(* which makes every upstream request of the YouTube service: an attempt takes *)
(* a proxy from the registry and fetches through it, a transient failure is    *)
(* retried after a pause, and some failures rotate the registry, which all     *)
(* calls share, on their way.                                                  *)
EXTENDS ProxyRegistry

CONSTANTS Errors,   \* the failures upstream and the proxies may cause
          Attempts  \* attempts of retry_async

\* httpx.HTTPStatusError 429, one of 500, 502, 503 and 504, 400 or 404, and any
\* other status; ProxyError, ConnectError and RemoteProtocolError; any other
\* TransportError; CrawlNetworkError; every other exception.
ErrorKinds == {"throttled", "server", "missing", "status", "proxy", "transport",
               "blocked", "structure"}

ASSUME RetryAssumption == Errors \subseteq ErrorKinds /\ Attempts \in Nat \ {0}

VARIABLES pc,      \* "idle", "get" (awaits get_proxy), "fetch" or "sleep"
          country, \* the country it asks proxies of
          attempt, \* the attempt the call is at
          wait,    \* what is left of asyncio.sleep
          outcome, \* how the task's last call ended: [error, attempts]
          failed   \* history: [proxy, error] of the call's failed attempts, until a
                   \* provider supplies the proxy anew

callVars == <<pc, country, attempt, wait, outcome, failed>>
vars == <<registryVars, callVars>>

-----------------------------------------------------------------------------
\* is_transient; faulty variant: only HTTP statuses are.
StatusTransient(error) == error \in {"throttled", "server"}
IsTransient(error) == error \in {"throttled", "server", "proxy", "transport", "blocked"}

\* _needs_new_proxy
NeedsNewProxy(error) == error \in {"throttled", "proxy", "blocked"}

\* delay * attempt
Pause(n) == n

NoOutcome == [error |-> "none", attempts |-> 0]

\* The call leaves retry_async; _call turns the error "missing" into not-found.
Ends(t, error) ==
    /\ pc' = [pc EXCEPT ![t] = "idle"]
    /\ outcome' = [outcome EXCEPT ![t] = [error |-> error, attempts |-> attempt[t]]]
    /\ UNCHANGED <<country, attempt, wait>>

\* attempt() awaits get_proxy, which may return at once or await a provider.
GetProxy(t) ==
    IF Asking(t)'
    THEN pc' = [pc EXCEPT ![t] = "get"]
    ELSE pc' = [pc EXCEPT ![t] = "fetch"]

-----------------------------------------------------------------------------
Init ==
    /\ RegistryInit
    /\ pc = [t \in Tasks |-> "idle"]
    /\ country \in [Tasks -> Countries]
    /\ attempt = [t \in Tasks |-> 1]
    /\ wait = [t \in Tasks |-> 0]
    /\ outcome = [t \in Tasks |-> NoOutcome]
    /\ failed = [t \in Tasks |-> {}]

Call(t, c) ==
    /\ pc[t] = "idle"
    /\ Get(t, c)
    /\ GetProxy(t)
    /\ country' = [country EXCEPT ![t] = c]
    /\ attempt' = [attempt EXCEPT ![t] = 1]
    /\ failed' = [failed EXCEPT ![t] = {}]
    /\ outcome' = [outcome EXCEPT ![t] = NoOutcome]
    /\ UNCHANGED wait

\* The provider asked by the call's get_proxy answers, or fails and get goes on.
GotProxy(t) ==
    /\ pc[t] = "get"
    /\ \/ ProviderFails(t) /\ UNCHANGED failed
       \/ \E p \in Supplied :
            /\ ProviderAnswers(t, p)
            /\ failed' = [u \in Tasks |-> {f \in failed[u] : f.proxy # p}]
    /\ GetProxy(t)
    /\ UNCHANGED <<country, attempt, wait, outcome>>

FetchSucceeds(t) ==
    /\ pc[t] = "fetch"
    /\ Ends(t, "none")
    /\ Release(t)
    /\ UNCHANGED failed

\* attempt == attempts or not is_transient(exc)
GivesUp(t, error) == attempt[t] = Attempts \/ ~IsTransient(error)

FetchFails(t, error) ==
    /\ pc[t] = "fetch"
    /\ failed' = [failed EXCEPT ![t] = @ \cup {[proxy |-> handed[t].proxy, error |-> error]}]
    /\ \/ /\ GivesUp(t, error)
          /\ Ends(t, error)
          /\ Release(t)
       \/ /\ ~GivesUp(t, error)
          /\ apiCache' = IF NeedsNewProxy(error) THEN Kept ELSE apiCache
          /\ handed' = [handed EXCEPT ![t] = Nothing]
          /\ UNCHANGED <<meta, gets>>
          /\ pc' = [pc EXCEPT ![t] = "sleep"]
          /\ wait' = [wait EXCEPT ![t] = Pause(attempt[t])]
          /\ UNCHANGED <<country, attempt, outcome>>

\* for attempt in range(1, attempts + 1); faulty variant: attempts not counted.
Uncounted(n) == n
FollowingAttempt(n) == n + 1

Retry(t) ==
    /\ pc[t] = "sleep" /\ wait[t] = 0
    /\ Get(t, country[t])
    /\ GetProxy(t)
    /\ attempt' = [attempt EXCEPT ![t] = FollowingAttempt(@)]
    /\ UNCHANGED <<country, wait, outcome, failed>>

Tick ==
    /\ Age
    /\ wait' = [t \in Tasks |-> IF wait[t] > 0 THEN wait[t] - 1 ELSE 0]
    /\ UNCHANGED <<pc, country, attempt, outcome, failed>>

\* POST /proxy/rotate, with and without a country.
AdminRotates ==
    /\ Rotate \/ \E c \in Countries : RotateCountry(c)
    /\ UNCHANGED callVars

Step(t) ==
    \/ GotProxy(t) \/ FetchSucceeds(t) \/ Retry(t)
    \/ \E error \in Errors : FetchFails(t, error)

Next ==
    \/ \E t \in Tasks : Step(t) \/ \E c \in Countries : Call(t, c)
    \/ Tick
    \/ AdminRotates

\* Every client has a timeout, so that each request to a provider or upstream
\* comes back, and time passes; nothing makes anybody call or rotate.
Spec == Init /\ [][Next]_vars /\ WF_vars(Tick) /\ \A t \in Tasks : WF_vars(Step(t))

-----------------------------------------------------------------------------
(* Properties.                                                                 *)

TypeOK ==
    /\ RegistryTypeOK
    /\ pc \in [Tasks -> {"idle", "get", "fetch", "sleep"}]
    /\ country \in [Tasks -> Countries]
    /\ attempt \in [Tasks -> 1 .. Attempts]
    /\ wait \in [Tasks -> 0 .. Attempts]
    /\ outcome \in [Tasks -> [error : Errors \cup {"none"}, attempts : 0 .. Attempts]]
    /\ failed \in [Tasks -> SUBSET [proxy : Proxies \cup {NoProxy}, error : Errors]]
    /\ \A t \in Tasks : pc[t] = "get" <=> Asking(t)

\* The error table of README.md: malformed, missing and restructured content
\* fails the call at once, while throttling, HTTP 5xx and transport errors fail
\* it only with the last of its attempts, whatever the attempts before met.
Hopeless == {"missing", "status", "structure"}

RetriedWhenWorthIt ==
    \A t \in Tasks :
        /\ outcome[t].error \in Errors \ Hopeless => outcome[t].attempts = Attempts
        /\ pc[t] # "idle" => \A f \in failed[t] : f.error \notin Hopeless

\* A retry after throttling, a block or a proxy failure does not go through the
\* very proxy that failed the call because the cache still holds it, or holds it
\* again on behalf of another call: a provider has supplied it since.
ProxyErrors == {"throttled", "proxy", "blocked"}

RetryLeavesCachedProxy ==
    \A t \in Tasks : pc[t] = "fetch" /\ handed[t].from = "cache" =>
        \A f \in failed[t] : f.error \in ProxyErrors => f.proxy # handed[t].proxy

\* A call comes to its end, through pauses, failing providers and rotations.
CallEnds == \A t \in Tasks : pc[t] # "idle" ~> pc[t] = "idle"

\* retry.py:38: "fn should pick its proxy itself, so a retry after a rotation
\* actually goes through a different one."
RetryGoesElsewhere ==
    \A t \in Tasks : pc[t] = "fetch" /\ handed[t].from = "direct" =>
        \A f \in failed[t] : f.error \in ProxyErrors => f.proxy # handed[t].proxy
=============================================================================
