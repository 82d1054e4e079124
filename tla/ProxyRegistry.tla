--------------------------- MODULE ProxyRegistry ---------------------------
(* app/config/proxy.py: ProxyRegistry, from which every crawler draws its      *)
(* proxies, as asyncio tasks of one process use it.  get() runs without a      *)
(* break up to the HTTP call to a proxy provider, and from its answer on.      *)
(*                                                                             *)
(* load() runs once, when the application starts: the pools are constants.     *)
(* _round_robin is left out: get() resets it before reading it wherever a      *)
(* country has more than one entry, and modulo 1 every index is 0.             *)
(* time.time() enters only as the age of a use or of a cache entry, and an age *)
(* only by its comparison with a TTL: ages are counted and stop at the TTL.    *)
EXTENDS Integers, FiniteSets, Sequences, Functions

CONSTANTS Tasks,      \* the tasks that ask for proxies
          Countries,  \* upper-case country codes
          Entries,    \* PoolConfig objects
          Api,        \* the entries whose provider is an ApiProvider
          Unreachable,\* the API entries without a url
          Pools,      \* _by_country: the entries of a country
          Direct,     \* the proxies of a country's _DirectPool
          Key,        \* the key of an API entry
          Supplied,   \* the proxies that providers may answer with
          NoProxy,    \* None
          DirectTtl,  \* DIRECT_PROXY_TTL
          ApiTtl,     \* PROXY_API_TTL
          Prefixed    \* the keys that rotate(country) drops: they begin with "CODE:"

Keys == {Key[e] : e \in Api}
EntriesOf(c) == {Pools[c][i] : i \in DOMAIN Pools[c]}
CountryKeys(c) == {Key[e] : e \in EntriesOf(c) \cap Api}
Proxies == (UNION {Direct[c] : c \in Countries}) \cup Supplied

ASSUME ConstantsAssumption ==
    /\ Api \subseteq Entries /\ Unreachable \subseteq Api
    /\ Pools \in [Countries -> Seq(Entries)]
    /\ DOMAIN Direct = Countries /\ \A c \in Countries : IsFiniteSet(Direct[c])
    /\ DOMAIN Key = Api
    /\ Prefixed \in [Countries -> SUBSET Keys]
    /\ NoProxy \notin Proxies
    /\ DirectTtl \in Nat \ {0} /\ ApiTtl \in Nat \ {0}

VARIABLES meta,     \* _meta of a country's pool: proxy -> age of its last use
          apiCache, \* _api_cache: key -> [proxy, age]
          gets,     \* the get() of a task that awaits a provider, else NotAsking
          handed    \* what get() has returned to a task, until the task is done with it

registryVars == <<meta, apiCache, gets, handed>>

-----------------------------------------------------------------------------
NotAsking == [country |-> "none", rest |-> <<>>, refused |-> {}]
Asking(t) == gets[t].rest # <<>>
Nothing == [proxy |-> NoProxy, from |-> "nothing", country |-> "none", refused |-> {}]

\* time.time() - last >= ttl, or never used at all, or the only proxy there is.
Rested(c, p) == p \notin DOMAIN meta[c] \/ meta[c][p] >= DirectTtl
CanUse(c, p) == Cardinality(Direct[c]) <= 1 \/ Rested(c, p)

\* get_random chooses among the rested proxies, or all if none is.
Available(c) ==
    LET rested == {p \in Direct[c] : CanUse(c, p)}
    IN  IF rested = {} THEN Direct[c] ELSE rested

Cached(k) == k \in DOMAIN apiCache /\ apiCache[k].age < ApiTtl

\* cached.proxy
ProxyIn(entry) == entry.proxy

\* get() passes over an entry without awaiting anything.
Skipped(c, e) ==
    IF e \in Api THEN ~Cached(Key[e]) /\ e \in Unreachable ELSE Available(c) = {}

\* random.shuffle(entries)
Shuffles == [c \in Countries |->
    {[i \in DOMAIN Pools[c] |-> Pools[c][order[i]]] :
        order \in Bijection(DOMAIN Pools[c], DOMAIN Pools[c])}]

FromNext(c, rest) ==
    LET tried == {i \in DOMAIN rest : ~Skipped(c, rest[i])}
    IN  IF tried = {} THEN <<>>
        ELSE SubSeq(rest, CHOOSE i \in tried : \A j \in tried : i <= j, Len(rest))

\* dict[key] = value
Put(dict, key, value) ==
    [k \in DOMAIN dict \cup {key} |-> IF k = key THEN value ELSE dict[k]]

Hand(t, c, proxy, source, refused) ==
    /\ handed' = [handed EXCEPT ![t] =
                    [proxy |-> proxy, from |-> source, country |-> c, refused |-> refused]]
    /\ gets' = [gets EXCEPT ![t] = NotAsking]

\* The loop of get() over the entries that are left, up to its next await.
\* refused is history: the entries whose provider this get() asked in vain.
TryEntries(t, c, entries, refused) ==
    LET rest == FromNext(c, entries)
        e == Head(rest)
    IN  \/ /\ rest = <<>>
           /\ Hand(t, c, NoProxy, "nowhere", refused)
           /\ UNCHANGED <<meta, apiCache>>
        \/ /\ rest # <<>> /\ e \notin Api
           /\ \E p \in Available(c) :
                /\ meta' = [meta EXCEPT ![c] = Put(@, p, 0)]
                /\ Hand(t, c, p, "direct", refused)
           /\ UNCHANGED apiCache
        \/ /\ rest # <<>> /\ e \in Api /\ Cached(Key[e])
           /\ Hand(t, c, ProxyIn(apiCache[Key[e]]), "cache", refused)
           /\ UNCHANGED <<meta, apiCache>>
        \/ /\ rest # <<>> /\ e \in Api /\ ~Cached(Key[e])
           /\ gets' = [gets EXCEPT ![t] = [country |-> c, rest |-> rest, refused |-> refused]]
           /\ UNCHANGED <<meta, apiCache, handed>>

\* What a provider that does not answer leaves to be tried; faulty variant: the
\* first failure ends the search.
GiveUp(rest) == <<>>
Remaining(rest) == Tail(rest)

-----------------------------------------------------------------------------
RegistryInit ==
    /\ meta = [c \in Countries |-> <<>>]
    /\ apiCache = <<>>
    /\ gets = [t \in Tasks |-> NotAsking]
    /\ handed = [t \in Tasks |-> Nothing]

Get(t, c) ==
    /\ ~Asking(t) /\ handed[t] = Nothing
    /\ \E entries \in Shuffles[c] : TryEntries(t, c, entries, {})

\* The provider's answer is cached when it arrives, whatever happened meanwhile.
ProviderAnswers(t, p) ==
    LET k == Key[Head(gets[t].rest)]
    IN  /\ Asking(t)
        /\ apiCache' = Put(apiCache, k, [proxy |-> p, age |-> 0])
        /\ Hand(t, gets[t].country, p, "provider", gets[t].refused)
        /\ UNCHANGED meta

\* Any exception of the HTTP call, an error status or an unusable body.
ProviderFails(t) ==
    /\ Asking(t)
    /\ TryEntries(t, gets[t].country, Remaining(gets[t].rest),
                  gets[t].refused \cup {Head(gets[t].rest)})

\* What rotate() keeps; faulty variant: nothing is dropped.
KeptAll == apiCache
Kept == <<>>

\* rotate()
Rotate ==
    /\ apiCache' = Kept
    /\ UNCHANGED <<meta, gets, handed>>

KeptWithout(c) == [k \in (DOMAIN apiCache) \ Prefixed[c] |-> apiCache[k]]

\* rotate(country)
RotateCountry(c) ==
    /\ apiCache' = KeptWithout(c)
    /\ UNCHANGED <<meta, gets, handed>>

\* The task is done with its proxy.
Release(t) ==
    /\ handed[t] # Nothing
    /\ handed' = [handed EXCEPT ![t] = Nothing]
    /\ UNCHANGED <<meta, apiCache, gets>>

Older(age, ttl) == IF age < ttl THEN age + 1 ELSE ttl

\* A unit of time passes.
Age ==
    /\ meta' = [c \in Countries |-> [p \in DOMAIN meta[c] |-> Older(meta[c][p], DirectTtl)]]
    /\ apiCache' = [k \in DOMAIN apiCache |->
                      [apiCache[k] EXCEPT !.age = Older(@, ApiTtl)]]
    /\ UNCHANGED <<gets, handed>>

Answer(t) == ProviderFails(t) \/ \E p \in Supplied : ProviderAnswers(t, p)

RegistryNext ==
    \/ \E t \in Tasks : Answer(t) \/ Release(t) \/ \E c \in Countries : Get(t, c)
    \/ Rotate
    \/ \E c \in Countries : RotateCountry(c)
    \/ Age

RegistrySpec == RegistryInit /\ [][RegistryNext]_registryVars

-----------------------------------------------------------------------------
(* Properties.                                                                 *)

GetRecord ==
    [country : Countries \cup {"none"}, rest : Seq(Entries), refused : SUBSET Api]

HandedRecord ==
    [proxy : Proxies \cup {NoProxy}, country : Countries \cup {"none"}, refused : SUBSET Api,
     from : {"nothing", "nowhere", "direct", "cache", "provider"}]

RegistryTypeOK ==
    /\ DOMAIN meta = Countries
    /\ \A c \in Countries :
          /\ DOMAIN meta[c] \subseteq Direct[c]
          /\ \A p \in DOMAIN meta[c] : meta[c][p] \in 0 .. DirectTtl
    /\ DOMAIN apiCache \subseteq Keys
    /\ \A k \in DOMAIN apiCache : apiCache[k] \in [proxy : Supplied, age : 0 .. ApiTtl]
    /\ gets \in [Tasks -> GetRecord]
    /\ handed \in [Tasks -> HandedRecord]

\* get() answers None, which makes the crawler go out from the server's own
\* address, only for a country without direct proxies, and only after every
\* provider of the country with a url has failed this very get(): neither used
\* up direct proxies, nor one failing provider, nor a provider that failed
\* another task cause it.
NoneOnlyWhenExhausted ==
    \A t \in Tasks : handed[t].from = "nowhere" =>
        LET c == handed[t].country
        IN  /\ EntriesOf(c) \subseteq Api \/ Direct[c] = {}
            /\ (EntriesOf(c) \cap Api) \ Unreachable \subseteq handed[t].refused

\* A get() of task t returns a direct proxy of c.
HandsDirect(t, c) ==
    handed[t] = Nothing /\ handed'[t].from = "direct" /\ handed'[t].country = c

\* Direct proxies are spread over the requests: a proxy that went out less than
\* DIRECT_PROXY_TTL ago goes out again only when every other proxy of its
\* country has gone out in that time, too.
DirectProxiesRest ==
    [][ \A t \in Tasks, c \in Countries :
            HandsDirect(t, c) /\ ~Rested(c, handed'[t].proxy)
                => \A p \in Direct[c] : ~Rested(c, p) ]_registryVars
=============================================================================
