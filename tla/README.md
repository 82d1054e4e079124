# A verification of data-miner

TLA+ models of the stateful parts of this repository, small instances of them
checked by TLC, and theorems about them proved with TLAPS.  data-miner is a
FastAPI process that serves YouTube, TikTok and Google data over REST and MCP.
It keeps nothing on disk; its state is in memory, shared by the coroutines of
one event loop and, for TikTok, by a thread pool.  So what is hard in it is what
coroutines and threads do to shared state around their awaits, what failures and
timeouts leave behind, and what follows from long sequences of calls.

Contents: [the system](#the-system) · [modules](#the-modules) ·
[runs](#the-runs) · [fairness](#fairness) · [proofs](#the-proofs) ·
[differences from the documentation](#where-code-and-documentation-differ) ·
[not modelled](#not-modelled) · [plan](#plan)

## The system

A request passes the middleware (`app/middleware`), a route (`app/api`) or an MCP
tool (`app/tools`), and reaches a service operation (`app/services`).  A YouTube
operation looks into the result cache; on a miss it collects a page from YouTube's
own pages, each fetched by a call that is retried and that draws a proxy from the
registry for every attempt.  A TikTok search looks into a cache of its own, then
runs in a thread with one identity of a pool of warmed sessions, and falls back to
TikHub, a paid API.

| Component | State | Operations | Talks to | Hard behaviour | What makes it correct |
|---|---|---|---|---|---|
| Service cache, `services/cache.py` | an LRU dictionary of key → (expiry, value) | `get`, `put`, `clear`, `get_or_fetch` | every YouTube operation | `get_or_fetch` awaits between its `get` and its `put` | bounded size, LRU, bounded staleness |
| Paging, `crawlers/youtube/shared/paging.py` | none of its own; the caller holds a cursor | `collect_page`, the cursors | `_list` in `services/youtube.py` | full in mid-page, repeated items, empty pages, failed fetches | a walk loses nothing, stays in order, ends |
| Proxy registry, `config/proxy.py` | last use of direct proxies, one cached proxy per API pool | `get`, `rotate`, `load`, `status` | all crawlers, admin API | the HTTP call to a provider inside `get`; rotations meanwhile | falls back before giving up, spreads direct proxies |
| Retries, `crawlers/retry.py`, `_call` | attempt counter | `retry_async` | registry, YouTube, Tavily | several calls rotate one registry | transient failures are retried, through another proxy; calls end |
| TikTok pool, `crawlers/tiktok/native.py` | identities with session, token, lock; a cycle over them | `search_native`, `warm_session_pool`, the refresher | registry, executor threads | `wait_for` abandons threads; tokens change without their lock | sessions exclusive, pool within its window, searches end |
| YouTube client, `crawlers/youtube/client.py` | HTTP clients by proxy, API key, visitor data | `_get_pooled_client`, `get_youtube_api_key`, warm-up | YouTube crawlers | double-checked lock | one scrape, usable key |
| TikTok service, `services/tiktok.py`, `tiktok/cache.py`, `tikhub.py` | a cache of 500 searches | `search_videos` | pool, TikHub | both sources may fail or find nothing; eviction of many entries at once | an empty answer only from both sources; the oldest results go first |
| Google, `crawlers/google/tavily.py` | none | `search` | Tavily | retries | as for retries |
| TikTok signatures, `tiktok/lib/signatures`, `tiktok/services/base.py` | a global random generator: counter, index | `get_X_Gnarly`, `get_xbogus` | search threads | threads draw their keys from one generator without a lock; number fields of two lengths | the index stays in its block, a signature opens whatever its key is |
| YouTube operations, `services/youtube.py` | none; results, handles and topics are in the service cache | one per endpoint and tool | cache, crawlers, API, tools | handles and topics that move while pages of them are cached | an answer is the caller's own |
| Batches, `services/youtube.py` | a semaphore per call | `comments_batch`, `transcript_batch` | YouTube operations | one failure of several | results in order, failures isolated |
| Lifecycle, scheduler, `lifecycle.py`, `scheduler/` | background tasks | startup, shutdown | pool, YouTube client | order of start, failures at start | a failed part does not stop the others |
| Middleware, API, MCP, `main.py`, `middleware/`, `api/`, `mcp/`, `tools/` | the limiter's counts | request filters, routing, error mapping | services | limits in two places, before and behind the checks | nobody gets more answers than a limit says; a route's limit is spent on operations alone |
| YouTube crawlers, `crawlers/youtube/{shorts,channel,playlist,comment,detail}` | per call: what has been seen, attempts, tasks | a feed, a tab, a page of comments, a video | client, registry | any answer may be empty, repeated, another one, or fail; replies are fetched at once | nothing twice, nothing given to the wrong comment, the verdict of the right source, an end |
| Configuration, i18n, logging, schemas, parsers | read-only after start | | | | |

## The modules

| Module | Models | Correspondence |
|---|---|---|
| `ServiceCache` | `TTLCache`, `get_or_fetch` | `store` and `order` are the OrderedDict.  `get` and `put` have no await, so `Hit`, `Miss` and `FetchReturns` are atomic; the fetch between is open to other tasks.  `UpstreamReads` is the moment YouTube reads the data it answers with.  `promised` and `touched` are history. |
| `BoundedStaleReads` | what the cache promises | No cache: an answer is a version that was current less than a window ago. |
| `Paging` | `collect_page`, `_limit`, a caller who follows cursors | One action per branch of the loop.  The token of page p is p.  Pages behind a token are fixed; the first page, which has none, may change. |
| `ProxyRegistry` | `ProxyRegistry`, `_DirectPool` | `gets` is a `get` that awaits a provider, with the entries it still has to try; `TryEntries` is the loop up to its next await.  Times are ages that stop at their TTL. |
| `ProxyRetry` | `retry_async`, `_call`, `POST /proxy/rotate` | EXTENDS `ProxyRegistry` and composes two state machines: each call's `get_proxy` is `Get`, `ProviderAnswers` and `ProviderFails` of the registry, and a failed attempt rotates it. |
| `TikTokPool` | the identities, their refresher, `search_native`, its threads | A thread is a job.  The steps of `_search_with_identity` that other threads can come between are actions of their own; the two reads of the token have nothing between them that lets another thread in.  `TimesOut` leaves a running job behind without owner, as `wait_for` does.  The warm-up that a search does when the pool is empty is a job as well, one that no `wait_for` bounds. |
| `TikTokSearch` | `services/tiktok.py` over `tiktok/cache.py` | A request goes from its miss to `native`, to `tikhub`, to an answer; the native search and TikHub are any result or failure.  `put` evicts in the order of the times of the puts, also for a key that is there. |
| `SignatureGenerator` | the global generator of `gnarly.py` | An action reaches from one point at which the interpreter may switch threads to the next.  A word is known by its block and its place there, a block by the counter it was computed from and the one that was added to it. |
| `Signatures` | `get_X_Gnarly`, `get_xbogus`, and their inverses | Functions on sequences of bytes; MD5, RC4's stream and the block function of ChaCha are given, so what is checked is how the parts are put together.  Exclusive or is told by the bits of bytes, sums and checksums by recursive functions: no operator is recursive, so that all of it can be proved about. |
| `RequestSigning` | `tiktok/services/base.py` | EXTENDS and composes the two: what threads draw is the key of what they sign. |
| `YouTubeOperations` | the operations of `services/youtube.py` | From the checks over the channel of a handle or the playlist of a topic to a page, each kept in one cache under the key the code gives it.  A page is known by what YouTube was asked for and where it starts. |
| `ShortsFeed`, `ChannelTab`, `Comments`, `VideoDetail`, `VideoBatch` | the operations of the YouTube service that take several requests | One action per answer; what YouTube answers is chosen freely within the bounds.  The tasks of `Comments` and `VideoBatch` end in any order. |
| `Selections` | comprehensions and loops that select from a list: `parse_video_ids`, the unseen shorts of a result, the comments that have replies | The k-th element selected is the one of rank k, told by cardinalities, so that no recursion has to be reasoned about. |
| `YouTubeCrawlers` | these five | one call of one of them at a time: they share only what has modules of its own |
| `Lifecycle` | `lifespan`, `lifecycle.py`, the scheduler's start and stop | a stage for the process, a state for each background task |
| `Gateway` | the middlewares, the key check and the limits of the routes | `Layers` is the order in which a request sees them: the limits by the hour and the minute, which `SlowAPIMiddleware` applies to what nobody has checked yet, the checks, and the limit of the route.  None of them awaits anything, so `Arrives` takes a request to its refusal or to its operation.  `Deployments` are the settings a process may start with and the requests that may come to it. |
| `YouTubeSession` | `crawlers/youtube/client.py`: key, visitor data, `_key_lock` | `queue` is the FIFO of the asyncio lock; a waiter's turn is a step of its own, in which it looks again. |
| `DataMiner` | the process | EXTENDS and composes `Lifecycle`, `Gateway` and `YouTubeSession`: requests come while it serves, a stop waits for them, the warm-up task is one more user of the session, and is cancelled with the others. |
| `MC...` | instances for TLC | constants, small sets, symmetry |
| `ServiceCacheProofs`, `YouTubeServiceProofs`, `YouTubeCrawlersProofs`, `ProxyRetryProofs`, `TikTokThreadsProofs`, `TikTokSearchProofs`, `DataMinerProofs` | theorems | `YouTubeServiceProofs` is about `Paging` and `YouTubeOperations`, `TikTokThreadsProofs` about `TikTokPool` and `RequestSigning`. |
| `SequenceFacts` | lemmas on sequences | without duplicates: the order of a cache, the queue of a lock; put together: recursion along a sequence, and where the elements of joined and flattened ones stand, for signatures |

Operators described as *faulty variant* stand before the definition they vary.
They are plausible bugs, never used by a specification; each property is violated
when one of them takes the place of the definition behind it.

## The runs

| Run | Shows | Bounds, and why they are enough |
|---|---|---|
| `service_cache` | types; `SizeBound`, `RecentlyUsedIsKept` (LRU told without its mechanism), `FetchBesideLiveEntry` (duplicate fetches only come from overlapping misses), `AnswersAreBoundedStale` (refinement of `BoundedStaleReads`) | Two tasks race for a key; three keys for two slots evict; a ttl of 2 in three units of time lets an entry expire while a fetch is open; two versions make an answer stale.  The data of one key change (`Changing`): the promise is about each key by itself. |
| `paging` | `NothingSkipped`, `InFeedOrder`, `NoRepeatWithinCall`, `CursorAdvances`, `WalkEnds` | Every feed of up to 2+2+1 items out of three, so with empty pages and repetitions in and across pages; limits 1 and 2 by requests below, at and above the bounds; two pages per call; one failed fetch; one change of the first page.  A walk ends, so deadlock is not checked. |
| `retry` | `NoneOnlyWhenExhausted`, `RetriedWhenWorthIt`, `RetryLeavesCachedProxy`, `CallEnds` | Two calls of two attempts (the third would repeat the second), beside rotations by an admin.  Two countries share a provider; one has a direct proxy before it, the other an entry without url behind it; several direct proxies that are all used up are left to `NoneMeansExhausted`.  One failure that rotates, one that is retried without, one that is final. |
| `signatures` | `IndexInBlock`, `LoneKeyIsARun`, `GnarlyOpens`, `BogusAddsUp` | Two threads; keys of three words from blocks of two, so that a key crosses blocks; a counter that wraps after two.  A query signed at three times: at one all its varying fields take four bytes and the X-Gnarly is whole, which is what `GnarlyOpens` is about; at the others one of them takes two, which `BogusAddsUp` covers. |
| `tiktok_pool` | `SessionExclusive`, `WithinWindow`, `RequestEnds` | One request at a time suffices for two threads to meet, since the thread of a search that timed out goes on.  Jobs, warm-ups on demand included, may stay where they are for ever.  Two identities, a pool of up to two.  The window is one unit longer than an interval and two warm-ups; one unit less fails. |
| `tiktok_search` | types and the size of the cache; `SearchBesideLiveEntry`, `EmptyOnlyFromBoth`, `OldestMakeRoom`, `AnswersAreBoundedStale` (refinement of `BoundedStaleReads`, which the YouTube cache implements too) | Two searches at a time over three keys, a cache of two that evicts one, a ttl of 2 in three units of time, and two versions of one key's results. |
| `crawlers` | `NoShortTwice`, `ShortOnlyIfExhausted`, `TabResultIsEarned`, `RepliesOfTheirOwn`, `CommentsNotLost`, `VerdictIsEarned`, `BatchAnswersEveryVideo`, `SlotsWellUsed`, `CrawlsEnd` | Three shorts and two positions, a limit of 2, and `Restarts` = 4 answers that begin a new sequence; the three attempts of the code for a tab; three threads of two replies and two pages; batches of up to four entries, with blanks, repetitions and malformed ids, of which three are allowed, on two slots.  Videos only differ by name, so entries come in one order of first occurrence.  Calls end, so deadlock is not checked. |
| `operations` | `AnswersItsRequest` | Two callers; an operation or two of every kind, two of them the same search with other options; a cache that holds one lead and one result, loses either at any time, and so is always hit and missed; a handle that changes its channel and a topic that changes its playlist or has none. |
| `process` | `NothingLeftRunning`, `LimitsAreKept`, `OneScrapeForAll`, `EverythingEnds` | Two requests and the warm-up are the three users it takes to wait for one another; a ttl of 2 and a scrape of at most 1 let keys expire while others wait, and again after a scrape that failed; limits of two in an hour, one in a minute, one for a route, and two for a service once the remote configuration is loaded, so that each of them refuses first somewhere.  Settings with and without the service check and the allowlist, and two that cannot start; the callers come one kind at a time (`MCDeployments`), so that each check refuses alone and together with others, under each name a caller may be counted by.  A process that has stopped stays so: deadlock is not checked. |
| `retry_elsewhere`, `tokens_expire`, `detail_verdict` | see [below](#where-code-and-documentation-differ) | |

Clocks, versions, failures and changes are bounded by constants
named in the modules (`MaxTime`, `MaxVersion`, `MaxFailures`, `MaxChanges`); ages
stop at the bound they are compared with, which loses nothing.

## Fairness

`Paging` assumes that a caller keeps walking and that each fetch returns or
raises: the HTTP clients have timeouts.  `ProxyRetry` assumes that time passes and
that each step of a call that can be taken is taken, as the event loop does with a
coroutine that is ready; it assumes nothing of admins or new calls.  `TikTokPool`
assumes only that the event loop resumes a request whose thread has ended or whose
`wait_for` has run out.  It assumes nothing of threads: they may hang for ever,
with a lock, or wait for a place in the executor that hung ones have filled.  So
`RequestEnds` is about searches that have an identity, or whose warm-up on demand
has ended: `native.py:253` awaits that one without a timeout, and while its thread
hangs, so does the search.  `YouTubeCrawlers` assumes that every request ends, with any answer or
with the timeout of its client, and nothing of what is answered.  `DataMiner`
assumes that of scrapes and operations, and that the event loop runs what can run;
nobody has to send requests or stop the process.  All of it is weak fairness.

## The proofs

`ServiceCacheProofs`, for any tasks, keys, `max_size`, ttls:
`TypeCorrect`, `SizeBounded`, `OverlapOnly`, `LeastRecentlyUsed` and
`ImplementsPromise`.  The type invariant is not inductive by itself: that the order
lists each cached key once needs the order to be bounded by `max_size` and the key
of a fetching task to be a key.  LRU needs an invariant about every pair of keys: a
key that comes later in the order has been used since the earlier one was
(`touched`), so that the key evicted from the front has seen all the others.
The refinement needs that what a fetch has read, and what an entry holds, was
current recently enough, as two conjuncts that use `Tick`'s bound on a fetch.

`YouTubeServiceProofs`, for any feeds, limits and bounds of a walk: `TypeCorrect`,
`WalkIsLossless`, `WalkIsOrdered`, `CallsDeduplicate`, `CallsAreBounded`,
`CursorsAdvance`, `CallsReadOn`.  The invariant says where a call stands: its items lie between
the caller's cursor and the call's position, each item in front of that position is
in `delivered`, in the items of the call, or equal to one of them, and what has
been delivered lies before the cursor.  `CallsReadOn` is the part of `WalkEnds` that
is no liveness: every step of a call ends it, reads one page more of the
`MAX_PAGES_PER_CALL`, or leaves less of its page, and a cursor never points behind
the end of a page that stays as it was; so calls are finite, and the cursors, which
only advance, come to the end of the feed.

The same module, for any callers, requests, channels, playlists and room in the
cache: `AnswersTheirRequests`.  Its invariant says of every entry that it is what
its key tells: the page of the list, the place and the size in the key, or, for a
handle, a channel.  A caller who fetches has a request whose key is the one that the
page will be kept under, and a cursor is found only in requests for lists.  Then it
does not matter who has filled the cache: what is found under a key answers any
request with that key.  `WishesAssumption` is needed: an operation named like the
keys of handles and topics could be answered with what is kept for those.

`YouTubeCrawlersProofs`, for any shorts, pages, threads, videos and limits:
`ShortsAreDistinct`, `FeedsAreExhaustive`, `TabResultsAreEarned`,
`RepliesFindTheirComments`, `RepliesCostNoComments`, `VerdictsAreEarned`,
`BatchesAnswerEveryVideo`, `BatchesUseTheirSlots`, and, in no run, `CrawlersTyped`
and `AnswersRunOut`.  Lists are selected from lists here, which would take an
induction; told by ranks (`Selections`), a selection is known to keep the elements
and their order from what the library proves of cardinalities.  The invariants:

* a feed: what is found is distinct together with the batch under way, and as long as
  it is not done, the empty batches counted are the last ones;
* a tab: while requests are out, no attempt has brought the tab, and one is left;
* comments: the n-th task has fetched replies to the n-th thread only, as many as
  YouTube has sent for it;
* details: the player API is asked only when the page has not said that the video
  plays, and knows what the page has said;
* a batch: the videos that wait are its last ones, in order; each of the others
  either runs or has ended, once.  So outcomes and videos are in bijection, from
  which the totals of the answer follow by counting.

`AnswersRunOut` is the part of `CrawlsEnd` that is no liveness: what the calls under
way can still get, `AnswersLeft`, is a natural number that every step but the
beginning of a call makes smaller.  A feed still gets the searches and the steps of
the batches that are left; a tab three answers for an attempt; comments the pages
that running tasks have not asked for, at most `MaxReplyPages` for a thread; a batch
the videos that have not ended.  Fairness alone adds that the answers come.

`ProxyRetryProofs`, for any tasks, pools, ttls, numbers of attempts and errors:
`CallsTyped`, `NoneMeansExhausted`, `RetriesAreWorthIt`, `CacheIsLeft`, `CallsRunOut`
and `DirectProxiesAreSpread` (a direct proxy is given out before it has rested only
when none of its country has; proved, in no run).  The invariant says of each `get`
that awaits a provider that the entries before the one it awaits are exhausted.
What the loop finds is the first entry that is worth it; that there is a first one
needs an induction, which `FirstOf` takes from strict subsets being well-founded.
`CallsRunOut` is the part of `CallEnds` that is no liveness: `WorkLeft` of a call, the
entries its `get` has not tried, the request, the pause, and as much again for every
further attempt, is zero only when the call is over, and every step of the call and
every tick of a pause makes it smaller; other calls, rotations and expiries leave it.
It needs that shuffling adds no entries and that a `get` never goes back.

`TikTokSearchProofs`, for any searches, sizes of the cache and ttls: `SearchTypes`,
`OverlappingMissesOnly`, `NothingFoundIsEarned`, `OldestGo`,
`SearchImplementsPromise`.  The refinement needs that what is stored became
outdated at most `MaxCall` before it was stored; `OldestGo` that entries
stand in the order of the times of their puts.

`TikTokThreadsProofs`, for any identities, requests and intervals: `PoolTypes`,
`SessionsAreExclusive`, `PoolWithinWindow`, the last one provided that
`RefreshEvery + 2 * MaxWarm < Window`; that a refresh is over in `MaxWarm` presumes
that the executor has threads for it.  A session is exclusive because who searches
with it holds its lock, whether or not a request still waits for it; the pool keeps
its window because of how old it can be at each stage of its refresher.

`TikTokThreadsProofs` also has, for any threads, outputs, key lengths and counters:
`GeneratorTypes`, `IndexStaysInBlock`, `LoneKeysRun`.  Threads advance the
index without a lock; it stays in its block because nothing lets another thread in
between a thread's read of it and its update.  A thread that has been alone has
drawn consecutive words, which the invariant says of the key, the block and the
index together.

And for any messages: `GnarlyAlwaysOpens` and `BogusAlwaysAddsUp`, that what is signed
can be taken apart again.  The invariant of the first, `KeysCounted`, says how many
words a thread has at each step of a draw; without it nothing is known of the length
of a finished key, and so of where the key ends.  The rest is about data:

* what is encrypted twice with the same key is what it was, since a byte is the sum
  of its bits (`BitsOfByte`, `XorTwice`, `EncryptedTwice`);
* the key is found because the place where it is put depends on the sum of all the
  bytes, which is the same wherever it is put (`SumOfTwo`, `KeyIsFound`);
* four digits give three bytes back, and no byte is left over: the lengths of the
  thirteen fields add up to a multiple of three with the key and the marker when
  all the fields that may be short are, or none (`EncodingOpens`, `WholeFits`);
* the checksum of an X-Bogus is combined from the very bytes that are sent with it,
  in another order of brackets (`ChecksumCancels`), and filtering and scrambling
  put each byte of the salt back where it stood (`Places`).

Sums and checksums recur along a sequence.  That their recursive functions exist, and
what they compute, is proved by hand from the well-founded order of the natural
numbers (`LeastNatural`, `CountUp`, `RecursionExists`): the steps of a recursion are
given as a sequence of functions, so that no induction theorem with an operator as
parameter is needed.

Three assumptions of `RequestSigning` are used.  `HashAssumption`: a hash leaves two when
its characters are taken by threes, as the 32 of MD5 do; `TimeAssumption`: the seconds
take four bytes; `CipherAssumption`: the words of a key, its stream and RC4's are bytes,
and a key is a multiple of three words, as 12 is.  A key that is not would move the end of
every X-Gnarly, and encoding would cut off those that `GnarlyOpens` is about.

`DataMinerProofs`, for any requests, deployments, limits and ttls:
`LimitsHold`, `OneScrapesAtATime`, `NoScrapeInVain`, `NothingIsLeft`.  A limit is not
safe by itself when limits change, so the invariant adds that they only change
before anything is counted.  It also says that no quota has been counted more
often than its limit, nor answered more often than counted: an admitted request is
counted by every limit there is for it (`CountedAreAdmitted`).  For the limit of a
route the two are equal, since it is the innermost layer: what it lets pass is
admitted.  For one scrape at a time it is
enough that the user that scrapes is the holder of the lock.  That nothing is left
needs the queue, too: who holds the lock or waits for it is a task that has not
ended or a request that has no answer, and nobody waits twice, so that who leaves
the queue is no longer in it.

Assumed are only the named assumptions on the constants, which TLC evaluates in
every run, and the ones a theorem states itself.  Every safety property of the runs is
proved.  Only model-checked is liveness: `WalkEnds`, `CallEnds`, `RequestEnds`,
`CrawlsEnd`, `EverythingEnds`; the parts of it that are no liveness are proved for
walks, calls and crawlers (`CallsReadOn`, `CallsRunOut`, `AnswersRunOut`).

## Where code and documentation differ

Each is a run that TLC ends with a counterexample.

* `retry_elsewhere`: a retry after a proxy failure can go through the same direct
  proxy: a rotation does not touch direct pools.  `retry.py:38` says it "actually
  goes through a different one".
* `tokens_expire`: a token that is reused is stamped anew, so that it can be used
  long after `MSTOKEN_TTL`; `native.py:45` calls the stamp "when it was minted".
* `detail_verdict`: an answer of the player API without a status takes the place of
  a watch page that said UNPLAYABLE, and the caller gets `CrawlNetworkError`
  (`detail.py:121`).  The docstring (`detail.py:113`) keeps that error for "when
  neither source returned a player response at all", and promises
  `YouTubeNotFoundError` "when YouTube reports the video unplayable".
  `VerdictIsEarned` says what does hold.

Seen while modelling and not run: `POST /proxy/rotate?country=VN` keeps the cached
proxies of pools with a default key, since `rotate` looks for keys beginning with
`VN:` and default keys are like `vn_us` (`config/proxy.py:128`, `:209`), while
`README.md:79` says the manager "rotates on demand"; `README.md:79` says it pins one
proxy for a window, while `get_random` prefers those that were not used in their
window; `README.md:70` promises a rotation for 5xx and transport errors, which
`_needs_new_proxy` excludes for 5xx and timeouts; the last attempt of a call raises
before it rotates, so the proxy that failed it stays cached; `native.py:118` says
each identity is warmed "through its own sticky proxy", but the registry answers
consecutive requests with the cached one.

Also `README.md:29` draws the middleware as CORS, rate limit, logging, IP allowlist;
the code puts CORS innermost, logging before the limits, and the limits of the routes
behind the key check.  `SECURITY.md:208-214` checks the allowlist first, then the
service token, and limits last; `main.py:84-87` checks the token before the allowlist
and applies the default limits before both, so that refused requests use them up.
`README.md:172` says those limits are "keyed by API-key prefix"; `get_identifier`
prefers the service name, and neither has been checked by then.
`rate_limit_config.py` says that remote updates "take effect
without a restart", but `load_and_apply` runs in `lifespan` only.

## Hazards without a property

`PROJECT.json` lists the hazards that matter most.  Some of them have no property, with the
reason beside them: a first page that changes under a cursor (`paging.py:60`), a
provider's answer stored after the failure of its proxy (`config/proxy.py:264`), the
short fields of a signature (`gnarly.py:398`), `rotate(country)`, and the pool of
HTTP clients.  Others met on the way, none of which breaks a promise of the
repository:

* two API pools with the same countries and no key share one cache slot
  (`config/proxy.py:128`); concurrent fetches from one provider are not joined (`:242`);
* a thread that searches while its identity's token is dropped stores the token
  again (`native.py:220`); two searches can advance the cycle so that the retry of
  one gets its own identity back (`:271`); threads that wait for a lock fill the
  default executor (`:258`); a refresh that raises at the start leaves the process
  without refresher (`:145`, `RefreshRaises`); a warm-up on demand has no timeout (`:253`);
* an HTTP error at the first step of a batch of shorts loses those found before
  (`shorts.py:192`, `StepFails`); a watch page that cannot be requested is not
  followed by the player API (`detail.py:45`);
* a topic's cursor survives a change of the featured playlist
  (`services/youtube.py:237`); `format_search` runs outside the `try` that falls
  back (`services/tiktok.py:47`).

## Not modelled

Parsers, models, schemas, i18n and logging are pure functions of strings, which
tests cover and TLC would only transliterate.  Of the signatures, MD5, RC4 and the
block function of ChaCha are given functions; the parameters and headers of
TikTok's web services and the parsing of what they answer are left out.  Of the
registry, `load` is taken as the constants and the parsing of provider answers as "a
proxy or a failure".  `trending_native`, `tavily` and TikHub's other operations are
one stateless request each.  Of the gateway, status codes are left out, and
an SSE session of MCP is one request: its messages go to a route the limiter does
not know, and are not counted.  Of the YouTube client, the pool of HTTP clients and
the client version are left out.  An operation of `DataMiner` is a single request, and a page of
`YouTubeOperations` a single answer: pages, retries and proxies have their own
modules.

## Plan

1. Done: the modules above, and proofs of every safety property that the runs check.
2. `TikTokPool` with `ProxyRegistry`: which proxy an identity gets; a property about
   dropped tokens that come back.
3. `VideoBatch` and `Comments` over `ProxyRetry`: failures of one request inside
   operations that run at once.
4. What `AnswersRunOut`, `CallsRunOut` and `CallsReadOn` say of crawlers, calls and
   walks, for the requests of `DataMiner`.
