---------------------------- MODULE TikTokSearch ----------------------------
(* app/services/tiktok.py: search_videos, the way of every TikTok search:      *)
(* app/crawlers/tiktok/cache.py, then the native search of TikTokPool, then    *)
(* app/crawlers/tiktok/tikhub.py.  get and put of the cache run under a lock   *)
(* and without an await; requests for one key that find nothing all go on.     *)
(* A key stands for (keyword, count, cursor, region, sort_by).                 *)
EXTENDS Integers, FiniteSets, SequencesExt

CONSTANTS Requests,   \* the callers of search_videos
          Keys,       \* the cache keys
          NoKey,      \* key of a caller that has asked for nothing yet
          MaxSize,    \* TIKTOK_CACHE_MAX_SIZE
          Evict,      \* how many entries a put into a full cache removes
          Ttl,        \* TIKTOK_CACHE_TTL
          MaxCall,    \* the longest a search stays open: timeouts of both sources
          Changing,   \* the keys whose results may change
          MaxTime,    \* bound on the clock
          MaxVersion  \* bound on the changes of a key's results

ASSUME ConstantsAssumption ==
    /\ IsFiniteSet(Keys) /\ NoKey \notin Keys
    /\ MaxSize \in Nat /\ Evict \in 1 .. MaxSize
    /\ Ttl \in Nat \ {0} /\ MaxCall \in Nat
    /\ Changing \subseteq Keys
    /\ MaxTime \in Nat /\ MaxVersion \in Nat

VARIABLES now,    \* time.time()
          since,  \* TikTok: since[k][v] is when version v of k's results appeared
          store,  \* _store: key -> [at, value]; value 0 would be a result without videos
          order,  \* the keys of _store by the time they were stored
          pc,     \* "idle", "native", "tikhub", "answered" or "failed"
          key,    \* the key of a request
          start,  \* when a request missed the cache
          got,    \* the version a request was handed, 0 for none
          asked,  \* history: the sources a request has asked
          newer   \* history: the keys stored since a key was last stored

requestVars == <<pc, key, start, got, asked>>
vars == <<now, since, store, order, newer, requestVars>>

-----------------------------------------------------------------------------
Busy(r) == pc[r] \in {"native", "tikhub"}

\* time.time() - entry[0] < TIKTOK_CACHE_TTL; faulty variant: one tick too long.
LiveTooLong(k) == k \in DOMAIN store /\ now - store[k].at <= Ttl
Live(k) == k \in DOMAIN store /\ now - store[k].at < Ttl

\* The entry of a put; faulty variant: dated from the miss that led to it.
EntryFromMiss(r) == [at |-> start[r], value |-> got[r]]
NewEntry(r) == [at |-> now, value |-> got[r]]

\* sorted(_store, key=...)[:50] goes when the cache is full, also to make room for
\* a key that is there; faulty variants: one put too late, and the newest instead.
FullLate == Len(order) > MaxSize
Full == Len(order) >= MaxSize
WithoutNewest == SubSeq(order, 1, Len(order) - Evict)
WithoutOldest == SubSeq(order, Evict + 1, Len(order))
Room == IF Full THEN WithoutOldest ELSE order

\* del _store[k], or its end of the order when k is stored again.
Position(s, k) == CHOOSE i \in DOMAIN s : s[i] = k
Without(s, k) == IF k \in ToSet(s) THEN RemoveAt(s, Position(s, k)) ELSE s

\* search_cache.put(cache_key, result)
Put(r) ==
    LET k == key[r]
        o == Append(Without(Room, k), k)
    IN  /\ order' = o
        /\ store' = [j \in ToSet(o) |-> IF j = k THEN NewEntry(r) ELSE store[j]]
        /\ newer' = [j \in Keys |-> IF j = k THEN {} ELSE newer[j] \cup {k}]

\* if result.get("videos"); faulty variant: whatever came back is stored.
StoresAnything(r) == TRUE
Stores(r) == got[r] # 0

-----------------------------------------------------------------------------
Init ==
    /\ now = 0
    /\ since = [k \in Keys |-> <<0>>]
    /\ store = [k \in {} |-> [at |-> 0, value |-> 0]]
    /\ order = <<>>
    /\ newer = [k \in Keys |-> {}]
    /\ pc = [r \in Requests |-> "idle"]
    /\ key = [r \in Requests |-> NoKey]
    /\ start = [r \in Requests |-> 0]
    /\ got = [r \in Requests |-> 0]
    /\ asked = [r \in Requests |-> {}]

\* search_cache.get finds a live entry.
Hit(r, k) ==
    /\ ~Busy(r) /\ Live(k)
    /\ pc' = [pc EXCEPT ![r] = "answered"]
    /\ key' = [key EXCEPT ![r] = k]
    /\ got' = [got EXCEPT ![r] = store[k].value]
    /\ asked' = [asked EXCEPT ![r] = {}]
    /\ UNCHANGED <<now, since, store, order, newer, start>>

\* It finds none, or one that has expired and goes; search_native is called.
Miss(r, k) ==
    /\ ~Busy(r) /\ ~Live(k)
    /\ store' = [j \in (DOMAIN store) \ {k} |-> store[j]]
    /\ order' = Without(order, k)
    /\ pc' = [pc EXCEPT ![r] = "native"]
    /\ key' = [key EXCEPT ![r] = k]
    /\ start' = [start EXCEPT ![r] = now]
    /\ got' = [got EXCEPT ![r] = 0]
    /\ asked' = [asked EXCEPT ![r] = {"native"}]
    /\ UNCHANGED <<now, since, newer>>

\* The source that is asked reads what it will answer with.
SourceReads(r) ==
    /\ Busy(r) /\ got[r] = 0
    /\ got' = [got EXCEPT ![r] = Len(since[key[r]])]
    /\ UNCHANGED <<now, since, store, order, newer, pc, key, start, asked>>

Ends(r, how) ==
    /\ pc' = [pc EXCEPT ![r] = how]
    /\ UNCHANGED <<now, since, key, start, asked>>

\* The source answers, with videos or, if it has read nothing, without.
Answers(r) ==
    /\ Ends(r, "answered")
    /\ IF Stores(r) THEN Put(r) ELSE UNCHANGED <<store, order, newer>>
    /\ UNCHANGED got

NativeFinds(r) == pc[r] = "native" /\ got[r] # 0 /\ Answers(r)

\* No videos, NativeSearchError, a timeout or any other exception.
NativeFails(r) ==
    /\ pc[r] = "native"
    /\ pc' = [pc EXCEPT ![r] = "tikhub"]
    /\ got' = [got EXCEPT ![r] = 0]
    /\ asked' = [asked EXCEPT ![r] = @ \cup {"tikhub"}]
    /\ UNCHANGED <<now, since, store, order, newer, key, start>>

\* format_search of the answer of TikHub, with or without videos.
TikHubAnswers(r) == pc[r] = "tikhub" /\ Answers(r)

\* TikHubError for whatever goes wrong in the request; an answer of another shape
\* than expected raises in format_search, which nothing catches.
TikHubFails(r) ==
    /\ pc[r] = "tikhub"
    /\ Ends(r, "failed")
    /\ got' = [got EXCEPT ![r] = 0]
    /\ UNCHANGED <<store, order, newer>>

\* The results for a key change.
Publish(k) ==
    /\ k \in Changing /\ Len(since[k]) < MaxVersion
    /\ since' = [since EXCEPT ![k] = Append(@, now)]
    /\ UNCHANGED <<now, store, order, newer, requestVars>>

\* Time passes, but no search outlives its timeouts.
Tick ==
    /\ now < MaxTime
    /\ \A r \in Requests : Busy(r) => now < start[r] + MaxCall
    /\ now' = now + 1
    /\ UNCHANGED <<since, store, order, newer, requestVars>>

Step(r) == NativeFinds(r) \/ NativeFails(r) \/ TikHubAnswers(r) \/ TikHubFails(r)

Next ==
    \/ \E r \in Requests : Step(r) \/ SourceReads(r) \/ \E k \in Keys : Hit(r, k) \/ Miss(r, k)
    \/ \E k \in Keys : Publish(k)
    \/ Tick

Spec == Init /\ [][Next]_vars

-----------------------------------------------------------------------------
(* Properties.                                                                 *)

\* Every variable has its type; order lists the keys of store, each once, and there
\* are never more of them than TIKTOK_CACHE_MAX_SIZE.
TypeOK ==
    /\ now \in Nat
    /\ since \in [Keys -> Seq(Nat)]
    /\ DOMAIN store \subseteq Keys
    /\ store \in [DOMAIN store -> [at : Nat, value : Nat]]
    /\ order \in Seq(Keys)
    /\ pc \in [Requests -> {"idle", "native", "tikhub", "answered", "failed"}]
    /\ key \in [Requests -> Keys \cup {NoKey}]
    /\ start \in [Requests -> Nat]
    /\ got \in [Requests -> Nat]
    /\ asked \in [Requests -> SUBSET {"native", "tikhub"}]
    /\ newer \in [Keys -> SUBSET Keys]
    /\ ToSet(order) = DOMAIN store
    /\ \A i, j \in DOMAIN order : order[i] = order[j] => i = j
    /\ Cardinality(DOMAIN store) <= MaxSize

\* A put into a full cache takes old results only: a result lost before its time
\* had been stored before each of those that stay, and MaxSize - Evict stay.
OldestMakeRoom ==
    [][ \A k \in DOMAIN store :
            Live(k) /\ k \notin DOMAIN store' =>
                /\ DOMAIN store' \subseteq newer'[k]
                /\ Cardinality(DOMAIN store') >= MaxSize - Evict ]_vars

\* Two searches for one key at a time come from overlapping misses only: a search
\* that asks native or pays TikHub beside a live result began before that result
\* was stored.
SearchBesideLiveEntry ==
    \A r \in Requests : Busy(r) /\ Live(key[r]) => start[r] <= store[key[r]].at

\* A search that ends without videos has asked both sources itself: neither an
\* empty answer nor a failure of an earlier search is ever served again.
EmptyOnlyFromBoth ==
    \A r \in Requests :
        pc[r] \in {"answered", "failed"} /\ got[r] = 0 => asked[r] = {"native", "tikhub"}

\* Every answer with videos shows results that were current less than the ttl
\* plus the longest search ago.
Promise == INSTANCE BoundedStaleReads WITH
    Tasks <- Requests,
    Window <- [k \in Keys |-> Ttl + MaxCall],
    pc <- [r \in Requests |->
              IF Busy(r) THEN "fetching"
              ELSE IF pc[r] = "answered" /\ got[r] = 0 THEN "failed" ELSE pc[r]],
    answer <- [r \in Requests |-> IF pc[r] = "answered" THEN got[r] ELSE 0]

AnswersAreBoundedStale == Promise!Spec
=============================================================================
