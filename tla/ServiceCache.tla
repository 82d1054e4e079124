---------------------------- MODULE ServiceCache ----------------------------
(* app/services/cache.py: TTLCache and get_or_fetch, the cache every service   *)
(* operation of app/services/youtube.py goes through, as asyncio tasks of one  *)
(* process use it.  get and put contain no await, so each is atomic; the await *)
(* of fetch() is where other tasks run, and nothing makes two tasks that miss  *)
(* the same key share one fetch.                                               *)
EXTENDS Integers, FiniteSets, SequencesExt

CONSTANTS Tasks,      \* the tasks that call get_or_fetch
          Keys,       \* the cache keys
          NoKey,      \* key of a task that has asked for nothing yet
          MaxSize,    \* max_size
          Ttl,        \* Ttl[k]: the ttl that k's operation passes
          MaxFetch,   \* the longest a fetch stays open (client timeouts, retries)
          Changing,   \* the keys whose data upstream may change
          MaxTime,    \* bound on the clock
          MaxVersion  \* bound on what upstream publishes for a key

ASSUME ConstantsAssumption ==
    /\ IsFiniteSet(Keys)
    /\ NoKey \notin Keys
    /\ MaxSize \in Nat \ {0}
    /\ Ttl \in [Keys -> Nat \ {0}]
    /\ MaxFetch \in Nat
    /\ Changing \subseteq Keys
    /\ MaxTime \in Nat
    /\ MaxVersion \in Nat

VARIABLES now,       \* time.monotonic()
          since,     \* upstream: since[k][v] is when version v of k appeared
          store,     \* _store: key -> [expires, value]
          order,     \* the order of the OrderedDict, least recently used first
          pc,        \* "idle", "fetching", "answered" or "failed"
          key,       \* the key of a task's request
          start,     \* when a task's fetch began, 0 while it has none
          got,       \* the version a task was handed, 0 before
          promised,  \* history: when the last put of a key expires, 0 if cleared
          touched    \* history: the keys used since a key was last used

cacheVars == <<store, order>>
taskVars  == <<pc, key, start, got>>
history   == <<promised, touched>>
vars == <<now, since, store, order, pc, key, start, got, promised, touched>>

-----------------------------------------------------------------------------
(* The OrderedDict.                                                            *)

Entry == [expires : Nat, value : Nat]

Position(k) == CHOOSE i \in DOMAIN order : order[i] = k

\* del self._store[k]; faulty variant: the order keeps the deleted key.
Without(k) == [j \in (DOMAIN store) \ {k} |-> store[j]]
OrderNotUpdated(k) == order
OrderWithout(k) == IF k \in DOMAIN store THEN RemoveAt(order, Position(k)) ELSE order

\* move_to_end(k), also of a key that has just been inserted; faulty variant: a
\* key keeps the place it was inserted at (FIFO).
KeepPlace(k) == IF k \in DOMAIN store THEN order ELSE Append(order, k)
MoveToEnd(k) == Append(OrderWithout(k), k)

\* popitem(last=False) while there are more than max_size entries; faulty
\* variant: off by one.
EvictedLate(o) == IF Len(o) > MaxSize + 1 THEN SubSeq(o, Len(o) - MaxSize, Len(o)) ELSE o
Evicted(o) == IF Len(o) > MaxSize THEN SubSeq(o, Len(o) - MaxSize + 1, Len(o)) ELSE o

\* time.monotonic() >= expires_at; faulty variant: one tick too late.
ExpiredLate(k) == now > store[k].expires
Expired(k) == now >= store[k].expires
Cached(k) == k \in DOMAIN store /\ ~Expired(k)

\* What put stores for the result of t's fetch; faulty variant: the ttl counted
\* from the beginning of the fetch.
EntryFromStart(t) == [expires |-> start[t] + Ttl[key[t]], value |-> got[t]]
NewEntry(t) == [expires |-> now + Ttl[key[t]], value |-> got[t]]

\* Using k: it has been used last, and every other key has seen one more key.
Touch(k) ==
    touched' = [j \in Keys |-> IF j = k THEN {} ELSE touched[j] \cup {k}]

-----------------------------------------------------------------------------
Init ==
    /\ now = 0
    /\ since = [k \in Keys |-> <<0>>]
    /\ store = [k \in {} |-> [expires |-> 0, value |-> 0]]
    /\ order = <<>>
    /\ pc = [t \in Tasks |-> "idle"]
    /\ key = [t \in Tasks |-> NoKey]
    /\ start = [t \in Tasks |-> 0]
    /\ got = [t \in Tasks |-> 0]
    /\ promised = [k \in Keys |-> 0]
    /\ touched = [k \in Keys |-> {}]

\* get finds a live entry: the caller has its answer without awaiting anything.
Hit(t, k) ==
    /\ pc[t] # "fetching"
    /\ Cached(k)
    /\ order' = MoveToEnd(k)
    /\ pc' = [pc EXCEPT ![t] = "answered"]
    /\ key' = [key EXCEPT ![t] = k]
    /\ got' = [got EXCEPT ![t] = store[k].value]
    /\ Touch(k)
    /\ UNCHANGED <<now, since, store, start, promised>>

\* get finds nothing, or an expired entry, which it deletes; the fetch begins.
Miss(t, k) ==
    /\ pc[t] # "fetching"
    /\ ~Cached(k)
    /\ store' = Without(k)
    /\ order' = OrderWithout(k)
    /\ pc' = [pc EXCEPT ![t] = "fetching"]
    /\ key' = [key EXCEPT ![t] = k]
    /\ start' = [start EXCEPT ![t] = now]
    /\ got' = [got EXCEPT ![t] = 0]
    /\ UNCHANGED <<now, since, promised, touched>>

\* Upstream reads the data it will answer a fetch with.
UpstreamReads(t) ==
    /\ pc[t] = "fetching"
    /\ got[t] = 0
    /\ got' = [got EXCEPT ![t] = Len(since[key[t]])]
    /\ UNCHANGED <<now, since, store, order, pc, key, start, promised, touched>>

\* The fetch returns and put stores its result, whatever the cache holds by now.
FetchReturns(t) ==
    LET k == key[t]
        o == Evicted(MoveToEnd(k))
    IN  /\ pc[t] = "fetching"
        /\ got[t] # 0
        /\ store' = [j \in ToSet(o) |->
                        IF j = k THEN NewEntry(t) ELSE store[j]]
        /\ order' = o
        /\ pc' = [pc EXCEPT ![t] = "answered"]
        /\ start' = [start EXCEPT ![t] = 0]
        /\ promised' = [promised EXCEPT ![k] = NewEntry(t).expires]
        /\ Touch(k)
        /\ UNCHANGED <<now, since, key, got>>

\* The fetch raises: the exception leaves get_or_fetch before put.
FetchFails(t) ==
    /\ pc[t] = "fetching"
    /\ pc' = [pc EXCEPT ![t] = "failed"]
    /\ start' = [start EXCEPT ![t] = 0]
    /\ got' = [got EXCEPT ![t] = 0]
    /\ UNCHANGED <<now, since, store, order, key, promised, touched>>

Clear ==
    /\ order # <<>>
    /\ store' = [k \in {} |-> [expires |-> 0, value |-> 0]]
    /\ order' = <<>>
    /\ promised' = [k \in Keys |-> 0]
    /\ UNCHANGED <<now, since, touched, taskVars>>

\* Upstream's data changes.
Publish(k) ==
    /\ k \in Changing
    /\ Len(since[k]) < MaxVersion
    /\ since' = [since EXCEPT ![k] = Append(@, now)]
    /\ UNCHANGED <<now, cacheVars, taskVars, history>>

\* Time passes, but no fetch outlives its timeouts.
Tick ==
    /\ now < MaxTime
    /\ \A t \in Tasks : pc[t] = "fetching" => now < start[t] + MaxFetch
    /\ now' = now + 1
    /\ UNCHANGED <<since, cacheVars, taskVars, history>>

Next ==
    \/ \E t \in Tasks, k \in Keys : Hit(t, k) \/ Miss(t, k)
    \/ \E t \in Tasks : UpstreamReads(t) \/ FetchReturns(t) \/ FetchFails(t)
    \/ \E k \in Keys : Publish(k)
    \/ Clear
    \/ Tick

Spec == Init /\ [][Next]_vars

-----------------------------------------------------------------------------
(* Properties.                                                                 *)

\* Every variable has its type; order lists the keys of store, each once.
TypeOK ==
    /\ now \in Nat
    /\ since \in [Keys -> Seq(Nat)]
    /\ DOMAIN store \subseteq Keys
    /\ store \in [DOMAIN store -> Entry]
    /\ order \in Seq(Keys)
    /\ pc \in [Tasks -> {"idle", "fetching", "answered", "failed"}]
    /\ key \in [Tasks -> Keys \cup {NoKey}]
    /\ start \in [Tasks -> Nat]
    /\ got \in [Tasks -> Nat]
    /\ promised \in [Keys -> Nat]
    /\ touched \in [Keys -> SUBSET Keys]
    /\ ToSet(order) = DOMAIN store
    /\ \A i, j \in DOMAIN order : order[i] = order[j] => i = j

\* The cache never holds more than max_size entries, expired ones included,
\* however hits, expiries and puts of concurrent tasks interleave.
SizeBound == Cardinality(DOMAIN store) <= MaxSize

\* LRU, said without its mechanism: a result that was put, has not expired and
\* was not cleared is still cached unless max_size other keys have been used
\* since its last use.
RecentlyUsedIsKept ==
    \A k \in Keys :
        promised[k] > now /\ Cardinality(touched[k]) < MaxSize
            => k \in DOMAIN store /\ now < store[k].expires

\* A task only fetches a key that is cached if its fetch was under way before
\* the entry was put: duplicate fetches, and the overwriting of a newer value
\* by a slow one, come from overlapping misses and from nothing else.
FetchBesideLiveEntry ==
    \A t \in Tasks :
        (/\ pc[t] = "fetching"
         /\ key[t] \in DOMAIN store
         /\ now < store[key[t]].expires)
            => start[t] + Ttl[key[t]] <= store[key[t]].expires

\* Every answer is a version of the right key which upstream published and
\* which was current less than ttl plus the longest fetch before the answer.
Promise == INSTANCE BoundedStaleReads WITH
    Window <- [k \in Keys |-> Ttl[k] + MaxFetch],
    answer <- [t \in Tasks |-> IF pc[t] = "answered" THEN got[t] ELSE 0]

AnswersAreBoundedStale == Promise!Spec
=============================================================================
