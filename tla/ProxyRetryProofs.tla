-------------------------- MODULE ProxyRetryProofs --------------------------
(* Proofs about calls and the proxies they take, for any tasks, pools, providers, *)
(* keys, failures, attempts and lifetimes: when there is no proxy to hand out,    *)
(* which failures are retried, through what, and that a call runs out of work.    *)
EXTENDS ProxyRetry, FiniteSetTheorems, SequenceTheorems, WellFoundedInduction, TLAPS

\* Every entry of the country is yet to be tried, has been asked by this very get(),
\* or could not have handed out anything.
AllTried(c, entries, refused) ==
    \A e \in EntriesOf(c) :
        \/ \E i \in DOMAIN entries : entries[i] = e
        \/ e \in refused
        \/ e \in Unreachable
        \/ e \notin Api /\ Direct[c] = {}

Exhausted(c, refused) ==
    /\ EntriesOf(c) \subseteq Api \/ Direct[c] = {}
    /\ (EntriesOf(c) \cap Api) \ Unreachable \subseteq refused

MetaTyped ==
    /\ DOMAIN meta = Countries
    /\ \A c \in Countries :
          /\ DOMAIN meta[c] \subseteq Direct[c]
          /\ \A p \in DOMAIN meta[c] : meta[c][p] \in 0 .. DirectTtl

CacheTyped ==
    /\ DOMAIN apiCache \subseteq Keys
    /\ \A k \in DOMAIN apiCache : apiCache[k] \in [proxy : Supplied, age : 0 .. ApiTtl]

\* A get() that awaits a provider has left no entry out.
GetsInv ==
    /\ gets \in [Tasks -> GetRecord]
    /\ \A t \in Tasks : Asking(t) =>
          /\ gets[t].country \in Countries /\ Head(gets[t].rest) \in Api
          /\ AllTried(gets[t].country, gets[t].rest, gets[t].refused)

HandedInv == handed \in [Tasks -> HandedRecord] /\ NoneOnlyWhenExhausted

RegistryInv == MetaTyped /\ CacheTyped /\ GetsInv /\ HandedInv

\* A call that pauses has an attempt left.
CallTyped ==
    /\ pc \in [Tasks -> {"idle", "get", "fetch", "sleep"}]
    /\ country \in [Tasks -> Countries]
    /\ attempt \in [Tasks -> 1 .. Attempts]
    /\ wait \in [Tasks -> 0 .. Attempts]
    /\ outcome \in [Tasks -> [error : Errors \cup {"none"}, attempts : 0 .. Attempts]]
    /\ failed \in [Tasks -> SUBSET [proxy : Proxies \cup {NoProxy}, error : Errors]]
    /\ \A t \in Tasks : pc[t] = "get" <=> Asking(t)
    /\ \A t \in Tasks : pc[t] = "sleep" => attempt[t] < Attempts

\* The failures a call retries elsewhere have left no trace in the cache.
LeavesInv ==
    \A t \in Tasks : \A f \in failed[t] : f.error \in ProxyErrors =>
        /\ pc[t] # "idle" => \A k \in DOMAIN apiCache : apiCache[k].proxy # f.proxy
        /\ pc[t] = "fetch" /\ handed[t].from = "cache" => f.proxy # handed[t].proxy

-----------------------------------------------------------------------------
(* Lemmas about what get() tries.                                              *)

\* A nonempty set of positions has a first one: the initial segments that end in the
\* set are ordered by inclusion, which is well-founded.
LEMMA FirstOf ==
    ASSUME NEW n \in Nat, NEW T \in SUBSET (1 .. n), T # {}
    PROVE  \E i \in T : \A j \in T : i <= j
<1> DEFINE starts == {1 .. i : i \in T}
<1>1. starts \subseteq FiniteSubsetsOf(1 .. n) /\ starts # {}
  <2>1. \A i \in T : (1 .. i) \subseteq 1 .. n /\ IsFiniteSet(1 .. i)
    BY FS_Interval
  <2>2. QED  BY <2>1 DEF FiniteSubsetsOf
<1>2. PICK s \in starts : \A u \in starts : <<u, s>> \notin StrictSubsetOrdering(1 .. n)
  BY <1>1, FS_StrictSubsetOrderingWellFounded, WFMin
<1>3. PICK i \in T : s = 1 .. i
  OBVIOUS
<1>4. ASSUME NEW j \in T, j < i
      PROVE  FALSE
  <2>1. (1 .. j) \subseteq 1 .. i /\ 1 .. j # 1 .. i
    <3>1. i \in 1 .. i /\ i \notin 1 .. j
      BY <1>4
    <3>2. QED  BY <1>4, <3>1
  <2>2. <<1 .. j, 1 .. i>> \in StrictSubsetOrdering(1 .. n)
    BY <2>1 DEF StrictSubsetOrdering
  <2>3. QED  BY <1>2, <1>3, <2>2
<1>5. QED  BY <1>4

\* What is left begins with the first entry that is not passed over, and loses none
\* that is not.
LEMMA FromNextKeeps ==
    ASSUME NEW c, NEW entries \in Seq(Entries)
    PROVE  LET rest == FromNext(c, entries)
           IN  /\ rest \in Seq(Entries) /\ Len(rest) <= Len(entries)
               /\ rest # <<>> => ~Skipped(c, Head(rest)) /\ Head(rest) \in Entries
               /\ \A i \in DOMAIN entries :
                     Skipped(c, entries[i]) \/ \E j \in DOMAIN rest : rest[j] = entries[i]
<1> DEFINE rest == FromNext(c, entries)
           tried == {i \in DOMAIN entries : ~Skipped(c, entries[i])}
           first == CHOOSE i \in tried : \A j \in tried : i <= j
<1>1. DOMAIN entries = 1 .. Len(entries) /\ Len(entries) \in Nat
      /\ \A i \in 1 .. Len(entries) : entries[i] \in Entries
  OBVIOUS
<1>2. CASE tried = {}
  <2>1. rest = <<>>
    BY <1>2 DEF FromNext
  <2>2. \A i \in DOMAIN entries : Skipped(c, entries[i])
    BY <1>2
  <2>3. QED  BY <2>1, <2>2
<1>3. CASE tried # {}
  <2>1. first \in tried /\ \A j \in tried : first <= j
    <3>1. \E i \in tried : \A j \in tried : i <= j
      BY <1>1, <1>3, FirstOf
    <3>2. QED  BY <3>1
  <2>2. first \in 1 .. Len(entries) /\ ~Skipped(c, entries[first])
    BY <1>1, <2>1
  <2>3. rest = SubSeq(entries, first, Len(entries))
    BY <1>3 DEF FromNext
  <2> HIDE DEF first, rest
  <2>4. /\ rest \in Seq(Entries) /\ Len(rest) = Len(entries) - first + 1
        /\ \A j \in 1 .. Len(rest) : rest[j] = entries[first + j - 1]
    BY <1>1, <2>2, <2>3
  <2>5. Head(rest) = entries[first] /\ Head(rest) \in Entries
    BY <1>1, <2>2, <2>4
  <2>6. ASSUME NEW i \in DOMAIN entries, ~Skipped(c, entries[i])
        PROVE  \E j \in DOMAIN rest : rest[j] = entries[i]
    <3>1. i \in 1 .. Len(entries) /\ first <= i
      BY <1>1, <2>1, <2>6
    <3>2. DOMAIN rest = 1 .. Len(rest)
      BY <2>4
    <3>3. i - first + 1 \in 1 .. Len(rest) /\ first + (i - first + 1) - 1 = i
      BY <1>1, <2>2, <2>4, <3>1
    <3>4. rest[i - first + 1] = entries[i]
      BY <2>4, <3>3
    <3>5. QED  BY <3>2, <3>3, <3>4
  <2>7. Len(rest) <= Len(entries)
    BY <1>1, <2>2, <2>4
  <2>8. QED  BY <2>2, <2>4, <2>5, <2>6, <2>7 DEF rest
<1>4. QED  BY <1>2, <1>3

\* Shuffling leaves every entry of the country to be tried, and adds none.
LEMMA ShuffleKeeps ==
    ASSUME NEW c \in Countries, NEW entries \in Shuffles[c], NEW refused
    PROVE  /\ entries \in Seq(Entries) /\ Len(entries) = Len(Pools[c])
           /\ AllTried(c, entries, refused)
<1>1. Pools[c] \in Seq(Entries)
  BY ConstantsAssumption DEF ConstantsAssumption
<1>2. PICK f \in Bijection(DOMAIN Pools[c], DOMAIN Pools[c]) :
        entries = [i \in DOMAIN Pools[c] |-> Pools[c][f[i]]]
  BY DEF Shuffles
<1>3. f \in [DOMAIN Pools[c] -> DOMAIN Pools[c]]
      /\ \A w \in DOMAIN Pools[c] : \E v \in DOMAIN Pools[c] : f[v] = w
  BY DEF Bijection, Injection, Surjection
<1>4. DOMAIN Pools[c] = 1 .. Len(Pools[c]) /\ Len(Pools[c]) \in Nat
      /\ \A i \in DOMAIN Pools[c] : Pools[c][i] \in Entries
  BY <1>1
<1>5. entries \in Seq(Entries) /\ Len(entries) = Len(Pools[c])
  <2>1. entries \in [1 .. Len(Pools[c]) -> Entries]
    BY <1>2, <1>3, <1>4
  <2>2. QED  BY <1>4, <2>1, SeqDef
<1>6. \A e \in EntriesOf(c) : \E i \in DOMAIN entries : entries[i] = e
  BY <1>2, <1>3 DEF EntriesOf
<1>7. QED  BY <1>5, <1>6 DEF AllTried

\* With nothing left to try, the country is exhausted.
LEMMA TriedIsExhausted ==
    ASSUME NEW c \in Countries, NEW refused \in SUBSET Api, AllTried(c, <<>>, refused)
    PROVE  Exhausted(c, refused)
<1>1. Unreachable \subseteq Api
  BY ConstantsAssumption DEF ConstantsAssumption
<1>2. \A e \in EntriesOf(c) : e \in refused \/ e \in Unreachable \/ (e \notin Api /\ Direct[c] = {})
  BY DEF AllTried
<1>3. QED  BY <1>1, <1>2 DEF Exhausted

\* An entry that is passed over is without a url, or without a proxy.
LEMMA SkippedIsUseless ==
    ASSUME NEW c \in Countries, NEW e, Skipped(c, e)
    PROVE  e \in Unreachable \/ (e \notin Api /\ Direct[c] = {})
<1>1. Available(c) = {} => Direct[c] = {}
  BY DEF Available
<1>2. QED  BY <1>1 DEF Skipped

LEMMA FromNextTried ==
    ASSUME NEW c \in Countries, NEW entries \in Seq(Entries), NEW refused,
           AllTried(c, entries, refused)
    PROVE  AllTried(c, FromNext(c, entries), refused)
<1> DEFINE rest == FromNext(c, entries)
<1>1. ASSUME NEW i \in DOMAIN entries
      PROVE  \/ \E j \in DOMAIN rest : rest[j] = entries[i]
             \/ entries[i] \in Unreachable
             \/ entries[i] \notin Api /\ Direct[c] = {}
  <2>1. Skipped(c, entries[i]) \/ \E j \in DOMAIN rest : rest[j] = entries[i]
    BY FromNextKeeps
  <2> HIDE DEF rest
  <2>2. QED  BY <2>1, SkippedIsUseless
<1> HIDE DEF rest
<1>2. AllTried(c, rest, refused)
  BY <1>1 DEF AllTried
<1>3. QED  BY <1>2 DEF rest

-----------------------------------------------------------------------------
(* Steps of the registry.                                                      *)

LEMMA NothingTyped == NotAsking \in GetRecord /\ Nothing \in HandedRecord
<1>1. <<>> \in Seq(Entries)
  OBVIOUS
<1>2. QED  BY <1>1 DEF NotAsking, Nothing, GetRecord, HandedRecord

LEMMA DirectIsProxy ==
    ASSUME NEW c \in Countries
    PROVE  Available(c) \subseteq Direct[c] /\ Direct[c] \subseteq Proxies
  BY DEF Available, Proxies

LEMMA SuppliedIsProxy == Supplied \subseteq Proxies
<1> DEFINE direct == UNION {Direct[c] : c \in Countries}
<1>1. Proxies = direct \cup Supplied
  BY DEF Proxies
<1> HIDE DEF direct
<1>2. QED  BY <1>1

\* What a task is handed changes what it is handed, and ends its get().
LEMMA HandKeeps ==
    ASSUME GetsInv, HandedInv, NEW t \in Tasks, NEW c \in Countries,
           NEW proxy \in Proxies \cup {NoProxy}, NEW refused \in SUBSET Api,
           NEW source \in {"nowhere", "direct", "cache", "provider"},
           source = "nowhere" => Exhausted(c, refused),
           Hand(t, c, proxy, source, refused)
    PROVE  GetsInv' /\ HandedInv'
<1> DEFINE what == [proxy |-> proxy, from |-> source, country |-> c, refused |-> refused]
<1>1. what \in HandedRecord
  BY DEF HandedRecord
<1>2. handed' = [handed EXCEPT ![t] = what] /\ gets' = [gets EXCEPT ![t] = NotAsking]
  BY DEF Hand
<1>3. handed' \in [Tasks -> HandedRecord] /\ gets' \in [Tasks -> GetRecord]
  BY <1>1, <1>2, NothingTyped DEF GetsInv, HandedInv
<1>4. \A u \in Tasks : handed'[u].from = "nowhere" => Exhausted(handed'[u].country, handed'[u].refused)
  BY <1>2 DEF HandedInv, NoneOnlyWhenExhausted, Exhausted
<1>5. \A u \in Tasks : Asking(u)' => u # t /\ Asking(u) /\ gets'[u] = gets[u]
  BY <1>2 DEF GetsInv, Asking, NotAsking
<1>6. GetsInv'
  BY <1>3, <1>5 DEF GetsInv
<1>7. QED  BY <1>3, <1>4, <1>6 DEF HandedInv, NoneOnlyWhenExhausted, Exhausted

\* get() on its way through the entries that are left.
LEMMA TryEntriesKeeps ==
    ASSUME RegistryInv, NEW t \in Tasks, NEW c \in Countries, NEW entries \in Seq(Entries),
           NEW refused \in SUBSET Api, AllTried(c, entries, refused),
           TryEntries(t, c, entries, refused)
    PROVE  /\ RegistryInv' /\ UNCHANGED apiCache
           /\ \A u \in Tasks \ {t} : gets'[u] = gets[u] /\ handed'[u] = handed[u]
           /\ ~Asking(t)' /\ handed'[t].from = "cache" =>
                 \E k \in DOMAIN apiCache : handed'[t].proxy = apiCache[k].proxy
<1> DEFINE rest == FromNext(c, entries)
           e == Head(rest)
<1>1. rest \in Seq(Entries) /\ AllTried(c, rest, refused) /\ (rest # <<>> => ~Skipped(c, e))
  BY FromNextKeeps, FromNextTried
<1>2. gets \in [Tasks -> GetRecord] /\ handed \in [Tasks -> HandedRecord]
  BY DEF RegistryInv, GetsInv, HandedInv
<1>3. Supplied \subseteq Proxies
  BY SuppliedIsProxy
<1> HIDE DEF rest
<1>4. CASE rest = <<>> /\ Hand(t, c, NoProxy, "nowhere", refused) /\ UNCHANGED <<meta, apiCache>>
  <2>1. Exhausted(c, refused)
    BY <1>1, <1>4, TriedIsExhausted
  <2>2. GetsInv' /\ HandedInv'
    BY <1>4, <2>1, HandKeeps DEF RegistryInv
  <2>3. handed'[t].from = "nowhere"
    BY <1>2, <1>4 DEF Hand
  <2>4. QED  BY <1>2, <1>4, <2>2, <2>3 DEF RegistryInv, MetaTyped, CacheTyped, Hand
<1>5. ASSUME rest # <<>>, e \notin Api, NEW p \in Available(c),
             meta' = [meta EXCEPT ![c] = Put(@, p, 0)], Hand(t, c, p, "direct", refused),
             UNCHANGED apiCache
      PROVE  RegistryInv' /\ handed'[t].from = "direct"
  <2>1. p \in Direct[c] /\ p \in Proxies
    BY DirectIsProxy
  <2>2. GetsInv' /\ HandedInv'
    BY <1>5, <2>1, HandKeeps DEF RegistryInv
  <2>3. MetaTyped'
    <3>1. 0 \in 0 .. DirectTtl
      BY ConstantsAssumption DEF ConstantsAssumption
    <3>2. /\ DOMAIN meta' = Countries /\ meta'[c] = Put(meta[c], p, 0)
          /\ \A d \in Countries \ {c} : meta'[d] = meta[d]
      BY <1>5 DEF RegistryInv, MetaTyped
    <3>3. QED  BY <2>1, <3>1, <3>2 DEF RegistryInv, MetaTyped, Put
  <2>4. CacheTyped'
    BY <1>5 DEF RegistryInv, CacheTyped
  <2>5. QED  BY <1>2, <1>5, <2>2, <2>3, <2>4 DEF RegistryInv, Hand
<1>6. CASE /\ rest # <<>> /\ e \in Api /\ Cached(Key[e])
           /\ Hand(t, c, ProxyIn(apiCache[Key[e]]), "cache", refused)
           /\ UNCHANGED <<meta, apiCache>>
  <2>1. Key[e] \in DOMAIN apiCache /\ apiCache[Key[e]].proxy \in Proxies
    BY <1>3, <1>6 DEF Cached, RegistryInv, CacheTyped
  <2>2. GetsInv' /\ HandedInv'
    BY <1>6, <2>1, HandKeeps DEF RegistryInv, ProxyIn
  <2>3. handed'[t].proxy = apiCache[Key[e]].proxy
    BY <1>2, <1>6 DEF Hand, ProxyIn
  <2>4. QED  BY <1>2, <1>6, <2>1, <2>2, <2>3 DEF RegistryInv, MetaTyped, CacheTyped, Hand
<1>7. CASE /\ rest # <<>> /\ e \in Api /\ ~Cached(Key[e])
           /\ gets' = [gets EXCEPT ![t] = [country |-> c, rest |-> rest, refused |-> refused]]
           /\ UNCHANGED <<meta, apiCache, handed>>
  <2>1. [country |-> c, rest |-> rest, refused |-> refused] \in GetRecord
    BY <1>1 DEF GetRecord
  <2>2. gets' \in [Tasks -> GetRecord]
    BY <1>2, <1>7, <2>1
  <2>3. GetsInv'
    BY <1>1, <1>2, <1>7, <2>2 DEF RegistryInv, GetsInv, Asking
  <2>4. Asking(t)'
    BY <1>2, <1>7 DEF Asking
  <2>5. HandedInv'
    BY <1>7 DEF RegistryInv, HandedInv, NoneOnlyWhenExhausted
  <2>6. QED  BY <1>2, <1>7, <2>3, <2>4, <2>5 DEF RegistryInv, MetaTyped, CacheTyped
<1>8. \A u \in Tasks \ {t} : gets'[u] = gets[u] /\ handed'[u] = handed[u]
  BY <1>2 DEF TryEntries, Hand
<1>9. QED  BY <1>4, <1>5, <1>6, <1>7, <1>8 DEF TryEntries, rest

\* The provider's answer goes into the cache and to the task.
LEMMA AnswerKeeps ==
    ASSUME RegistryInv, NEW t \in Tasks, NEW p \in Supplied, ProviderAnswers(t, p)
    PROVE  /\ RegistryInv'
           /\ \A u \in Tasks \ {t} : gets'[u] = gets[u] /\ handed'[u] = handed[u]
           /\ ~Asking(t)' /\ handed'[t].from = "provider"
           /\ \A k \in DOMAIN apiCache' :
                 apiCache'[k].proxy = p \/ (k \in DOMAIN apiCache /\ apiCache'[k] = apiCache[k])
<1> DEFINE k == Key[Head(gets[t].rest)]
<1>1. gets \in [Tasks -> GetRecord] /\ handed \in [Tasks -> HandedRecord]
  BY DEF RegistryInv, GetsInv, HandedInv
<1>2. /\ apiCache' = Put(apiCache, k, [proxy |-> p, age |-> 0])
      /\ Hand(t, gets[t].country, p, "provider", gets[t].refused) /\ UNCHANGED meta
  BY DEF ProviderAnswers
<1>3. k \in Keys /\ gets[t].country \in Countries /\ p \in Proxies /\ gets[t].refused \in SUBSET Api
  <2>1. /\ Head(gets[t].rest) \in Api /\ gets[t].country \in Countries
        /\ gets[t].refused \in SUBSET Api
    BY <1>1 DEF ProviderAnswers, RegistryInv, GetsInv, GetRecord
  <2>2. QED  BY <2>1, SuppliedIsProxy DEF Keys
<1>4. CacheTyped'
  <2>1. 0 \in 0 .. ApiTtl
    BY ConstantsAssumption DEF ConstantsAssumption
  <2>2. QED  BY <1>2, <1>3, <2>1 DEF Put, RegistryInv, CacheTyped
<1>5. GetsInv' /\ HandedInv'
  BY <1>2, <1>3, HandKeeps DEF RegistryInv
<1>6. ~Asking(t)' /\ handed'[t].from = "provider"
      /\ \A u \in Tasks \ {t} : gets'[u] = gets[u] /\ handed'[u] = handed[u]
  BY <1>1, <1>2 DEF Hand, Asking, NotAsking
<1>7. \A j \in DOMAIN apiCache' :
        apiCache'[j].proxy = p \/ (j \in DOMAIN apiCache /\ apiCache'[j] = apiCache[j])
  BY <1>2 DEF Put
<1>8. QED  BY <1>2, <1>4, <1>5, <1>6, <1>7 DEF RegistryInv, MetaTyped

\* What get() leaves when it returns or awaits a provider, as a call sees it.
Got(t) ==
    /\ RegistryInv' /\ UNCHANGED apiCache
    /\ \A u \in Tasks \ {t} : gets'[u] = gets[u] /\ handed'[u] = handed[u]
    /\ ~Asking(t)' /\ handed'[t].from = "cache" =>
          \E k \in DOMAIN apiCache : handed'[t].proxy = apiCache[k].proxy

LEMMA GetKeeps ==
    ASSUME RegistryInv, NEW t \in Tasks, NEW c \in Countries, Get(t, c)
    PROVE  Got(t)
<1>1. PICK entries \in Shuffles[c] : TryEntries(t, c, entries, {})
  BY DEF Get
<1>2. entries \in Seq(Entries) /\ AllTried(c, entries, {})
  BY ShuffleKeeps
<1>3. QED  BY <1>1, <1>2, TryEntriesKeeps DEF Got

LEMMA FailureKeeps ==
    ASSUME RegistryInv, NEW t \in Tasks, ProviderFails(t)
    PROVE  Got(t)
<1> DEFINE c == gets[t].country
           rest == gets[t].rest
           refused == gets[t].refused \cup {Head(rest)}
<1>1. /\ c \in Countries /\ rest \in Seq(Entries) /\ rest # <<>> /\ Head(rest) \in Api
      /\ AllTried(c, rest, gets[t].refused) /\ gets[t].refused \in SUBSET Api
  BY DEF ProviderFails, RegistryInv, GetsInv, GetRecord, Asking
<1>2. TryEntries(t, c, Tail(rest), refused)
  BY DEF ProviderFails, Remaining
<1> HIDE DEF c, rest
<1>3. Tail(rest) \in Seq(Entries) /\ Len(Tail(rest)) = Len(rest) - 1
      /\ \A i \in 1 .. Len(Tail(rest)) : Tail(rest)[i] = rest[i + 1]
  BY <1>1
<1>4. \A i \in DOMAIN rest : rest[i] = Head(rest) \/ \E j \in DOMAIN Tail(rest) : Tail(rest)[j] = rest[i]
  <2>1. ASSUME NEW i \in DOMAIN rest, i # 1
        PROVE  \E j \in DOMAIN Tail(rest) : Tail(rest)[j] = rest[i]
    <3>1. i - 1 \in 1 .. Len(Tail(rest)) /\ Tail(rest)[i - 1] = rest[i]
      BY <1>1, <1>3, <2>1
    <3>2. QED  BY <1>3, <3>1
  <2>2. Head(rest) = rest[1]
    BY <1>1
  <2>3. QED  BY <2>1, <2>2
<1>5. AllTried(c, Tail(rest), refused) /\ refused \in SUBSET Api
  BY <1>1, <1>4 DEF AllTried
<1>6. QED  BY <1>1, <1>2, <1>3, <1>5, TryEntriesKeeps DEF Got

\* The cache is left as it is, or loses proxies.
LEMMA RotationKeeps ==
    ASSUME RegistryInv, Rotate \/ \E c \in Countries : RotateCountry(c)
    PROVE  /\ RegistryInv' /\ UNCHANGED <<gets, handed>>
           /\ \A k \in DOMAIN apiCache' : k \in DOMAIN apiCache /\ apiCache'[k] = apiCache[k]
<1>1. UNCHANGED <<meta, gets, handed>>
  BY DEF Rotate, RotateCountry
<1>2. \A k \in DOMAIN apiCache' : k \in DOMAIN apiCache /\ apiCache'[k] = apiCache[k]
  <2>1. CASE Rotate
    BY <2>1 DEF Rotate, Kept
  <2>2. ASSUME NEW c \in Countries, RotateCountry(c)
        PROVE  \A k \in DOMAIN apiCache' : k \in DOMAIN apiCache /\ apiCache'[k] = apiCache[k]
    BY <2>2 DEF RotateCountry, KeptWithout
  <2>3. QED  BY <2>1, <2>2
<1>3. CacheTyped'
  BY <1>2 DEF RegistryInv, CacheTyped
<1>4. QED
  BY <1>1, <1>2, <1>3
     DEF RegistryInv, MetaTyped, GetsInv, Asking, HandedInv, NoneOnlyWhenExhausted

\* The task lets go of its proxy; the cache may be dropped at the same time.
LEMMA LettingGoKeeps ==
    ASSUME RegistryInv, NEW t \in Tasks, handed' = [handed EXCEPT ![t] = Nothing],
           UNCHANGED <<meta, gets>>, apiCache' = apiCache \/ apiCache' = Kept
    PROVE  RegistryInv'
<1>1. CacheTyped'
  BY DEF RegistryInv, CacheTyped, Kept
<1>2. handed' \in [Tasks -> HandedRecord]
  BY NothingTyped DEF RegistryInv, HandedInv
<1>3. \A u \in Tasks : handed'[u].from = "nowhere" => handed'[u] = handed[u]
  BY DEF RegistryInv, HandedInv, Nothing
<1>4. QED
  BY <1>1, <1>2, <1>3
     DEF RegistryInv, MetaTyped, GetsInv, Asking, HandedInv, NoneOnlyWhenExhausted

LEMMA AgeKeeps ==
    ASSUME RegistryInv, Age
    PROVE  /\ RegistryInv' /\ UNCHANGED <<gets, handed>>
           /\ DOMAIN apiCache' = DOMAIN apiCache
           /\ \A k \in DOMAIN apiCache : apiCache'[k].proxy = apiCache[k].proxy
<1>1. \A ttl \in Nat : \A age \in 0 .. ttl : Older(age, ttl) \in 0 .. ttl
  BY DEF Older
<1>2. DirectTtl \in Nat /\ ApiTtl \in Nat
  BY ConstantsAssumption DEF ConstantsAssumption
<1>3. MetaTyped'
  BY <1>1, <1>2 DEF RegistryInv, MetaTyped, Age
<1>4. /\ DOMAIN apiCache' = DOMAIN apiCache
      /\ \A k \in DOMAIN apiCache :
            apiCache'[k] = [apiCache[k] EXCEPT !.age = Older(apiCache[k].age, ApiTtl)]
  BY DEF Age
<1>5. CacheTyped' /\ \A k \in DOMAIN apiCache : apiCache'[k].proxy = apiCache[k].proxy
  BY <1>1, <1>2, <1>4 DEF RegistryInv, CacheTyped
<1>6. UNCHANGED <<gets, handed>>
  BY DEF Age
<1>7. QED
  BY <1>3, <1>4, <1>5, <1>6 DEF RegistryInv, GetsInv, Asking, HandedInv, NoneOnlyWhenExhausted

-----------------------------------------------------------------------------
(* Steps of a call.                                                            *)

Inv == RegistryInv /\ CallTyped /\ RetriedWhenWorthIt /\ LeavesInv

LEMMA ConstantsTyped ==
    /\ Errors \subseteq ErrorKinds /\ "none" \notin Errors
    /\ Attempts \in Nat /\ 1 \in 1 .. Attempts /\ 0 \in 0 .. Attempts
    /\ NoOutcome \in [error : Errors \cup {"none"}, attempts : 0 .. Attempts]
  BY RetryAssumption DEF RetryAssumption, ErrorKinds, NoOutcome

\* After get_proxy the call awaits a provider, or fetches.
LEMMA AfterGet ==
    ASSUME CallTyped, NEW t \in Tasks, GetProxy(t),
           \A u \in Tasks \ {t} : gets'[u] = gets[u]
    PROVE  /\ pc' \in [Tasks -> {"idle", "get", "fetch", "sleep"}]
           /\ \A u \in Tasks \ {t} : pc'[u] = pc[u]
           /\ pc'[t] \in {"get", "fetch"} /\ \A u \in Tasks : pc'[u] = "get" <=> Asking(u)'
<1>1. pc' = [pc EXCEPT ![t] = IF Asking(t)' THEN "get" ELSE "fetch"]
  BY DEF GetProxy
<1>2. \A u \in Tasks \ {t} : Asking(u)' <=> Asking(u)
  BY DEF Asking
<1>3. QED  BY <1>1, <1>2 DEF CallTyped

\* The failures of the tasks that a step does not concern stay off the cache when
\* the cache loses proxies or stays as it is.
LEMMA OthersLeave ==
    ASSUME LeavesInv, NEW u \in Tasks, pc'[u] = pc[u], failed'[u] = failed[u],
           handed'[u] = handed[u],
           \A k \in DOMAIN apiCache' :
              k \in DOMAIN apiCache /\ apiCache'[k].proxy = apiCache[k].proxy
    PROVE  \A f \in failed'[u] : f.error \in ProxyErrors =>
              /\ pc'[u] # "idle" => \A k \in DOMAIN apiCache' : apiCache'[k].proxy # f.proxy
              /\ pc'[u] = "fetch" /\ handed'[u].from = "cache" => f.proxy # handed'[u].proxy
  BY DEF LeavesInv

LEMMA CallKeeps ==
    ASSUME Inv, NEW t \in Tasks, NEW c \in Countries, Call(t, c)
    PROVE  Inv'
<1>1. Got(t)
  BY GetKeeps DEF Inv, Call
<1>2. /\ pc' \in [Tasks -> {"idle", "get", "fetch", "sleep"}]
      /\ \A u \in Tasks \ {t} : pc'[u] = pc[u]
      /\ pc'[t] \in {"get", "fetch"} /\ \A u \in Tasks : pc'[u] = "get" <=> Asking(u)'
  BY <1>1, AfterGet DEF Inv, Call, Got
<1>3. /\ country' = [country EXCEPT ![t] = c] /\ attempt' = [attempt EXCEPT ![t] = 1]
      /\ failed' = [failed EXCEPT ![t] = {}] /\ outcome' = [outcome EXCEPT ![t] = NoOutcome]
      /\ UNCHANGED wait
  BY DEF Call
<1>4. CallTyped'
  <2>1. \A u \in Tasks : pc'[u] = "sleep" => attempt'[u] < Attempts
    BY <1>2, <1>3 DEF Inv, CallTyped
  <2>2. QED  BY <1>2, <1>3, <2>1, ConstantsTyped DEF Inv, CallTyped
<1>5. RetriedWhenWorthIt'
  <2>1. outcome'[t].error \notin Errors /\ failed'[t] = {}
    BY <1>3, ConstantsTyped DEF Inv, CallTyped, NoOutcome
  <2>2. \A u \in Tasks \ {t} : outcome'[u] = outcome[u] /\ failed'[u] = failed[u] /\ pc'[u] = pc[u]
    BY <1>2, <1>3 DEF Inv, CallTyped
  <2>3. QED  BY <2>1, <2>2 DEF Inv, RetriedWhenWorthIt
<1>6. LeavesInv'
  <2>1. failed'[t] = {} /\ \A u \in Tasks \ {t} : failed'[u] = failed[u]
    BY <1>3 DEF Inv, CallTyped
  <2>2. QED  BY <1>1, <1>2, <2>1, OthersLeave DEF Inv, Got, LeavesInv
<1>7. QED  BY <1>1, <1>4, <1>5, <1>6 DEF Inv, Got

LEMMA RetryKeeps ==
    ASSUME Inv, NEW t \in Tasks, Retry(t)
    PROVE  Inv'
<1>1. country[t] \in Countries /\ pc[t] = "sleep"
  BY DEF Inv, CallTyped, Retry
<1>2. Got(t)
  BY <1>1, GetKeeps DEF Inv, Retry
<1>3. /\ pc' \in [Tasks -> {"idle", "get", "fetch", "sleep"}]
      /\ \A u \in Tasks \ {t} : pc'[u] = pc[u]
      /\ pc'[t] \in {"get", "fetch"} /\ \A u \in Tasks : pc'[u] = "get" <=> Asking(u)'
  BY <1>2, AfterGet DEF Inv, Retry, Got
<1>4. /\ attempt' = [attempt EXCEPT ![t] = attempt[t] + 1]
      /\ UNCHANGED <<country, wait, outcome, failed>>
  BY DEF Retry, FollowingAttempt
<1>5. attempt[t] + 1 \in 1 .. Attempts
  BY <1>1, ConstantsTyped DEF Inv, CallTyped
<1>6. CallTyped'
  <2>1. attempt' \in [Tasks -> 1 .. Attempts] /\ \A u \in Tasks \ {t} : attempt'[u] = attempt[u]
    BY <1>4, <1>5 DEF Inv, CallTyped
  <2>2. \A u \in Tasks : pc'[u] = "sleep" => attempt'[u] < Attempts
    BY <1>3, <2>1 DEF Inv, CallTyped
  <2>3. QED  BY <1>3, <1>4, <2>1, <2>2 DEF Inv, CallTyped
<1>7. RetriedWhenWorthIt'
  BY <1>1, <1>3, <1>4 DEF Inv, RetriedWhenWorthIt
<1>8. LeavesInv'
  <2>1. UNCHANGED apiCache /\ \A u \in Tasks \ {t} : handed'[u] = handed[u]
    BY <1>2 DEF Got
  <2>2. \A f \in failed[t] : f.error \in ProxyErrors =>
            \A k \in DOMAIN apiCache : apiCache[k].proxy # f.proxy
    BY <1>1 DEF Inv, LeavesInv
  <2>3. pc'[t] = "fetch" /\ handed'[t].from = "cache" =>
            \E k \in DOMAIN apiCache : handed'[t].proxy = apiCache[k].proxy
    BY <1>2, <1>3 DEF Got
  <2>4. QED  BY <1>3, <1>4, <2>1, <2>2, <2>3, OthersLeave DEF Inv, LeavesInv
<1>9. QED  BY <1>2, <1>6, <1>7, <1>8 DEF Inv, Got

LEMMA GotProxyKeeps ==
    ASSUME Inv, NEW t \in Tasks, GotProxy(t)
    PROVE  Inv'
<1>1. pc[t] = "get" /\ GetProxy(t) /\ UNCHANGED <<country, attempt, wait, outcome>>
  BY DEF GotProxy
<1>2. CASE ProviderFails(t) /\ UNCHANGED failed
  <2>1. Got(t)
    BY <1>2, FailureKeeps DEF Inv
  <2>2. /\ pc' \in [Tasks -> {"idle", "get", "fetch", "sleep"}]
        /\ \A u \in Tasks \ {t} : pc'[u] = pc[u]
        /\ pc'[t] \in {"get", "fetch"} /\ \A u \in Tasks : pc'[u] = "get" <=> Asking(u)'
    BY <1>1, <2>1, AfterGet DEF Inv, Got
  <2>3. CallTyped'
    BY <1>1, <1>2, <2>2 DEF Inv, CallTyped
  <2>4. RetriedWhenWorthIt'
    BY <1>1, <1>2, <2>2 DEF Inv, RetriedWhenWorthIt
  <2>5. LeavesInv'
    <3>1. UNCHANGED apiCache /\ \A u \in Tasks \ {t} : handed'[u] = handed[u]
      BY <2>1 DEF Got
    <3>2. \A f \in failed[t] : f.error \in ProxyErrors =>
              \A k \in DOMAIN apiCache : apiCache[k].proxy # f.proxy
      BY <1>1 DEF Inv, LeavesInv
    <3>3. pc'[t] = "fetch" /\ handed'[t].from = "cache" =>
              \E k \in DOMAIN apiCache : handed'[t].proxy = apiCache[k].proxy
      BY <2>1, <2>2 DEF Got
    <3>4. QED  BY <1>2, <2>2, <3>1, <3>2, <3>3, OthersLeave DEF Inv, LeavesInv
  <2>6. QED  BY <2>1, <2>3, <2>4, <2>5 DEF Inv, Got
<1>3. ASSUME NEW p \in Supplied, ProviderAnswers(t, p),
             failed' = [u \in Tasks |-> {f \in failed[u] : f.proxy # p}]
      PROVE  Inv'
  <2>1. /\ RegistryInv'
        /\ \A u \in Tasks \ {t} : gets'[u] = gets[u] /\ handed'[u] = handed[u]
        /\ ~Asking(t)' /\ handed'[t].from = "provider"
        /\ \A k \in DOMAIN apiCache' :
              apiCache'[k].proxy = p \/ (k \in DOMAIN apiCache /\ apiCache'[k] = apiCache[k])
    BY <1>3, AnswerKeeps DEF Inv
  <2>2. /\ pc' \in [Tasks -> {"idle", "get", "fetch", "sleep"}]
        /\ \A u \in Tasks \ {t} : pc'[u] = pc[u]
        /\ pc'[t] \in {"get", "fetch"} /\ \A u \in Tasks : pc'[u] = "get" <=> Asking(u)'
    BY <1>1, <2>1, AfterGet DEF Inv
  <2>3. \A u \in Tasks : \A f \in failed'[u] : f \in failed[u] /\ f.proxy # p
    BY <1>3
  <2>4. CallTyped'
    BY <1>1, <1>3, <2>2 DEF Inv, CallTyped
  <2>5. RetriedWhenWorthIt'
    BY <1>1, <2>2, <2>3 DEF Inv, RetriedWhenWorthIt
  <2>6. LeavesInv'
    BY <1>1, <2>1, <2>2, <2>3 DEF Inv, LeavesInv
  <2>7. QED  BY <2>1, <2>4, <2>5, <2>6 DEF Inv
<1>4. QED  BY <1>2, <1>3 DEF GotProxy

LEMMA SuccessKeeps ==
    ASSUME Inv, NEW t \in Tasks, FetchSucceeds(t)
    PROVE  Inv'
<1>1. /\ pc' = [pc EXCEPT ![t] = "idle"]
      /\ outcome' = [outcome EXCEPT ![t] = [error |-> "none", attempts |-> attempt[t]]]
      /\ UNCHANGED <<country, attempt, wait, failed, meta, apiCache, gets>>
      /\ handed' = [handed EXCEPT ![t] = Nothing] /\ pc[t] = "fetch"
  BY DEF FetchSucceeds, Ends, Release
<1>2. RegistryInv'
  BY <1>1, LettingGoKeeps DEF Inv
<1>3. CallTyped'
  <2>1. outcome' \in [Tasks -> [error : Errors \cup {"none"}, attempts : 0 .. Attempts]]
    BY <1>1 DEF Inv, CallTyped
  <2>2. QED  BY <1>1, <2>1 DEF Inv, CallTyped, Asking
<1>4. RetriedWhenWorthIt'
  <2>1. outcome'[t].error \notin Errors
    BY <1>1, ConstantsTyped DEF Inv, CallTyped
  <2>2. QED  BY <1>1, <2>1 DEF Inv, CallTyped, RetriedWhenWorthIt
<1>5. LeavesInv'
  BY <1>1 DEF Inv, CallTyped, LeavesInv
<1>6. QED  BY <1>2, <1>3, <1>4, <1>5 DEF Inv

LEMMA FailureOfFetchKeeps ==
    ASSUME Inv, NEW t \in Tasks, NEW error \in Errors, FetchFails(t, error)
    PROVE  Inv'
<1> DEFINE lost == [proxy |-> handed[t].proxy, error |-> error]
<1>1. pc[t] = "fetch" /\ failed' = [failed EXCEPT ![t] = failed[t] \cup {lost}]
  BY DEF FetchFails
<1>2. failed' \in [Tasks -> SUBSET [proxy : Proxies \cup {NoProxy}, error : Errors]]
      /\ \A u \in Tasks \ {t} : failed'[u] = failed[u]
  <2>1. lost \in [proxy : Proxies \cup {NoProxy}, error : Errors]
    BY DEF Inv, RegistryInv, HandedInv, HandedRecord
  <2>2. QED  BY <1>1, <2>1 DEF Inv, CallTyped
<1>3. error \in ErrorKinds
  BY ConstantsTyped
<1>4. CASE GivesUp(t, error) /\ Ends(t, error) /\ Release(t)
  <2>1. /\ pc' = [pc EXCEPT ![t] = "idle"]
        /\ outcome' = [outcome EXCEPT ![t] = [error |-> error, attempts |-> attempt[t]]]
        /\ UNCHANGED <<country, attempt, wait, meta, apiCache, gets>>
        /\ handed' = [handed EXCEPT ![t] = Nothing]
    BY <1>4 DEF Ends, Release
  <2>2. RegistryInv'
    BY <2>1, LettingGoKeeps DEF Inv
  <2>3. CallTyped'
    <3>1. outcome' \in [Tasks -> [error : Errors \cup {"none"}, attempts : 0 .. Attempts]]
      BY <2>1 DEF Inv, CallTyped
    <3>2. QED  BY <1>1, <1>2, <2>1, <3>1 DEF Inv, CallTyped, Asking
  <2>4. RetriedWhenWorthIt'
    <3>1. error \in Errors \ Hopeless => attempt[t] = Attempts
      BY <1>3, <1>4 DEF GivesUp, IsTransient, Hopeless, ErrorKinds
    <3>2. outcome'[t].error = error /\ outcome'[t].attempts = attempt[t] /\ pc'[t] = "idle"
      BY <2>1 DEF Inv, CallTyped
    <3>3. \A u \in Tasks \ {t} : outcome'[u] = outcome[u] /\ pc'[u] = pc[u]
      BY <2>1 DEF Inv, CallTyped
    <3>4. QED  BY <1>2, <3>1, <3>2, <3>3 DEF Inv, RetriedWhenWorthIt
  <2>5. LeavesInv'
    <3>1. pc'[t] = "idle" /\ \A u \in Tasks \ {t} : pc'[u] = pc[u] /\ handed'[u] = handed[u]
      BY <2>1 DEF Inv, CallTyped
    <3>2. QED  BY <1>2, <2>1, <3>1 DEF Inv, LeavesInv
  <2>6. QED  BY <2>2, <2>3, <2>4, <2>5 DEF Inv
<1>5. CASE /\ ~GivesUp(t, error)
           /\ apiCache' = IF NeedsNewProxy(error) THEN Kept ELSE apiCache
           /\ handed' = [handed EXCEPT ![t] = Nothing]
           /\ UNCHANGED <<meta, gets>>
           /\ pc' = [pc EXCEPT ![t] = "sleep"]
           /\ wait' = [wait EXCEPT ![t] = Pause(attempt[t])]
           /\ UNCHANGED <<country, attempt, outcome>>
  <2>1. RegistryInv'
    BY <1>5, LettingGoKeeps DEF Inv
  <2>2. attempt[t] # Attempts /\ IsTransient(error)
    BY <1>5 DEF GivesUp
  <2>3. pc'[t] = "sleep" /\ \A u \in Tasks \ {t} : pc'[u] = pc[u] /\ handed'[u] = handed[u]
    BY <1>5 DEF Inv, CallTyped
  <2>4. CallTyped'
    <3>1. attempt[t] < Attempts /\ attempt[t] \in 0 .. Attempts
      <4>1. attempt[t] \in 1 .. Attempts /\ Attempts \in Nat
        BY ConstantsTyped DEF Inv, CallTyped
      <4>2. QED  BY <2>2, <4>1
    <3>2. pc' \in [Tasks -> {"idle", "get", "fetch", "sleep"}]
          /\ wait' \in [Tasks -> 0 .. Attempts]
      BY <1>5, <3>1 DEF Inv, CallTyped, Pause
    <3>3. \A u \in Tasks : pc'[u] = "get" <=> Asking(u)'
      BY <1>1, <1>5, <2>3 DEF Inv, CallTyped, Asking
    <3>4. \A u \in Tasks : pc'[u] = "sleep" => attempt'[u] < Attempts
      BY <1>5, <2>3, <3>1 DEF Inv, CallTyped
    <3>5. QED  BY <1>2, <1>5, <3>2, <3>3, <3>4 DEF Inv, CallTyped
  <2>5. RetriedWhenWorthIt'
    <3>1. error \notin Hopeless
      BY <2>2 DEF IsTransient, Hopeless
    <3>2. \A f \in failed'[t] : f \in failed[t] \/ f.error = error
      BY <1>1 DEF Inv, CallTyped
    <3>3. \A f \in failed'[t] : f.error \notin Hopeless
      BY <1>1, <3>1, <3>2 DEF Inv, RetriedWhenWorthIt
    <3>4. QED  BY <1>2, <1>5, <2>3, <3>3 DEF Inv, RetriedWhenWorthIt
  <2>6. LeavesInv'
    <3>1. \A k \in DOMAIN apiCache' : k \in DOMAIN apiCache /\ apiCache'[k].proxy = apiCache[k].proxy
      BY <1>5 DEF Kept
    <3>2. ASSUME NEW f \in failed'[t], f.error \in ProxyErrors
          PROVE  \A k \in DOMAIN apiCache' : apiCache'[k].proxy # f.proxy
      <4>1. CASE f \in failed[t]
        BY <1>1, <3>1, <3>2, <4>1 DEF Inv, LeavesInv
      <4>2. CASE f = lost
        <5>1. NeedsNewProxy(error)
          BY <3>2, <4>2 DEF ProxyErrors, NeedsNewProxy
        <5>2. QED  BY <1>5, <5>1 DEF Kept
      <4>3. QED  BY <1>1, <4>1, <4>2 DEF Inv, CallTyped
    <3>3. QED  BY <1>2, <2>3, <3>1, <3>2, OthersLeave DEF Inv, LeavesInv
  <2>7. QED  BY <2>1, <2>4, <2>5, <2>6 DEF Inv
<1>6. QED  BY <1>4, <1>5 DEF FetchFails

LEMMA TickKeeps ==
    ASSUME Inv, Tick
    PROVE  Inv'
<1>1. UNCHANGED <<pc, country, attempt, outcome, failed>>
      /\ wait' = [t \in Tasks |-> IF wait[t] > 0 THEN wait[t] - 1 ELSE 0]
  BY DEF Tick
<1>2. /\ RegistryInv' /\ UNCHANGED <<gets, handed>>
      /\ \A k \in DOMAIN apiCache' : k \in DOMAIN apiCache /\ apiCache'[k].proxy = apiCache[k].proxy
  BY AgeKeeps DEF Inv, Tick
<1>3. CallTyped'
  <2>1. wait' \in [Tasks -> 0 .. Attempts]
    BY <1>1, ConstantsTyped DEF Inv, CallTyped
  <2>2. QED  BY <1>1, <1>2, <2>1 DEF Inv, CallTyped, Asking
<1>4. RetriedWhenWorthIt' /\ LeavesInv'
  BY <1>1, <1>2, OthersLeave DEF Inv, RetriedWhenWorthIt, LeavesInv
<1>5. QED  BY <1>2, <1>3, <1>4 DEF Inv

LEMMA RotatingKeeps ==
    ASSUME Inv, AdminRotates
    PROVE  Inv'
<1>1. UNCHANGED <<pc, country, attempt, wait, outcome, failed>>
  BY DEF AdminRotates, callVars
<1>2. /\ RegistryInv' /\ UNCHANGED <<gets, handed>>
      /\ \A k \in DOMAIN apiCache' : k \in DOMAIN apiCache /\ apiCache'[k].proxy = apiCache[k].proxy
  BY RotationKeeps DEF Inv, AdminRotates
<1>3. CallTyped'
  BY <1>1, <1>2 DEF Inv, CallTyped, Asking
<1>4. RetriedWhenWorthIt' /\ LeavesInv'
  BY <1>1, <1>2, OthersLeave DEF Inv, RetriedWhenWorthIt, LeavesInv
<1>5. QED  BY <1>2, <1>3, <1>4 DEF Inv

-----------------------------------------------------------------------------
(* The invariant.                                                              *)

LEMMA InvInit == Init => Inv
<1> SUFFICES ASSUME Init
             PROVE  Inv
  OBVIOUS
<1>1. RegistryInv
  <2>1. MetaTyped /\ CacheTyped
    BY DEF Init, RegistryInit, MetaTyped, CacheTyped
  <2>2. GetsInv
    BY NothingTyped DEF Init, RegistryInit, GetsInv, Asking, NotAsking
  <2>3. HandedInv
    BY NothingTyped DEF Init, RegistryInit, HandedInv, NoneOnlyWhenExhausted, Nothing
  <2>4. QED  BY <2>1, <2>2, <2>3 DEF RegistryInv
<1>2. CallTyped
  BY ConstantsTyped DEF Init, RegistryInit, CallTyped, Asking, NotAsking
<1>3. RetriedWhenWorthIt /\ LeavesInv
  BY ConstantsTyped DEF Init, RetriedWhenWorthIt, LeavesInv, NoOutcome
<1>4. QED  BY <1>1, <1>2, <1>3 DEF Inv

LEMMA InvStep == Inv /\ [Next]_vars => Inv'
<1> SUFFICES ASSUME Inv, [Next]_vars
             PROVE  Inv'
  OBVIOUS
<1>1. ASSUME NEW t \in Tasks, Step(t)
      PROVE  Inv'
  BY <1>1, GotProxyKeeps, SuccessKeeps, RetryKeeps, FailureOfFetchKeeps DEF Step
<1>2. ASSUME NEW t \in Tasks, NEW c \in Countries, Call(t, c)
      PROVE  Inv'
  BY <1>2, CallKeeps
<1>3. CASE Tick
  BY <1>3, TickKeeps
<1>4. CASE AdminRotates
  BY <1>4, RotatingKeeps
<1>5. CASE UNCHANGED vars
  <2>1. UNCHANGED <<meta, apiCache, gets, handed, pc, country, attempt, wait, outcome, failed>>
    BY <1>5 DEF vars, registryVars, callVars
  <2>2. RegistryInv'
    BY <2>1
       DEF Inv, RegistryInv, MetaTyped, CacheTyped, GetsInv, Asking, HandedInv,
           NoneOnlyWhenExhausted
  <2>3. CallTyped' /\ RetriedWhenWorthIt' /\ LeavesInv'
    BY <2>1 DEF Inv, CallTyped, Asking, RetriedWhenWorthIt, LeavesInv
  <2>4. QED  BY <2>2, <2>3 DEF Inv
<1>6. QED  BY <1>1, <1>2, <1>3, <1>4, <1>5 DEF Next

-----------------------------------------------------------------------------
(* Who is handed a direct proxy.                                               *)

\* get_random gives an unrested proxy only when there is no rested one.
LEMMA UnrestedIfNoneRested ==
    ASSUME NEW c \in Countries, NEW p \in Available(c), ~Rested(c, p)
    PROVE  \A q \in Direct[c] : ~Rested(c, q)
<1> DEFINE rested == {q \in Direct[c] : CanUse(c, q)}
<1>1. CASE rested = {}
  BY <1>1 DEF CanUse
<1>2. CASE rested # {}
  <2>1. p \in Direct[c] /\ Cardinality(Direct[c]) <= 1 /\ IsFiniteSet(Direct[c])
    BY <1>2, ConstantsAssumption DEF Available, CanUse, ConstantsAssumption
  <2>2. Cardinality(Direct[c]) = 0 \/ Cardinality(Direct[c]) = 1
    BY <2>1, FS_CardinalityType
  <2>3. PICK q : Direct[c] = {q}
    BY <2>1, <2>2, FS_EmptySet, FS_Singleton
  <2>4. QED  BY <2>1, <2>3
<1>3. QED  BY <1>1, <1>2

\* A step that hands a direct proxy is a get() that has just chosen it.
LEMMA HandsAvailable ==
    ASSUME HandedInv, NEW t \in Tasks, NEW c \in Countries, NEW entries, NEW refused,
           TryEntries(t, c, entries, refused), NEW u \in Tasks, NEW d \in Countries,
           HandsDirect(u, d)
    PROVE  d = c /\ handed'[u].proxy \in Available(c)
<1>1. handed \in [Tasks -> HandedRecord] /\ handed'[u] # handed[u]
  BY DEF HandedInv, HandsDirect, Nothing
<1>2. QED  BY <1>1 DEF TryEntries, Hand, HandsDirect

LEMMA DirectIsSpread ==
    ASSUME Inv, [Next]_vars, NEW u \in Tasks, NEW d \in Countries, HandsDirect(u, d)
    PROVE  handed'[u].proxy \in Available(d)
<1>1. handed \in [Tasks -> HandedRecord] /\ HandedInv /\ handed'[u] # handed[u]
      /\ handed'[u] # Nothing /\ handed'[u].from # "provider"
  BY DEF Inv, RegistryInv, HandedInv, HandsDirect, Nothing
<1>2. ASSUME NEW t \in Tasks, NEW c \in Countries, Get(t, c)
      PROVE  handed'[u].proxy \in Available(d)
  BY <1>1, <1>2, HandsAvailable DEF Get
<1>3. ASSUME NEW t \in Tasks, GotProxy(t)
      PROVE  handed'[u].proxy \in Available(d)
  <2>1. ASSUME ProviderFails(t)
        PROVE  handed'[u].proxy \in Available(d)
    <3>1. gets[t].country \in Countries
      BY <2>1 DEF ProviderFails, Inv, RegistryInv, GetsInv
    <3>2. QED  BY <1>1, <2>1, <3>1, HandsAvailable DEF ProviderFails
  <2>2. ASSUME NEW p \in Supplied, ProviderAnswers(t, p)
        PROVE  FALSE
    BY <1>1, <2>2 DEF ProviderAnswers, Hand
  <2>3. QED  BY <1>3, <2>1, <2>2 DEF GotProxy
<1>4. ASSUME NEW t \in Tasks, FetchSucceeds(t) \/ \E error \in Errors : FetchFails(t, error)
      PROVE  FALSE
  BY <1>1, <1>4 DEF FetchSucceeds, FetchFails, Release
<1>5. CASE Tick \/ AdminRotates \/ UNCHANGED vars
  BY <1>1, <1>5 DEF Tick, Age, AdminRotates, Rotate, RotateCountry, vars, registryVars
<1>6. ASSUME NEW t \in Tasks, Retry(t)
      PROVE  handed'[u].proxy \in Available(d)
  BY <1>2, <1>6 DEF Retry, Inv, CallTyped
<1>7. QED  BY <1>2, <1>3, <1>4, <1>5, <1>6 DEF Next, Step, Call

-----------------------------------------------------------------------------
(* What a call can still do.                                                   *)

\* What is left of an attempt: the entries that get() has not tried, the request, and
\* the pause; then what is left of a call, with all its further attempts.
LeftOfAttempt(t) ==
    CASE pc[t] = "get" -> Attempts + 2 + Len(gets[t].rest)
      [] pc[t] = "fetch" -> Attempts + 2
      [] pc[t] = "sleep" -> 1 + wait[t]

MostOfAttempt(t) == Attempts + 2 + Len(Pools[country[t]])

WorkLeft(t) ==
    IF pc[t] = "idle" THEN 0
    ELSE (Attempts - attempt[t]) * MostOfAttempt(t) + LeftOfAttempt(t)

\* A step of a task, and the time while it pauses, leaves its call less to do; nothing
\* but the beginning of a call leaves it more.
WorkGoesDown ==
    \A t \in Tasks :
        /\ Step(t) => WorkLeft(t)' < WorkLeft(t)
        /\ Tick /\ pc[t] = "sleep" /\ wait[t] > 0 => WorkLeft(t)' < WorkLeft(t)
        /\ WorkLeft(t)' <= WorkLeft(t) \/ \E c \in Countries : Call(t, c)

\* A get() never has more entries before it than its country has.
RestFits(t) == pc[t] = "get" => Len(gets[t].rest) <= Len(Pools[country[t]])

RestsFit == \A t \in Tasks : RestFits(t)

\* What WorkLeft is made of.
LEMMA WorkTypes ==
    ASSUME Inv, NEW t \in Tasks
    PROVE  /\ Attempts \in Nat \ {0} /\ attempt[t] \in 1 .. Attempts /\ wait[t] \in 0 .. Attempts
           /\ country[t] \in Countries /\ gets[t].rest \in Seq(Entries)
           /\ Len(gets[t].rest) \in Nat
           /\ \A c \in Countries : Len(Pools[c]) \in Nat
           /\ pc[t] \in {"idle", "get", "fetch", "sleep"}
<1>1. gets[t].rest \in Seq(Entries)
  BY DEF Inv, RegistryInv, GetsInv, GetRecord
<1>2. \A c \in Countries : Len(Pools[c]) \in Nat
  BY ConstantsAssumption DEF ConstantsAssumption
<1>3. Len(gets[t].rest) \in Nat
  BY <1>1
<1>4. QED  BY <1>1, <1>2, <1>3, RetryAssumption DEF Inv, CallTyped, RetryAssumption

\* An attempt more is worth more than anything that an attempt can do.
LEMMA AttemptsCount ==
    ASSUME NEW n \in Nat, NEW a \in 1 .. n, NEW most \in Nat
    PROVE  /\ (n - a) * most \in Nat
           /\ a + 1 <= n => (n - (a + 1)) * most = (n - a) * most - most
<1>1. n - a \in Nat
  OBVIOUS
<1>2. \A k \in Nat : k * most \in Nat
  OBVIOUS
<1>3. \A k \in Nat : (k - 1) * most = k * most - most
  OBVIOUS
<1>4. n - (a + 1) = (n - a) - 1
  OBVIOUS
<1>5. QED  BY <1>1, <1>2, <1>3, <1>4

LEMMA LeftTypes ==
    ASSUME Inv, NEW t \in Tasks, pc[t] # "idle"
    PROVE  LeftOfAttempt(t) \in Nat /\ LeftOfAttempt(t) > 0
<1>1. /\ Attempts \in Nat /\ wait[t] \in Nat /\ Len(gets[t].rest) \in Nat
      /\ pc[t] \in {"get", "fetch", "sleep"}
  BY WorkTypes
<1>2. CASE pc[t] = "get"
  BY <1>1, <1>2 DEF LeftOfAttempt
<1>3. CASE pc[t] = "fetch"
  BY <1>1, <1>3 DEF LeftOfAttempt
<1>4. CASE pc[t] = "sleep"
  BY <1>1, <1>4 DEF LeftOfAttempt
<1>5. QED  BY <1>1, <1>2, <1>3, <1>4

LEMMA WorkIsNatural ==
    ASSUME Inv, NEW t \in Tasks
    PROVE  WorkLeft(t) \in Nat /\ (pc[t] # "idle" => WorkLeft(t) > 0)
<1> DEFINE more == (Attempts - attempt[t]) * MostOfAttempt(t)
<1>1. MostOfAttempt(t) \in Nat
  BY WorkTypes DEF MostOfAttempt
<1>2. more \in Nat
  BY <1>1, WorkTypes, AttemptsCount
<1>3. pc[t] # "idle" => LeftOfAttempt(t) \in Nat /\ LeftOfAttempt(t) > 0
  BY LeftTypes
<1>4. pc[t] # "idle" => WorkLeft(t) = more + LeftOfAttempt(t)
  BY DEF WorkLeft
<1>5. pc[t] = "idle" => WorkLeft(t) = 0
  BY DEF WorkLeft
<1> HIDE DEF more
<1>6. QED  BY <1>2, <1>3, <1>4, <1>5

WorkTyped ==
    \A t \in Tasks :
        /\ Len(gets[t].rest) \in Nat /\ WorkLeft(t) \in Nat
        /\ pc[t] # "idle" => LeftOfAttempt(t) \in Nat

LEMMA WorkTypedNow == Inv => WorkTyped
  BY WorkTypes, LeftTypes, WorkIsNatural DEF WorkTyped

LEMMA WorkTypedAfter == Inv' => WorkTyped'
  BY WorkTypedNow, PTL

\* The same attempt with less left of it, or the next one.
LEMMA LessLeft ==
    ASSUME Inv, Inv', NEW t \in Tasks, pc[t] # "idle", pc'[t] # "idle",
           UNCHANGED country[t],
           \/ attempt'[t] = attempt[t] /\ LeftOfAttempt(t)' < LeftOfAttempt(t)
           \/ attempt'[t] = attempt[t] + 1 /\ LeftOfAttempt(t)' <= MostOfAttempt(t)
    PROVE  WorkLeft(t)' < WorkLeft(t)
<1> DEFINE most == MostOfAttempt(t)
           more == (Attempts - attempt[t]) * most
           left == LeftOfAttempt(t)
           after == LeftOfAttempt(t)'
<1>1. most \in Nat /\ MostOfAttempt(t)' = most
  BY WorkTypes DEF MostOfAttempt
<1>2. left \in Nat /\ left > 0
  BY LeftTypes
<1>3. after \in Nat
  BY WorkTypedAfter DEF WorkTyped
<1>4. WorkLeft(t) = more + left /\ WorkLeft(t)' = (Attempts - attempt'[t]) * most + after
  BY <1>1 DEF WorkLeft
<1>5. more \in Nat
  BY <1>1, WorkTypes, AttemptsCount
<1> HIDE DEF most, left, after
<1>6. CASE attempt'[t] = attempt[t] /\ after < left
  <2>1. WorkLeft(t)' = more + after
    BY <1>4, <1>6
  <2> HIDE DEF more
  <2>2. QED  BY <1>2, <1>3, <1>4, <1>5, <1>6, <2>1
<1>7. CASE attempt'[t] = attempt[t] + 1 /\ after <= most
  <2>1. attempt[t] \in 1 .. Attempts /\ Attempts \in Nat /\ attempt[t] + 1 <= Attempts
    <3>1. attempt'[t] \in 1 .. Attempts /\ Attempts \in Nat
      BY ConstantsTyped DEF Inv, CallTyped
    <3>2. QED  BY <1>7, <3>1, WorkTypes
  <2>2. (Attempts - attempt'[t]) * most = more - most
    BY <1>1, <1>7, <2>1, AttemptsCount
  <2> HIDE DEF more
  <2>3. WorkLeft(t)' = more - most + after
    BY <1>4, <2>2
  <2>4. QED  BY <1>1, <1>2, <1>3, <1>4, <1>5, <1>7, <2>3
<1>8. QED  BY <1>6, <1>7 DEF left, after, most

\* A get() that awaits a provider has no more entries left than it began with.
LEMMA TryEntriesShort ==
    ASSUME RegistryInv, NEW t \in Tasks, NEW c \in Countries, NEW entries \in Seq(Entries),
           NEW refused, TryEntries(t, c, entries, refused), Asking(t)'
    PROVE  Len(gets'[t].rest) <= Len(entries)
<1> DEFINE rest == FromNext(c, entries)
<1>1. gets \in [Tasks -> GetRecord]
  BY DEF RegistryInv, GetsInv
<1>2. gets'[t] # NotAsking
  BY DEF Asking, NotAsking
<1>3. gets' # [gets EXCEPT ![t] = NotAsking]
  BY <1>1, <1>2
<1>4. gets' = [gets EXCEPT ![t] = [country |-> c, rest |-> rest, refused |-> refused]]
  BY <1>3 DEF TryEntries, Hand
<1>5. gets'[t].rest = rest
  BY <1>1, <1>4
<1>6. QED  BY <1>5, FromNextKeeps

LEMMA GetShort ==
    ASSUME RegistryInv, NEW t \in Tasks, NEW c \in Countries, Get(t, c), Asking(t)'
    PROVE  Len(gets'[t].rest) <= Len(Pools[c])
<1>1. PICK entries \in Shuffles[c] : TryEntries(t, c, entries, {})
  BY DEF Get
<1>2. entries \in Seq(Entries) /\ Len(entries) = Len(Pools[c])
  BY ShuffleKeeps
<1>3. QED  BY <1>1, <1>2, TryEntriesShort

\* Every provider that fails a get() leaves it fewer entries.
LEMMA FailureShortens ==
    ASSUME RegistryInv, NEW t \in Tasks, ProviderFails(t), Asking(t)'
    PROVE  Len(gets'[t].rest) <= Len(gets[t].rest) - 1
<1> DEFINE rest == gets[t].rest
<1>1. gets[t].country \in Countries /\ rest \in Seq(Entries) /\ rest # <<>>
  BY DEF ProviderFails, RegistryInv, GetsInv, GetRecord, Asking
<1>2. TryEntries(t, gets[t].country, Tail(rest), gets[t].refused \cup {Head(rest)})
  BY DEF ProviderFails, Remaining
<1> HIDE DEF rest
<1>3. Tail(rest) \in Seq(Entries) /\ Len(Tail(rest)) = Len(rest) - 1
  BY <1>1
<1>4. Len(gets'[t].rest) <= Len(Tail(rest))
  BY <1>1, <1>2, <1>3, TryEntriesShort
<1>5. QED  BY <1>3, <1>4 DEF rest

\* What a step does not concern of a task keeps its work.
LEMMA SameWork ==
    ASSUME NEW t \in Tasks, pc'[t] = pc[t], country'[t] = country[t], attempt'[t] = attempt[t],
           wait'[t] = wait[t], gets'[t] = gets[t]
    PROVE  WorkLeft(t)' = WorkLeft(t) /\ (RestFits(t) => RestFits(t)')
  BY DEF WorkLeft, MostOfAttempt, LeftOfAttempt, RestFits

\* A step concerns one task only.
Spares(t) ==
    \A u \in Tasks \ {t} :
        /\ pc'[u] = pc[u] /\ country'[u] = country[u] /\ attempt'[u] = attempt[u]
        /\ wait'[u] = wait[u] /\ gets'[u] = gets[u]

\* After get_proxy there is at most a whole get() and a request to be done.
LEMMA GetLeaves ==
    ASSUME Inv, NEW t \in Tasks, NEW most \in Nat, GetProxy(t),
           \A u \in Tasks \ {t} : gets'[u] = gets[u],
           Asking(t)' => Len(gets'[t].rest) <= most
    PROVE  /\ pc'[t] # "idle" /\ LeftOfAttempt(t)' <= Attempts + 2 + most
           /\ pc'[t] = "get" => Len(gets'[t].rest) <= most
           /\ \A u \in Tasks \ {t} : pc'[u] = pc[u]
<1>1. /\ \A u \in Tasks \ {t} : pc'[u] = pc[u]
      /\ pc'[t] \in {"get", "fetch"} /\ (pc'[t] = "get" <=> Asking(t)')
  BY AfterGet DEF Inv
<1>2. Attempts \in Nat
  BY ConstantsTyped
<1>3. CASE pc'[t] = "get"
  <2>1. LeftOfAttempt(t)' = Attempts + 2 + Len(gets'[t].rest)
    BY <1>3 DEF LeftOfAttempt
  <2>2. Len(gets'[t].rest) <= most
    BY <1>1, <1>3
  <2>3. Asking(t)' => gets'[t].rest # <<>>
    BY DEF Asking
  <2>4. QED  BY <1>1, <1>2, <1>3, <2>1, <2>2
<1>4. CASE pc'[t] = "fetch"
  <2>1. LeftOfAttempt(t)' = Attempts + 2
    BY <1>4 DEF LeftOfAttempt
  <2>2. QED  BY <1>1, <1>2, <1>4, <2>1
<1>5. QED  BY <1>1, <1>3, <1>4

LEMMA GotProxyWork ==
    ASSUME Inv, Inv', RestsFit, NEW t \in Tasks, GotProxy(t)
    PROVE  WorkLeft(t)' < WorkLeft(t) /\ RestFits(t)' /\ Spares(t)
<1> DEFINE rest == gets[t].rest
<1>1. pc[t] = "get" /\ GetProxy(t) /\ UNCHANGED <<country, attempt, wait>>
  BY DEF GotProxy
<1>2. /\ \A u \in Tasks \ {t} : gets'[u] = gets[u]
      /\ Asking(t)' => Len(gets'[t].rest) <= Len(rest) - 1
  <2>1. CASE ProviderFails(t)
    <3>1. \A u \in Tasks \ {t} : gets'[u] = gets[u]
      BY <2>1, FailureKeeps DEF Inv, Got
    <3>2. QED  BY <2>1, <3>1, FailureShortens DEF Inv
  <2>2. ASSUME NEW p \in Supplied, ProviderAnswers(t, p)
        PROVE  ~Asking(t)' /\ \A u \in Tasks \ {t} : gets'[u] = gets[u]
    BY <2>2, AnswerKeeps DEF Inv
  <2>3. QED  BY <2>1, <2>2 DEF GotProxy
<1>3. Len(rest) - 1 \in Nat /\ Len(rest) \in Nat
  <2>1. rest \in Seq(Entries) /\ rest # <<>>
    BY <1>1, WorkTypes DEF Inv, CallTyped, Asking
  <2> HIDE DEF rest
  <2>2. QED  BY <2>1
<1> HIDE DEF rest
<1>4. /\ pc'[t] # "idle" /\ LeftOfAttempt(t)' <= Attempts + 2 + (Len(rest) - 1)
      /\ pc'[t] = "get" => Len(gets'[t].rest) <= Len(rest) - 1
      /\ \A u \in Tasks \ {t} : pc'[u] = pc[u]
  BY <1>1, <1>2, <1>3, GetLeaves
<1>5. LeftOfAttempt(t) = Attempts + 2 + Len(rest)
  BY <1>1 DEF LeftOfAttempt, rest
<1>6. WorkLeft(t)' < WorkLeft(t)
  <2>1. LeftOfAttempt(t)' \in Nat
    BY <1>4, WorkTypedAfter DEF WorkTyped
  <2>2. LeftOfAttempt(t)' < LeftOfAttempt(t)
    BY <1>3, <1>4, <1>5, <2>1, ConstantsTyped
  <2>3. QED  BY <1>1, <1>4, <2>2, LessLeft
<1>7. RestFits(t)'
  <2>1. Len(rest) <= Len(Pools[country[t]]) /\ Len(Pools[country[t]]) \in Nat
    BY <1>1, WorkTypes DEF RestsFit, RestFits, rest
  <2>2. pc'[t] = "get" => Len(gets'[t].rest) \in Nat
    BY WorkTypedAfter DEF WorkTyped
  <2>3. pc'[t] = "get" => Len(gets'[t].rest) <= Len(Pools[country[t]])
    BY <1>3, <1>4, <2>1, <2>2
  <2>4. QED  BY <1>1, <2>3 DEF RestFits
<1>8. Spares(t)
  BY <1>1, <1>2, <1>4 DEF Spares
<1>9. QED  BY <1>6, <1>7, <1>8

LEMMA RetryWork ==
    ASSUME Inv, Inv', NEW t \in Tasks, Retry(t)
    PROVE  WorkLeft(t)' < WorkLeft(t) /\ RestFits(t)' /\ Spares(t)
<1> DEFINE most == Len(Pools[country[t]])
<1>1. /\ pc[t] = "sleep" /\ GetProxy(t) /\ UNCHANGED <<country, wait>> /\ Get(t, country[t])
      /\ attempt' = [attempt EXCEPT ![t] = attempt[t] + 1] /\ country[t] \in Countries
  BY WorkTypes DEF Retry, FollowingAttempt
<1>2. /\ \A u \in Tasks \ {t} : gets'[u] = gets[u]
      /\ Asking(t)' => Len(gets'[t].rest) <= most
  BY <1>1, GetKeeps, GetShort DEF Inv, Got
<1>3. most \in Nat
  BY WorkTypes
<1> HIDE DEF most
<1>4. /\ pc'[t] # "idle" /\ LeftOfAttempt(t)' <= Attempts + 2 + most
      /\ pc'[t] = "get" => Len(gets'[t].rest) <= most
      /\ \A u \in Tasks \ {t} : pc'[u] = pc[u]
  BY <1>1, <1>2, <1>3, GetLeaves
<1>5. attempt'[t] = attempt[t] + 1 /\ \A u \in Tasks \ {t} : attempt'[u] = attempt[u]
  BY <1>1 DEF Inv, CallTyped
<1>6. WorkLeft(t)' < WorkLeft(t)
  BY <1>1, <1>4, <1>5, LessLeft DEF MostOfAttempt, most
<1>7. RestFits(t)' /\ Spares(t)
  BY <1>1, <1>2, <1>4, <1>5 DEF RestFits, Spares, most
<1>8. QED  BY <1>6, <1>7

LEMMA FetchWork ==
    ASSUME Inv, Inv', NEW t \in Tasks,
           FetchSucceeds(t) \/ \E error \in Errors : FetchFails(t, error)
    PROVE  WorkLeft(t)' < WorkLeft(t) /\ RestFits(t)' /\ Spares(t)
<1>1. pc[t] = "fetch" /\ UNCHANGED <<country, attempt, gets>>
  BY DEF FetchSucceeds, FetchFails, Ends, Release
<1>2. CASE pc' = [pc EXCEPT ![t] = "idle"] /\ UNCHANGED wait
  <2>1. pc'[t] = "idle" /\ \A u \in Tasks \ {t} : pc'[u] = pc[u]
    BY <1>2 DEF Inv, CallTyped
  <2>2. WorkLeft(t)' = 0
    BY <2>1 DEF WorkLeft
  <2>3. WorkLeft(t) \in Nat /\ WorkLeft(t) > 0
    BY <1>1, WorkIsNatural
  <2>4. RestFits(t)' /\ Spares(t)
    BY <1>1, <1>2, <2>1 DEF RestFits, Spares
  <2>5. QED  BY <2>2, <2>3, <2>4
<1>3. CASE pc' = [pc EXCEPT ![t] = "sleep"] /\ wait' = [wait EXCEPT ![t] = Pause(attempt[t])]
  <2>1. pc'[t] = "sleep" /\ \A u \in Tasks \ {t} : pc'[u] = pc[u] /\ wait'[u] = wait[u]
    BY <1>3 DEF Inv, CallTyped
  <2>2. wait'[t] = attempt[t]
    BY <1>3 DEF Inv, CallTyped, Pause
  <2>3. LeftOfAttempt(t)' = 1 + attempt[t] /\ LeftOfAttempt(t) = Attempts + 2
    BY <1>1, <2>1, <2>2 DEF LeftOfAttempt
  <2>4. LeftOfAttempt(t)' < LeftOfAttempt(t)
    <3>1. attempt[t] \in 1 .. Attempts /\ Attempts \in Nat
      BY WorkTypes
    <3>2. QED  BY <2>3, <3>1
  <2>5. WorkLeft(t)' < WorkLeft(t)
    BY <1>1, <2>1, <2>4, LessLeft
  <2>6. RestFits(t)' /\ Spares(t)
    BY <1>1, <2>1 DEF RestFits, Spares
  <2>7. QED  BY <2>5, <2>6
<1>4. QED  BY <1>2, <1>3 DEF FetchSucceeds, FetchFails, Ends

LEMMA StepWork ==
    ASSUME Inv, Inv', RestsFit, NEW t \in Tasks, Step(t)
    PROVE  WorkLeft(t)' < WorkLeft(t) /\ RestFits(t)' /\ Spares(t)
  BY GotProxyWork, RetryWork, FetchWork DEF Step

LEMMA CallFits ==
    ASSUME Inv, NEW t \in Tasks, NEW c \in Countries, Call(t, c)
    PROVE  RestFits(t)' /\ Spares(t)
<1>1. /\ GetProxy(t) /\ UNCHANGED wait /\ Get(t, c)
      /\ attempt' = [attempt EXCEPT ![t] = 1] /\ country' = [country EXCEPT ![t] = c]
  BY DEF Call
<1>2. /\ \A u \in Tasks \ {t} : gets'[u] = gets[u]
      /\ Asking(t)' => Len(gets'[t].rest) <= Len(Pools[c])
  BY <1>1, GetKeeps, GetShort DEF Inv, Got
<1>3. /\ \A u \in Tasks \ {t} : pc'[u] = pc[u]
      /\ pc'[t] = "get" => Asking(t)'
  BY <1>1, <1>2, AfterGet DEF Inv
<1>4. /\ country'[t] = c
      /\ \A u \in Tasks \ {t} : attempt'[u] = attempt[u] /\ country'[u] = country[u]
  BY <1>1 DEF Inv, CallTyped
<1>5. QED  BY <1>1, <1>2, <1>3, <1>4 DEF RestFits, Spares

\* Time shortens the pauses, and nothing else of a call.
LEMMA TickWork ==
    ASSUME Inv, Inv', Tick, NEW t \in Tasks
    PROVE  /\ WorkLeft(t)' <= WorkLeft(t)
           /\ pc[t] = "sleep" /\ wait[t] > 0 => WorkLeft(t)' < WorkLeft(t)
           /\ RestFits(t) => RestFits(t)'
<1>1. /\ UNCHANGED <<pc, country, attempt, gets>>
      /\ wait'[t] = IF wait[t] > 0 THEN wait[t] - 1 ELSE 0
  BY DEF Tick, Age
<1>2. WorkLeft(t) \in Nat /\ wait[t] \in Nat
  BY WorkIsNatural, WorkTypes
<1>3. CASE pc[t] = "sleep" /\ wait[t] > 0
  <2>1. LeftOfAttempt(t)' = wait[t] /\ LeftOfAttempt(t) = 1 + wait[t]
    BY <1>1, <1>2, <1>3 DEF LeftOfAttempt
  <2>2. LeftOfAttempt(t)' < LeftOfAttempt(t)
    BY <1>2, <2>1
  <2>3. WorkLeft(t)' < WorkLeft(t)
    BY <1>1, <1>3, <2>2, LessLeft
  <2>4. WorkLeft(t)' \in Nat
    BY WorkTypedAfter DEF WorkTyped
  <2>5. QED  BY <1>1, <1>2, <2>3, <2>4 DEF RestFits
<1>4. CASE pc[t] # "sleep" \/ ~(wait[t] > 0)
  <2>1. pc[t] = "sleep" => wait'[t] = wait[t]
    BY <1>1, <1>2, <1>4
  <2>2. pc[t] # "idle" => LeftOfAttempt(t)' = LeftOfAttempt(t)
    <3>1. pc[t] \in {"idle", "get", "fetch", "sleep"}
      BY WorkTypes
    <3>2. QED  BY <1>1, <2>1, <3>1 DEF LeftOfAttempt
  <2>3. WorkLeft(t)' = WorkLeft(t)
    BY <1>1, <2>2 DEF WorkLeft, MostOfAttempt
  <2>4. QED  BY <1>1, <1>2, <1>4, <2>3 DEF RestFits
<1>5. QED  BY <1>3, <1>4

LEMMA WorkStep ==
    ASSUME Inv, RestsFit, [Next]_vars
    PROVE  RestsFit' /\ WorkGoesDown
<1>1. Inv'
  BY InvStep
<1>2. ASSUME NEW t \in Tasks, Step(t)
      PROVE  RestFits(t)' /\ Spares(t)
  BY <1>1, <1>2, StepWork
<1>3. ASSUME NEW t \in Tasks, Step(t)
      PROVE  WorkLeft(t)' < WorkLeft(t)
  BY <1>1, <1>3, StepWork
<1>4. ASSUME NEW t \in Tasks, Spares(t), NEW u \in Tasks \ {t}
      PROVE  WorkLeft(u)' = WorkLeft(u) /\ RestFits(u)'
  BY <1>4, SameWork DEF Spares, RestsFit
<1>5. \A t \in Tasks : WorkLeft(t) \in Nat /\ WorkLeft(t)' \in Nat
  BY <1>1, WorkIsNatural, WorkTypedAfter DEF WorkTyped
<1>6. ASSUME NEW t \in Tasks
      PROVE  /\ RestFits(t)'
             /\ WorkLeft(t)' <= WorkLeft(t) \/ \E c \in Countries : Call(t, c)
  <2>1. ASSUME NEW u \in Tasks, Step(u)
        PROVE  RestFits(t)' /\ WorkLeft(t)' <= WorkLeft(t)
    BY <1>2, <1>3, <1>4, <1>5, <2>1
  <2>2. ASSUME NEW u \in Tasks, NEW c \in Countries, Call(u, c)
        PROVE  /\ RestFits(t)'
               /\ WorkLeft(t)' <= WorkLeft(t) \/ \E d \in Countries : Call(t, d)
    <3>1. RestFits(u)' /\ Spares(u)
      BY <2>2, CallFits
    <3>2. QED  BY <1>4, <1>5, <2>2, <3>1
  <2>3. CASE Tick
    BY <1>1, <2>3, TickWork DEF RestsFit
  <2>4. CASE AdminRotates \/ UNCHANGED vars
    <3>1. UNCHANGED <<pc, country, attempt, wait, gets>>
      BY <2>4, RotationKeeps DEF AdminRotates, callVars, vars, registryVars, Inv
    <3>2. QED  BY <1>5, <3>1, SameWork DEF RestsFit
  <2>5. QED  BY <2>1, <2>2, <2>3, <2>4 DEF Next
<1>7. \A t \in Tasks : Tick /\ pc[t] = "sleep" /\ wait[t] > 0 => WorkLeft(t)' < WorkLeft(t)
  BY <1>1, TickWork
<1>8. QED  BY <1>3, <1>6, <1>7 DEF RestsFit, WorkGoesDown

-----------------------------------------------------------------------------
(* Theorems.                                                                   *)

\* The registry and the calls keep their types, whatever the pools are.
THEOREM CallsTyped == Spec => []TypeOK
<1>1. Inv => TypeOK
  BY DEF Inv, RegistryInv, MetaTyped, CacheTyped, GetsInv, HandedInv, CallTyped, TypeOK,
         RegistryTypeOK
<1>2. QED  BY <1>1, InvInit, InvStep, PTL DEF Spec

\* ProxyRegistry.get: None only for a country without direct proxies all of whose
\* providers with a url have failed this get(), for any pools and shuffles.
THEOREM NoneMeansExhausted == Spec => []NoneOnlyWhenExhausted
<1>1. Inv => NoneOnlyWhenExhausted
  BY DEF Inv, RegistryInv, HandedInv
<1>2. QED  BY <1>1, InvInit, InvStep, PTL DEF Spec

\* retry_async: the failures that do not go away end the call at once, the others
\* only with its last attempt, for any number of attempts.
THEOREM RetriesAreWorthIt == Spec => []RetriedWhenWorthIt
<1>1. Inv => RetriedWhenWorthIt
  BY DEF Inv
<1>2. QED  BY <1>1, InvInit, InvStep, PTL DEF Spec

\* retry_async and rotate(): what the cache hands out after a proxy failure has been
\* supplied since, however the calls of the process interleave.
THEOREM CacheIsLeft == Spec => []RetryLeavesCachedProxy
<1>1. Inv => RetryLeavesCachedProxy
  BY DEF Inv, LeavesInv, RetryLeavesCachedProxy
<1>2. QED  BY <1>1, InvInit, InvStep, PTL DEF Spec

\* DirectPool.get_random under DIRECT_PROXY_TTL: the direct proxies of a country are
\* used in turn, however many calls draw from them at a time.
THEOREM DirectProxiesAreSpread == Spec => DirectProxiesRest
<1>1. Inv /\ [Next]_vars =>
         [\A t \in Tasks, c \in Countries :
            HandsDirect(t, c) /\ ~Rested(c, handed'[t].proxy)
                => \A p \in Direct[c] : ~Rested(c, p)]_registryVars
  BY DirectIsSpread, UnrestedIfNoneRested
<1>2. QED  BY <1>1, InvInit, InvStep, PTL DEF Spec, DirectProxiesRest

\* A call has only so much to do: an attempt asks every entry of its country once, there
\* are Attempts attempts, and each step of the call, and each tick of its pauses, leaves
\* less of them, whatever other calls, rotations and lifetimes do meanwhile.
THEOREM CallsRunOut ==
    Spec => /\ [](\A t \in Tasks : WorkLeft(t) \in Nat /\ (WorkLeft(t) = 0 <=> pc[t] = "idle"))
            /\ [][WorkGoesDown]_vars
<1>1. Init => Inv /\ RestsFit
  <2>1. Init => RestsFit
    BY DEF Init, RestsFit, RestFits
  <2>2. QED  BY <2>1, InvInit
<1>2. Inv /\ RestsFit /\ [Next]_vars => (Inv /\ RestsFit)' /\ [WorkGoesDown]_vars
  BY InvStep, WorkStep
<1>3. Inv => \A t \in Tasks : WorkLeft(t) \in Nat /\ (WorkLeft(t) = 0 <=> pc[t] = "idle")
  <2>1. ASSUME Inv, NEW t \in Tasks
        PROVE  WorkLeft(t) \in Nat /\ (WorkLeft(t) = 0 <=> pc[t] = "idle")
    <3>1. WorkLeft(t) \in Nat /\ (pc[t] # "idle" => WorkLeft(t) > 0)
      BY <2>1, WorkIsNatural
    <3>2. pc[t] = "idle" => WorkLeft(t) = 0
      BY DEF WorkLeft
    <3>3. QED  BY <3>1, <3>2
  <2>2. QED  BY <2>1
<1>4. QED  BY <1>1, <1>2, <1>3, PTL DEF Spec
=============================================================================
