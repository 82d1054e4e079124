------------------------- MODULE ServiceCacheProofs -------------------------
(* Proofs about ServiceCache, for every value of its constants.                *)
EXTENDS ServiceCache, SequenceFacts, FiniteSetTheorems, SequenceTheorems, TLAPS

-----------------------------------------------------------------------------
(* The operations of the OrderedDict.                                          *)

OrderOK ==
    /\ order \in Seq(Keys)
    /\ Distinct(order)
    /\ ToSet(order) = DOMAIN store

\* Position finds the place of a cached key.
LEMMA PositionOfCached ==
    ASSUME OrderOK, NEW k \in DOMAIN store
    PROVE  Position(k) \in 1 .. Len(order) /\ order[Position(k)] = k
<1>1. \E i \in DOMAIN order : order[i] = k
  BY DEF OrderOK, ToSet
<1> QED BY <1>1 DEF Position, OrderOK

\* del leaves the other keys, in the same order.
LEMMA OrderWithoutFacts ==
    ASSUME OrderOK, NEW k \in Keys
    PROVE  LET o == OrderWithout(k)
           IN  /\ o \in Seq(Keys)
               /\ Distinct(o)
               /\ ToSet(o) = (DOMAIN store) \ {k}
               /\ Len(o) = IF k \in DOMAIN store THEN Len(order) - 1 ELSE Len(order)
               /\ \A i, j \in 1 .. Len(o) : i < j =>
                     \E p, q \in 1 .. Len(order) :
                        p < q /\ o[i] = order[p] /\ o[j] = order[q]
<1>1. CASE k \in DOMAIN store
  <2> DEFINE p == Position(k)
             o == RemoveAt(order, p)
  <2>1. p \in 1 .. Len(order) /\ order[p] = k
    BY <1>1, PositionOfCached
  <2> HIDE DEF p
  <2>2. order \in Seq(Keys) /\ Distinct(order)
    BY DEF OrderOK
  <2>3. /\ o \in Seq(Keys) /\ Len(o) = Len(order) - 1
        /\ \A j \in 1 .. Len(order) - 1 :
              o[j] = IF j < p THEN order[j] ELSE order[j + 1]
    BY <2>1, <2>2, RemoveAtElements
  <2>4. Distinct(o) /\ ToSet(o) = ToSet(order) \ {k}
    BY <2>1, <2>2, RemoveAtDistinct
  <2> HIDE DEF o
  <2>5. ASSUME NEW i \in 1 .. Len(o), NEW j \in 1 .. Len(o), i < j
        PROVE  \E a, b \in 1 .. Len(order) :
                  a < b /\ o[i] = order[a] /\ o[j] = order[b]
    <3> DEFINE at(m) == IF m < p THEN m ELSE m + 1
    <3>1. /\ at(i) \in 1 .. Len(order) /\ at(j) \in 1 .. Len(order) /\ at(i) < at(j)
          /\ o[i] = order[at(i)] /\ o[j] = order[at(j)]
      BY <2>1, <2>2, <2>3, <2>5
    <3> QED BY <3>1
  <2>6. OrderWithout(k) = o
    BY <1>1 DEF OrderWithout, o, p
  <2>7. /\ ToSet(o) = (DOMAIN store) \ {k} /\ o \in Seq(Keys)
        /\ Len(o) = Len(order) - 1
    BY <1>1, <2>3, <2>4 DEF OrderOK
  <2> QED BY <1>1, <2>4, <2>5, <2>6, <2>7, SMTT(30)
<1>2. CASE k \notin DOMAIN store
  <2>1. OrderWithout(k) = order
    BY <1>2 DEF OrderWithout
  <2> QED BY <1>2, <2>1 DEF OrderOK
<1> QED BY <1>1, <1>2

\* move_to_end puts k after everything else and leaves the rest in order.
LEMMA MoveToEndFacts ==
    ASSUME OrderOK, NEW k \in Keys
    PROVE  LET o == MoveToEnd(k)
           IN  /\ o \in Seq(Keys)
               /\ Distinct(o)
               /\ ToSet(o) = DOMAIN store \cup {k}
               /\ Len(o) = IF k \in DOMAIN store THEN Len(order) ELSE Len(order) + 1
               /\ Len(o) > 0 /\ o[Len(o)] = k
               /\ \A i, j \in 1 .. Len(o) : i < j =>
                     \/ o[j] = k
                     \/ \E p, q \in 1 .. Len(order) :
                           p < q /\ o[i] = order[p] /\ o[j] = order[q]
<1> DEFINE w == OrderWithout(k)
           o == MoveToEnd(k)
<1>1. /\ w \in Seq(Keys) /\ Distinct(w) /\ ToSet(w) = (DOMAIN store) \ {k}
      /\ Len(w) = IF k \in DOMAIN store THEN Len(order) - 1 ELSE Len(order)
      /\ \A i, j \in 1 .. Len(w) : i < j =>
            \E p, q \in 1 .. Len(order) :
               p < q /\ w[i] = order[p] /\ w[j] = order[q]
  BY OrderWithoutFacts
<1>2. o = Append(w, k)
  BY DEF MoveToEnd
<1> HIDE DEF w, o
<1>3. /\ o \in Seq(Keys) /\ Distinct(o) /\ ToSet(o) = ToSet(w) \cup {k}
      /\ Len(o) = Len(w) + 1
  BY <1>1, <1>2, AppendDistinct
<1>4. /\ o[Len(o)] = k
      /\ \A i \in 1 .. Len(w) : o[i] = w[i]
  BY <1>1, <1>2, <1>3
<1>5. ASSUME NEW i \in 1 .. Len(o), NEW j \in 1 .. Len(o), i < j, o[j] # k
      PROVE  \E p, q \in 1 .. Len(order) :
                p < q /\ o[i] = order[p] /\ o[j] = order[q]
  <2>1. i \in 1 .. Len(w) /\ j \in 1 .. Len(w)
    BY <1>1, <1>3, <1>4, <1>5
  <2> QED BY <2>1, <1>1, <1>4, <1>5
<1>6. Len(order) \in Nat /\ Len(w) \in Nat
  BY <1>1 DEF OrderOK
<1> QED BY <1>1, <1>3, <1>4, <1>5, <1>6 DEF o

\* Eviction keeps the most recently used max_size keys, in order.
LEMMA EvictedFacts ==
    ASSUME ConstantsAssumption, NEW o \in Seq(Keys), Distinct(o), Len(o) <= MaxSize + 1
    PROVE  /\ Evicted(o) \in Seq(Keys)
           /\ Distinct(Evicted(o))
           /\ Len(Evicted(o)) <= MaxSize
           /\ IF Len(o) > MaxSize
              THEN /\ Len(Evicted(o)) = MaxSize
                   /\ \A i \in 1 .. MaxSize : Evicted(o)[i] = o[i + 1]
                   /\ ToSet(Evicted(o)) = ToSet(o) \ {o[1]}
              ELSE Evicted(o) = o
<1> MaxSize \in Nat \ {0}
  BY DEF ConstantsAssumption
<1>1. CASE Len(o) > MaxSize
  <2>1. Len(o) = MaxSize + 1
    BY <1>1
  <2>2. Evicted(o) = SubSeq(o, 2, Len(o))
    BY <1>1, <2>1 DEF Evicted
  <2> DEFINE e == SubSeq(o, 2, Len(o))
  <2>3. /\ e \in Seq(Keys) /\ Len(e) = MaxSize
        /\ \A i \in 1 .. MaxSize : e[i] = o[i + 1]
        /\ DOMAIN e = 1 .. MaxSize /\ DOMAIN o = 1 .. MaxSize + 1
    BY <2>1
  <2> HIDE DEF e
  <2>4. Distinct(e)
    <3>1. SUFFICES ASSUME NEW a \in 1 .. MaxSize, NEW b \in 1 .. MaxSize, e[a] = e[b]
                   PROVE  a = b
      BY <2>3 DEF Distinct
    <3>2. a + 1 \in DOMAIN o /\ b + 1 \in DOMAIN o /\ o[a + 1] = o[b + 1]
      BY <3>1, <2>3
    <3>3. a + 1 = b + 1
      BY <3>2 DEF Distinct
    <3> QED BY <3>3
  <2>5. ASSUME NEW i \in 1 .. MaxSize
        PROVE  e[i] \in ToSet(o) \ {o[1]}
    <3>1. i + 1 \in DOMAIN o /\ 1 \in DOMAIN o /\ i + 1 # 1 /\ e[i] = o[i + 1]
      BY <2>3
    <3> QED BY <3>1 DEF Distinct, ToSet
  <2>6. ASSUME NEW x \in ToSet(o) \ {o[1]}
        PROVE  x \in ToSet(e)
    <3>1. PICK m \in 1 .. MaxSize + 1 : x = o[m] /\ m # 1
      BY <2>3 DEF ToSet
    <3>2. m - 1 \in 1 .. MaxSize /\ e[m - 1] = x
      BY <3>1, <2>3
    <3> QED BY <3>2, <2>3 DEF ToSet
  <2>7. ToSet(e) = ToSet(o) \ {o[1]}
    <3>1. ASSUME NEW x \in ToSet(e)
          PROVE  x \in ToSet(o) \ {o[1]}
      <4>1. PICK i \in 1 .. MaxSize : x = e[i]
        BY <2>3 DEF ToSet
      <4> QED BY <4>1, <2>5
    <3> QED BY <3>1, <2>6
  <2> QED BY <1>1, <2>2, <2>3, <2>4, <2>7, SMTT(30) DEF e
<1>2. CASE ~(Len(o) > MaxSize)
  BY <1>2 DEF Evicted
<1> QED BY <1>1, <1>2

-----------------------------------------------------------------------------
(* Type correctness.                                                           *)

\* A fetching task has a key and began no later than now.
TaskOK ==
    \A t \in Tasks : pc[t] = "fetching" => key[t] \in Keys /\ start[t] <= now

OrderBounded == Len(order) <= MaxSize

TypeInv == TypeOK /\ TaskOK /\ OrderBounded

LEMMA TypeInvOrder == TypeOK => OrderOK
  BY DEF TypeOK, OrderOK, Distinct

LEMMA OrderOKType ==
    ASSUME OrderOK'
    PROVE  /\ order' \in Seq(Keys)
           /\ (ToSet(order) = DOMAIN store)'
           /\ (\A i, j \in DOMAIN order : order[i] = order[j] => i = j)'
  BY DEF OrderOK, Distinct

\* What a put leaves in the cache: never more than max_size keys, the one just
\* put among them, and whatever has been evicted was the first in the order.
LEMMA PutFacts ==
    ASSUME ConstantsAssumption, TypeInv, NEW k \in Keys
    PROVE  LET o == Evicted(MoveToEnd(k))
           IN  /\ o \in Seq(Keys)
               /\ Distinct(o)
               /\ Len(o) <= MaxSize
               /\ k \in ToSet(o)
               /\ ToSet(o) \subseteq DOMAIN store \cup {k}
<1> DEFINE m == MoveToEnd(k)
           o == Evicted(m)
<1>1. /\ m \in Seq(Keys) /\ Distinct(m) /\ ToSet(m) = DOMAIN store \cup {k}
      /\ Len(m) = IF k \in DOMAIN store THEN Len(order) ELSE Len(order) + 1
      /\ Len(m) > 0 /\ m[Len(m)] = k
  BY MoveToEndFacts, TypeInvOrder DEF TypeInv
<1> HIDE DEF m
<1>2. Len(m) <= MaxSize + 1 /\ MaxSize \in Nat \ {0}
  <2>1. Len(order) \in Nat /\ Len(order) <= MaxSize /\ MaxSize \in Nat \ {0}
    BY DEF TypeInv, OrderBounded, TypeOK, ConstantsAssumption
  <2> QED BY <1>1, <2>1
<1>3. /\ o \in Seq(Keys) /\ Distinct(o) /\ Len(o) <= MaxSize
      /\ IF Len(m) > MaxSize THEN ToSet(o) = ToSet(m) \ {m[1]} ELSE o = m
  BY <1>1, <1>2, EvictedFacts
<1>4. k \in ToSet(m) /\ (Len(m) > MaxSize => m[1] # k)
  BY <1>1, <1>2 DEF Distinct, ToSet
<1> QED BY <1>1, <1>3, <1>4 DEF m

LEMMA TypeInit == ConstantsAssumption /\ Init => TypeInv
<1> SUFFICES ASSUME ConstantsAssumption, Init PROVE TypeInv
  OBVIOUS
<1>1. DOMAIN store = {} /\ store \in [DOMAIN store -> Entry] /\ ToSet(order) = {}
  BY DEF Init, Entry, ToSet
<1>2. Len(order) <= MaxSize
  BY DEF Init, ConstantsAssumption
<1> QED BY <1>1, <1>2 DEF Init, TypeInv, TypeOK, TaskOK, OrderBounded

LEMMA TypeNext == ConstantsAssumption /\ TypeInv /\ [Next]_vars => TypeInv'
<1> SUFFICES ASSUME ConstantsAssumption, TypeInv, [Next]_vars PROVE TypeInv'
  OBVIOUS
<1> USE DEF TypeInv
<1>0. OrderOK /\ Len(order) \in Nat
  BY TypeInvOrder DEF TypeOK
<1>1. ASSUME NEW t \in Tasks, NEW k \in Keys, Hit(t, k) PROVE TypeInv'
  <2>1. k \in DOMAIN store /\ DOMAIN store \cup {k} = DOMAIN store
    BY <1>1 DEF Hit, Cached
  <2>2. OrderOK' /\ Len(order') = Len(order)
    BY <1>0, <1>1, <2>1, MoveToEndFacts DEF Hit, OrderOK
  <2>3. got' \in [Tasks -> Nat] /\ touched' \in [Keys -> SUBSET Keys]
    BY <1>1, <2>1 DEF Hit, Touch, TypeOK, Entry
  <2>4. TypeOK'
    BY <1>1, <2>2, <2>3, OrderOKType DEF Hit, TypeOK
  <2>5. TaskOK' /\ OrderBounded'
    BY <1>1, <2>2 DEF Hit, TypeOK, TaskOK, OrderBounded
  <2> QED BY <2>4, <2>5
<1>2. ASSUME NEW t \in Tasks, NEW k \in Keys, Miss(t, k) PROVE TypeInv'
  <2>1. /\ DOMAIN store' = (DOMAIN store) \ {k}
        /\ store' \in [DOMAIN store' -> Entry]
    BY <1>2 DEF Miss, Without, TypeOK
  <2>2. OrderOK' /\ Len(order') <= Len(order)
    BY <1>0, <1>2, <2>1, OrderWithoutFacts DEF Miss, OrderOK
  <2>3. TypeOK'
    BY <1>2, <2>1, <2>2, OrderOKType DEF Miss, TypeOK
  <2>4. TaskOK'
    BY <1>2 DEF Miss, TypeOK, TaskOK
  <2>5. OrderBounded'
    BY <2>2, <2>3, <1>0 DEF OrderBounded, TypeOK, ConstantsAssumption
  <2> QED BY <2>3, <2>4, <2>5
<1>3. ASSUME NEW t \in Tasks, UpstreamReads(t) PROVE TypeInv'
  <2>1. Len(since[key[t]]) \in Nat
    BY <1>3 DEF UpstreamReads, TypeOK, TaskOK
  <2> QED BY <1>3, <2>1 DEF UpstreamReads, TypeOK, TaskOK, OrderBounded
<1>4. ASSUME NEW t \in Tasks, FetchReturns(t) PROVE TypeInv'
  <2> DEFINE k == key[t]
             o == Evicted(MoveToEnd(k))
  <2>1. k \in Keys
    BY <1>4 DEF FetchReturns, TaskOK
  <2>2. /\ o \in Seq(Keys) /\ Distinct(o) /\ Len(o) <= MaxSize
        /\ k \in ToSet(o) /\ ToSet(o) \subseteq DOMAIN store \cup {k}
    BY <2>1, PutFacts
  <2>3. /\ store' = [j \in ToSet(o) |-> IF j = k THEN NewEntry(t) ELSE store[j]]
        /\ order' = o
    BY <1>4 DEF FetchReturns
  <2>4. NewEntry(t) \in Entry /\ now + Ttl[k] \in Nat /\ NewEntry(t).expires = now + Ttl[k]
    BY <2>1 DEF NewEntry, Entry, TypeOK, ConstantsAssumption
  <2>5. /\ pc' = [pc EXCEPT ![t] = "answered"]
        /\ start' = [start EXCEPT ![t] = 0]
        /\ promised' = [promised EXCEPT ![k] = NewEntry(t).expires]
        /\ Touch(k)
        /\ UNCHANGED <<now, since, key, got>>
    BY <1>4 DEF FetchReturns
  <2> HIDE DEF k, o
  <2>6. OrderOK' /\ DOMAIN store' \subseteq Keys
    BY <2>1, <2>2, <2>3 DEF OrderOK, TypeOK
  <2>7. store' \in [DOMAIN store' -> Entry]
    BY <2>2, <2>3, <2>4 DEF TypeOK
  <2>8. promised' \in [Keys -> Nat] /\ touched' \in [Keys -> SUBSET Keys]
    BY <2>1, <2>4, <2>5 DEF Touch, TypeOK
  <2>9. TypeOK'
    BY <2>5, <2>6, <2>7, <2>8, OrderOKType DEF TypeOK
  <2>10. TaskOK' /\ OrderBounded'
    BY <2>2, <2>3, <2>5 DEF TypeOK, TaskOK, OrderBounded
  <2> QED BY <2>9, <2>10
<1>5. ASSUME NEW t \in Tasks, FetchFails(t) PROVE TypeInv'
  BY <1>5 DEF FetchFails, TypeOK, TaskOK, OrderBounded
<1>6. ASSUME NEW k \in Keys, Publish(k) PROVE TypeInv'
  <2>1. since' \in [Keys -> Seq(Nat)]
    BY <1>6 DEF Publish, TypeOK
  <2> QED BY <1>6, <2>1 DEF Publish, cacheVars, taskVars, history, TypeOK, TaskOK, OrderBounded
<1>7. CASE Clear
  <2>1. DOMAIN store' = {} /\ store' \in [DOMAIN store' -> Entry] /\ (ToSet(order) = {})'
    BY <1>7 DEF Clear, Entry, ToSet
  <2>2. OrderBounded'
    BY <1>7 DEF Clear, OrderBounded, ConstantsAssumption
  <2>3. TypeOK'
    BY <1>7, <2>1 DEF Clear, taskVars, TypeOK
  <2>4. TaskOK'
    BY <1>7 DEF Clear, taskVars, TaskOK
  <2> QED BY <2>2, <2>3, <2>4
<1>8. CASE Tick
  BY <1>8 DEF Tick, cacheVars, taskVars, history, TypeOK, TaskOK, OrderBounded
<1>9. CASE UNCHANGED vars
  BY <1>9 DEF vars, TypeOK, TaskOK, OrderBounded
<1> QED BY <1>1, <1>2, <1>3, <1>4, <1>5, <1>6, <1>7, <1>8, <1>9 DEF Next

\* Every reachable state is well typed, and the order never has more than
\* max_size keys.
LEMMA TypeInvariant == Spec => []TypeInv
<1>1. Init => TypeInv
  BY TypeInit, ConstantsAssumption
<1>2. TypeInv /\ [Next]_vars => TypeInv'
  BY TypeNext, ConstantsAssumption
<1> QED BY <1>1, <1>2, PTL DEF Spec

\* The variables keep their types, and the LRU order lists exactly the cached
\* keys, each once, through hits, expiries and puts of any number of tasks.
THEOREM TypeCorrect == Spec => []TypeOK
<1>1. TypeInv => TypeOK
  BY DEF TypeInv
<1> QED BY <1>1, TypeInvariant, PTL

\* However hits, expiries, puts and failures of concurrent tasks interleave, the
\* cache never holds more than max_size entries.
THEOREM SizeBounded == Spec => []SizeBound
<1>1. TypeInv => SizeBound
  <2> SUFFICES ASSUME TypeInv PROVE SizeBound
    OBVIOUS
  <2>1. OrderOK
    BY TypeInvOrder DEF TypeInv
  <2>2. Cardinality(DOMAIN store) = Len(order)
    BY <2>1, DistinctCardinality DEF OrderOK
  <2> QED BY <2>2 DEF TypeInv, OrderBounded, SizeBound
<1> QED BY <1>1, TypeInvariant, PTL

-----------------------------------------------------------------------------
(* Overlapping fetches.                                                        *)

LEMMA BesideNext ==
    ASSUME ConstantsAssumption, TypeInv, FetchBesideLiveEntry, [Next]_vars
    PROVE  FetchBesideLiveEntry'
<1> USE DEF TypeInv
<1>1. ASSUME NEW t \in Tasks, NEW k \in Keys, Hit(t, k) PROVE FetchBesideLiveEntry'
  BY <1>1 DEF Hit, TypeOK, FetchBesideLiveEntry
<1>2. ASSUME NEW t \in Tasks, NEW k \in Keys, Miss(t, k) PROVE FetchBesideLiveEntry'
  <2>1. \A j \in DOMAIN store' : j # k /\ j \in DOMAIN store /\ store'[j] = store[j]
    BY <1>2 DEF Miss, Without
  <2> QED BY <1>2, <2>1 DEF Miss, TypeOK, FetchBesideLiveEntry
<1>3. ASSUME NEW t \in Tasks, UpstreamReads(t) PROVE FetchBesideLiveEntry'
  BY <1>3 DEF UpstreamReads, TypeOK, FetchBesideLiveEntry
<1>4. ASSUME NEW t \in Tasks, FetchReturns(t) PROVE FetchBesideLiveEntry'
  <2>1. key[t] \in Keys /\ ToSet(Evicted(MoveToEnd(key[t]))) \subseteq DOMAIN store \cup {key[t]}
    BY <1>4, PutFacts DEF FetchReturns, TaskOK
  <2>2. \A j \in DOMAIN store' :
           IF j = key[t] THEN store'[j].expires = now + Ttl[key[t]]
                         ELSE j \in DOMAIN store /\ store'[j] = store[j]
    BY <1>4, <2>1 DEF FetchReturns, NewEntry
  <2>3. SUFFICES ASSUME NEW u \in Tasks, pc'[u] = "fetching", key'[u] \in DOMAIN store',
                        now' < store'[key'[u]].expires
                 PROVE  start'[u] + Ttl[key'[u]] <= store'[key'[u]].expires
    BY DEF FetchBesideLiveEntry
  <2>4. /\ pc[u] = "fetching" /\ start'[u] = start[u]
        /\ key' = key /\ now' = now
    BY <1>4, <2>3 DEF FetchReturns, TypeOK
  <2>5. start[u] \in Nat /\ now \in Nat /\ start[u] <= now /\ Ttl[key[u]] \in Nat
    BY <2>4 DEF TypeOK, TaskOK, ConstantsAssumption
  <2> QED BY <2>2, <2>3, <2>4, <2>5 DEF FetchBesideLiveEntry
<1>5. ASSUME NEW t \in Tasks, FetchFails(t) PROVE FetchBesideLiveEntry'
  BY <1>5 DEF FetchFails, TypeOK, FetchBesideLiveEntry
<1>6. ASSUME NEW k \in Keys, Publish(k) PROVE FetchBesideLiveEntry'
  BY <1>6 DEF Publish, cacheVars, taskVars, FetchBesideLiveEntry
<1>7. CASE Clear
  BY <1>7 DEF Clear, FetchBesideLiveEntry
<1>8. CASE Tick
  <2>1. \A k \in DOMAIN store : store[k].expires \in Nat
    BY DEF TypeOK, Entry
  <2>2. now \in Nat /\ now' = now + 1 /\ UNCHANGED <<store, pc, key, start>>
    BY <1>8 DEF Tick, cacheVars, taskVars, TypeOK
  <2>3. \A k \in DOMAIN store : now' < store[k].expires => now < store[k].expires
    BY <2>1, <2>2
  <2> QED BY <2>2, <2>3 DEF FetchBesideLiveEntry
<1>9. CASE UNCHANGED vars
  BY <1>9 DEF vars, FetchBesideLiveEntry
<1> QED BY <1>1, <1>2, <1>3, <1>4, <1>5, <1>6, <1>7, <1>8, <1>9 DEF Next

\* A task fetches a key that is cached only if it missed before the entry was
\* put: an entry, once there, never lets a second fetch begin until it expires.
THEOREM OverlapOnly == Spec => []FetchBesideLiveEntry
<1>1. Init => FetchBesideLiveEntry
  BY DEF Init, FetchBesideLiveEntry
<1>2. TypeInv /\ FetchBesideLiveEntry /\ [Next]_vars => FetchBesideLiveEntry'
  BY BesideNext, ConstantsAssumption
<1> QED BY <1>1, <1>2, TypeInvariant, PTL DEF Spec

-----------------------------------------------------------------------------
(* Least recently used.                                                        *)

\* The expiry promised to a cached key is its entry's, and a key further down
\* the order has been used since every key before it.
Kept == \A k \in DOMAIN store : promised[k] = store[k].expires
TouchedSince ==
    \A i, j \in DOMAIN order : i < j => order[j] \in touched[order[i]]

LruInv == TypeInv /\ Kept /\ TouchedSince /\ RecentlyUsedIsKept

\* Using a key only adds to what the other keys have seen used.
LEMMA TouchFacts ==
    ASSUME TypeOK, NEW k \in Keys, Touch(k)
    PROVE  \A j \in Keys : j # k => touched[j] \subseteq touched'[j] /\ k \in touched'[j]
  BY DEF Touch, TypeOK

\* Sets of keys are finite, and a larger one has no smaller cardinality.
LEMMA KeySetCardinality ==
    ASSUME ConstantsAssumption, NEW A \in SUBSET Keys, NEW B \in SUBSET A
    PROVE  /\ IsFiniteSet(A) /\ Cardinality(A) \in Nat
           /\ IsFiniteSet(B) /\ Cardinality(B) \in Nat
           /\ Cardinality(B) <= Cardinality(A)
<1>1. IsFiniteSet(A)
  BY FS_Subset DEF ConstantsAssumption
<1>2. IsFiniteSet(B) /\ Cardinality(B) <= Cardinality(A)
  BY <1>1, FS_Subset
<1> QED BY <1>1, <1>2, FS_CardinalityType

\* Moving k to the end keeps TouchedSince once everything has seen k used.
LEMMA TouchedSinceMoved ==
    ASSUME TypeOK, TouchedSince, NEW k \in Keys, Touch(k)
    PROVE  \A i, j \in 1 .. Len(MoveToEnd(k)) :
              i < j => MoveToEnd(k)[j] \in touched'[MoveToEnd(k)[i]]
<1> DEFINE o == MoveToEnd(k)
<1>1. /\ o \in Seq(Keys) /\ Distinct(o) /\ o[Len(o)] = k
      /\ \A i, j \in 1 .. Len(o) : i < j =>
            \/ o[j] = k
            \/ \E p, q \in 1 .. Len(order) :
                  p < q /\ o[i] = order[p] /\ o[j] = order[q]
  BY MoveToEndFacts, TypeInvOrder
<1> HIDE DEF o
<1>2. SUFFICES ASSUME NEW i \in 1 .. Len(o), NEW j \in 1 .. Len(o), i < j
               PROVE  o[j] \in touched'[o[i]]
  BY DEF o
<1>3. o[i] \in Keys /\ o[i] # k /\ o[i] # o[j]
  BY <1>1, <1>2 DEF Distinct
<1>4. CASE o[j] = k
  BY <1>3, <1>4, TouchFacts
<1>5. CASE o[j] # k
  <2>1. PICK p \in 1 .. Len(order), q \in 1 .. Len(order) :
           p < q /\ o[i] = order[p] /\ o[j] = order[q]
    BY <1>1, <1>2, <1>5
  <2>2. o[j] \in touched[o[i]]
    <3>1. order[q] \in touched[order[p]]
      BY <2>1 DEF TouchedSince
    <3> QED BY <2>1, <3>1
  <2> QED BY <2>2, <1>3, TouchFacts
<1> QED BY <1>4, <1>5

\* RecentlyUsedIsKept survives a step that only adds to what has been used,
\* leaves the promises alone and drops no key whose promise still runs.
LEMMA StillKept ==
    ASSUME ConstantsAssumption, TypeOK, TypeOK', RecentlyUsedIsKept, NEW k \in Keys,
           now <= now', promised'[k] = promised[k], touched[k] \subseteq touched'[k],
           k \in DOMAIN store /\ promised[k] > now'
              => k \in DOMAIN store' /\ store'[k] = store[k],
           k \in DOMAIN store => store[k].expires = promised[k],
           promised'[k] > now', Cardinality(touched'[k]) < MaxSize
    PROVE  k \in DOMAIN store' /\ now' < store'[k].expires
<1>1. /\ now \in Nat /\ now' \in Nat /\ promised[k] \in Nat /\ MaxSize \in Nat
      /\ touched'[k] \in SUBSET Keys
  BY DEF TypeOK, ConstantsAssumption
<1>2. /\ Cardinality(touched[k]) \in Nat /\ Cardinality(touched'[k]) \in Nat
      /\ Cardinality(touched[k]) <= Cardinality(touched'[k])
  BY <1>1, KeySetCardinality
<1>3. promised[k] > now /\ Cardinality(touched[k]) < MaxSize
  BY <1>1, <1>2
<1>4. k \in DOMAIN store
  BY <1>3 DEF RecentlyUsedIsKept
<1> QED BY <1>1, <1>4

\* A put evicts a key only when max_size other keys have been used since.
LEMMA EvictedWasUsedLongAgo ==
    ASSUME ConstantsAssumption, TypeInv, TypeOK', TouchedSince, NEW k \in Keys, Touch(k),
           NEW e \in DOMAIN store \cup {k}, e \notin ToSet(Evicted(MoveToEnd(k)))
    PROVE  Cardinality(touched'[e]) >= MaxSize
<1> DEFINE m == MoveToEnd(k)
           o == Evicted(m)
<1>1. /\ m \in Seq(Keys) /\ Distinct(m) /\ ToSet(m) = DOMAIN store \cup {k}
      /\ Len(m) = IF k \in DOMAIN store THEN Len(order) ELSE Len(order) + 1
  BY MoveToEndFacts, TypeInvOrder DEF TypeInv
<1>2. \A i, j \in 1 .. Len(m) : i < j => m[j] \in touched'[m[i]]
  BY TouchedSinceMoved DEF TypeInv
<1> HIDE DEF m
<1>3. Len(m) <= MaxSize + 1 /\ MaxSize \in Nat \ {0}
  <2>1. Len(order) \in Nat /\ Len(order) <= MaxSize /\ MaxSize \in Nat \ {0}
    BY DEF TypeInv, OrderBounded, TypeOK, ConstantsAssumption
  <2> QED BY <1>1, <2>1
<1>4. /\ o \in Seq(Keys) /\ Distinct(o) /\ Len(o) <= MaxSize
      /\ IF Len(m) > MaxSize
         THEN /\ Len(o) = MaxSize
              /\ \A i \in 1 .. MaxSize : o[i] = m[i + 1]
              /\ ToSet(o) = ToSet(m) \ {m[1]}
         ELSE o = m
  BY <1>1, <1>3, EvictedFacts
<1> HIDE DEF o
<1>5. e \notin ToSet(o) /\ e \in ToSet(m)
  BY <1>1 DEF o, m
<1>6. Len(m) = MaxSize + 1 /\ e = m[1] /\ Len(o) = MaxSize
  BY <1>1, <1>3, <1>4, <1>5
<1>7. ASSUME NEW x \in ToSet(o)
      PROVE  x \in touched'[e]
  <2>1. PICK i \in 1 .. MaxSize : x = o[i]
    BY <1>4, <1>6 DEF ToSet
  <2>2. x = m[i + 1] /\ 1 \in 1 .. Len(m) /\ i + 1 \in 1 .. Len(m) /\ 1 < i + 1
    BY <2>1, <1>3, <1>4, <1>6
  <2> QED BY <2>2, <1>2, <1>6
<1>8. Cardinality(ToSet(o)) = MaxSize
  BY <1>4, <1>6, DistinctCardinality
<1>9. e \in Keys /\ touched'[e] \in SUBSET Keys
  BY DEF TypeInv, TypeOK
<1> QED BY <1>7, <1>8, <1>9, KeySetCardinality

LEMMA LruNext ==
    ASSUME ConstantsAssumption, LruInv, [Next]_vars
    PROVE  LruInv'
<1> USE DEF LruInv
<1>0. TypeInv' /\ TypeOK /\ TypeOK'
  BY TypeNext DEF TypeInv
<1>1. ASSUME NEW t \in Tasks, NEW k \in Keys, Hit(t, k) PROVE LruInv'
  <2>1. /\ order' = MoveToEnd(k) /\ Touch(k)
        /\ store' = store /\ promised' = promised /\ now' = now
        /\ k \in DOMAIN store /\ now < store[k].expires
    BY <1>1, <1>0 DEF Hit, Cached, Expired, TypeOK, Entry
  <2>2. Kept'
    BY <2>1 DEF Kept
  <2>3. TouchedSince'
    <3>1. \A i, j \in 1 .. Len(MoveToEnd(k)) :
             i < j => MoveToEnd(k)[j] \in touched'[MoveToEnd(k)[i]]
      BY <2>1, <1>0, TouchedSinceMoved
    <3>2. DOMAIN order' = 1 .. Len(MoveToEnd(k))
      BY <1>0, <2>1 DEF TypeOK
    <3> QED BY <2>1, <3>1, <3>2 DEF TouchedSince
  <2>4. RecentlyUsedIsKept'
    <3>1. SUFFICES ASSUME NEW j \in Keys, promised'[j] > now',
                          Cardinality(touched'[j]) < MaxSize
                   PROVE  j \in DOMAIN store' /\ now' < store'[j].expires
      BY DEF RecentlyUsedIsKept
    <3>2. CASE j = k
      BY <3>2, <2>1
    <3>3. CASE j # k
      <4>1. touched[j] \subseteq touched'[j]
        BY <1>0, <2>1, <3>3, TouchFacts
      <4>2. now \in Nat
        BY <1>0 DEF TypeOK
      <4> QED BY <1>0, <2>1, <3>1, <4>1, <4>2, StillKept DEF Kept
    <3> QED BY <3>2, <3>3
  <2> QED BY <1>0, <2>2, <2>3, <2>4
<1>2. ASSUME NEW t \in Tasks, NEW k \in Keys, Miss(t, k) PROVE LruInv'
  <2>1. /\ order' = OrderWithout(k) /\ touched' = touched /\ promised' = promised /\ now' = now
        /\ DOMAIN store' = (DOMAIN store) \ {k}
        /\ \A j \in DOMAIN store' : store'[j] = store[j]
        /\ k \in DOMAIN store => now >= store[k].expires
    BY <1>2 DEF Miss, Without, Cached, Expired
  <2>2. Kept'
    BY <2>1 DEF Kept
  <2>3. TouchedSince'
    <3> DEFINE w == OrderWithout(k)
    <3>1. /\ w \in Seq(Keys)
          /\ \A i, j \in 1 .. Len(w) : i < j =>
               \E p, q \in 1 .. Len(order) :
                  p < q /\ w[i] = order[p] /\ w[j] = order[q]
      BY <1>0, TypeInvOrder, OrderWithoutFacts
    <3> HIDE DEF w
    <3>2. DOMAIN order = 1 .. Len(order) /\ DOMAIN w = 1 .. Len(w)
      BY <1>0, <3>1 DEF TypeOK
    <3>3. SUFFICES ASSUME NEW i \in 1 .. Len(w), NEW j \in 1 .. Len(w), i < j
                   PROVE  w[j] \in touched[w[i]]
      BY <2>1, <3>2 DEF TouchedSince, w
    <3>4. PICK p \in 1 .. Len(order), q \in 1 .. Len(order) :
             p < q /\ w[i] = order[p] /\ w[j] = order[q]
      BY <3>1, <3>3
    <3> QED BY <3>2, <3>4 DEF TouchedSince
  <2>4. RecentlyUsedIsKept'
    <3>1. SUFFICES ASSUME NEW j \in Keys, promised'[j] > now',
                          Cardinality(touched'[j]) < MaxSize
                   PROVE  j \in DOMAIN store' /\ now' < store'[j].expires
      BY DEF RecentlyUsedIsKept
    <3>2. now \in Nat /\ promised[j] \in Nat
      BY <1>0 DEF TypeOK
    <3>3. j \in DOMAIN store /\ now < store[j].expires /\ store[j].expires = promised[j]
      BY <2>1, <3>1 DEF RecentlyUsedIsKept, Kept
    <3> QED BY <2>1, <3>1, <3>2, <3>3
  <2> QED BY <1>0, <2>2, <2>3, <2>4
<1>3. ASSUME NEW t \in Tasks, FetchReturns(t) PROVE LruInv'
  <2> DEFINE k == key[t]
             m == MoveToEnd(k)
             o == Evicted(m)
  <2>1. k \in Keys
    BY <1>3 DEF FetchReturns, TypeInv, TaskOK
  <2>2. /\ store' = [j \in ToSet(o) |-> IF j = k THEN NewEntry(t) ELSE store[j]]
        /\ order' = o /\ Touch(k) /\ now' = now
        /\ promised' = [promised EXCEPT ![k] = NewEntry(t).expires]
    BY <1>3 DEF FetchReturns
  <2>3. /\ o \in Seq(Keys) /\ k \in ToSet(o) /\ ToSet(o) \subseteq DOMAIN store \cup {k}
    BY <2>1, PutFacts
  <2>4. Kept'
    BY <1>0, <2>1, <2>2, <2>3 DEF Kept, TypeOK
  <2>5. TouchedSince'
    <3>1. \A i, j \in 1 .. Len(m) : i < j => m[j] \in touched'[m[i]]
      BY <1>0, <2>1, <2>2, TouchedSinceMoved
    <3>2. /\ m \in Seq(Keys) /\ Distinct(m)
          /\ Len(m) = IF k \in DOMAIN store THEN Len(order) ELSE Len(order) + 1
      BY <1>0, <2>1, MoveToEndFacts, TypeInvOrder
    <3> HIDE DEF m, k
    <3>3. Len(m) <= MaxSize + 1 /\ MaxSize \in Nat \ {0}
      <4>1. Len(order) \in Nat /\ Len(order) <= MaxSize /\ MaxSize \in Nat \ {0}
        BY DEF TypeInv, OrderBounded, TypeOK, ConstantsAssumption
      <4> QED BY <3>2, <4>1
    <3>4. IF Len(m) > MaxSize
          THEN Len(o) = MaxSize /\ \A i \in 1 .. MaxSize : o[i] = m[i + 1]
          ELSE o = m
      BY <3>2, <3>3, EvictedFacts
    <3> HIDE DEF o
    <3>5. SUFFICES ASSUME NEW i \in 1 .. Len(o), NEW j \in 1 .. Len(o), i < j
                   PROVE  o[j] \in touched'[o[i]]
      BY <2>2, <2>3 DEF TouchedSince
    <3>6. CASE Len(m) > MaxSize
      <4>1. /\ i + 1 \in 1 .. Len(m) /\ j + 1 \in 1 .. Len(m) /\ i + 1 < j + 1
            /\ o[i] = m[i + 1] /\ o[j] = m[j + 1]
        <5>1. Len(o) = MaxSize /\ Len(m) = MaxSize + 1
          <6>1. Len(m) \in Nat
            BY <3>2
          <6> QED BY <6>1, <3>3, <3>4, <3>6
        <5>2. o[i] = m[i + 1] /\ o[j] = m[j + 1]
          BY <3>4, <3>5, <3>6, <5>1
        <5> QED BY <3>3, <3>5, <5>1, <5>2
      <4> QED BY <3>1, <4>1
    <3>7. CASE ~(Len(m) > MaxSize)
      BY <3>1, <3>4, <3>5, <3>7
    <3> QED BY <3>6, <3>7
  <2>6. RecentlyUsedIsKept'
    <3>1. SUFFICES ASSUME NEW j \in Keys, promised'[j] > now',
                          Cardinality(touched'[j]) < MaxSize
                   PROVE  j \in DOMAIN store' /\ now' < store'[j].expires
      BY DEF RecentlyUsedIsKept
    <3>2. CASE j = k
      BY <1>0, <2>1, <2>2, <2>3, <3>1, <3>2 DEF TypeOK
    <3>3. CASE j # k
      <4>1. touched[j] \subseteq touched'[j] /\ promised'[j] = promised[j] /\ now <= now'
        <5>1. touched[j] \subseteq touched'[j]
          BY <1>0, <2>1, <2>2, <3>3, TouchFacts
        <5>2. promised \in [Keys -> Nat] /\ now \in Nat
          BY <1>0 DEF TypeOK
        <5> HIDE DEF k
        <5> QED BY <2>2, <3>3, <5>1, <5>2
      <4>2. j \in DOMAIN store => j \in DOMAIN store' /\ store'[j] = store[j]
        <5>1. ASSUME j \in DOMAIN store, j \notin ToSet(o) PROVE FALSE
          <6>1. Cardinality(touched'[j]) >= MaxSize
            BY <1>0, <2>1, <2>2, <5>1, EvictedWasUsedLongAgo
          <6>2. Cardinality(touched'[j]) \in Nat /\ MaxSize \in Nat
            BY <1>0, KeySetCardinality DEF TypeOK, ConstantsAssumption
          <6> QED BY <3>1, <6>1, <6>2
        <5> QED BY <2>2, <3>3, <5>1
      <4> QED BY <1>0, <3>1, <4>1, <4>2, StillKept DEF Kept
    <3> QED BY <3>2, <3>3
  <2> QED BY <1>0, <2>4, <2>5, <2>6
<1>4. CASE Clear
  <2>1. DOMAIN store' = {} /\ order' = <<>> /\ \A k \in Keys : promised'[k] = 0
    BY <1>4 DEF Clear
  <2>2. now' \in Nat
    BY <1>0 DEF TypeOK
  <2> QED BY <1>0, <2>1, <2>2 DEF Kept, TouchedSince, RecentlyUsedIsKept
<1>5. CASE Tick
  <2>1. /\ now' = now + 1 /\ UNCHANGED <<store, order, promised, touched>>
    BY <1>5 DEF Tick, cacheVars, history
  <2>2. /\ now \in Nat /\ \A k \in Keys : promised[k] \in Nat
    BY <1>0 DEF TypeOK
  <2>3. Kept' /\ TouchedSince'
    BY <2>1 DEF Kept, TouchedSince
  <2>4. RecentlyUsedIsKept'
    <3>1. SUFFICES ASSUME NEW k \in Keys, promised[k] > now + 1,
                          Cardinality(touched[k]) < MaxSize
                   PROVE  k \in DOMAIN store /\ now + 1 < store[k].expires
      BY <2>1 DEF RecentlyUsedIsKept
    <3>2. promised[k] > now
      BY <2>2, <3>1
    <3> QED BY <2>2, <3>1, <3>2 DEF RecentlyUsedIsKept, Kept
  <2> QED BY <1>0, <2>3, <2>4
<1>6. ASSUME UNCHANGED <<now, store, order, promised, touched>> PROVE LruInv'
  BY <1>0, <1>6 DEF Kept, TouchedSince, RecentlyUsedIsKept
<1>7. \/ \E t \in Tasks : UpstreamReads(t) \/ FetchFails(t)
      \/ \E k \in Keys : Publish(k)
      \/ UNCHANGED vars
      => UNCHANGED <<now, store, order, promised, touched>>
  BY DEF UpstreamReads, FetchFails, Publish, cacheVars, history, vars
<1> QED BY <1>1, <1>2, <1>3, <1>4, <1>5, <1>6, <1>7 DEF Next

\* An unexpired result that was put and not cleared stays cached until max_size
\* other keys have been used since its last use.
THEOREM LeastRecentlyUsed == Spec => []RecentlyUsedIsKept
<1>1. Init => LruInv
  <2> SUFFICES ASSUME Init PROVE LruInv
    OBVIOUS
  <2>1. TypeInv
    BY TypeInit, ConstantsAssumption
  <2>2. DOMAIN store = {} /\ order = <<>> /\ now = 0 /\ \A k \in Keys : promised[k] = 0
    BY DEF Init
  <2> QED BY <2>1, <2>2 DEF LruInv, Kept, TouchedSince, RecentlyUsedIsKept
<1>2. LruInv /\ [Next]_vars => LruInv'
  BY LruNext, ConstantsAssumption
<1>3. LruInv => RecentlyUsedIsKept
  BY DEF LruInv
<1> QED BY <1>1, <1>2, <1>3, PTL DEF Spec

-----------------------------------------------------------------------------
(* The cache implements BoundedStaleReads.                                     *)

\* A fetch is not older than MaxFetch, and the version it has read was current
\* when the fetch began or later.
FetchFresh ==
    \A t \in Tasks : pc[t] = "fetching" =>
        /\ now <= start[t] + MaxFetch
        /\ got[t] <= Len(since[key[t]])
        /\ 0 < got[t] /\ got[t] < Len(since[key[t]])
              => start[t] <= since[key[t]][got[t] + 1]

\* An entry holds a published version that was current no longer than MaxFetch
\* before it was put, and it expires a ttl after that.
EntryFresh ==
    \A k \in DOMAIN store :
        LET v == store[k].value
            e == store[k].expires
        IN  /\ v \in 1 .. Len(since[k])
            /\ e <= now + Ttl[k]
            /\ v < Len(since[k]) => e <= since[k][v + 1] + MaxFetch + Ttl[k]

FreshInv == TypeInv /\ FetchFresh /\ EntryFresh

\* The element behind one that is not the last.
LEMMA FollowingElement ==
    ASSUME NEW S, NEW s \in Seq(S), NEW v \in 1 .. Len(s), v < Len(s)
    PROVE  v + 1 \in 1 .. Len(s) /\ s[v + 1] \in S
<1>1. Len(s) \in Nat
  OBVIOUS
<1>2. v + 1 \in 1 .. Len(s)
  BY <1>1
<1> QED BY <1>2

\* Publishing leaves the earlier versions' times alone.
LEMMA PublishFacts ==
    ASSUME TypeOK, NEW k \in Keys, Publish(k)
    PROVE  \A j \in Keys :
              /\ Len(since'[j]) = IF j = k THEN Len(since[j]) + 1 ELSE Len(since[j])
              /\ Len(since[j]) \in Nat
              /\ \A v \in 1 .. Len(since[j]) : since'[j][v] = since[j][v]
              /\ j = k => since'[j][Len(since[j]) + 1] = now
<1>1. since \in [Keys -> Seq(Nat)] /\ since' = [since EXCEPT ![k] = Append(since[k], now)] /\ now \in Nat
  BY DEF Publish, TypeOK
<1>2. SUFFICES ASSUME NEW j \in Keys
      PROVE  /\ Len(since'[j]) = IF j = k THEN Len(since[j]) + 1 ELSE Len(since[j])
             /\ Len(since[j]) \in Nat
             /\ \A v \in 1 .. Len(since[j]) : since'[j][v] = since[j][v]
             /\ j = k => since'[j][Len(since[j]) + 1] = now
  OBVIOUS
<1>3. since[j] \in Seq(Nat) /\ since'[j] = IF j = k THEN Append(since[j], now) ELSE since[j]
  BY <1>1
<1> QED BY <1>1, <1>3, AppendProperties

LEMMA FreshNext ==
    ASSUME ConstantsAssumption, FreshInv, [Next]_vars
    PROVE  FreshInv'
<1> USE DEF FreshInv
<1>0. TypeInv' /\ TypeOK /\ TypeOK' /\ TaskOK
  BY TypeNext DEF TypeInv
<1>n. /\ now \in Nat /\ MaxFetch \in Nat /\ \A k \in Keys : Ttl[k] \in Nat \ {0}
      /\ \A k \in Keys : Len(since[k]) \in Nat
      /\ \A k \in Keys : \A v \in 1 .. Len(since[k]) : since[k][v] \in Nat
  <2>1. now \in Nat /\ MaxFetch \in Nat /\ \A k \in Keys : Ttl[k] \in Nat \ {0}
    BY <1>0 DEF TypeOK, ConstantsAssumption
  <2>2. \A k \in Keys : since[k] \in Seq(Nat)
    BY <1>0 DEF TypeOK
  <2>3. \A k \in Keys : Len(since[k]) \in Nat /\ \A v \in 1 .. Len(since[k]) : since[k][v] \in Nat
    BY <2>2
  <2> QED BY <2>1, <2>3
<1>1. ASSUME NEW t \in Tasks, NEW k \in Keys, Hit(t, k) PROVE FreshInv'
  <2>1. FetchFresh'
    BY <1>1, <1>0 DEF Hit, TypeOK, FetchFresh
  <2>2. EntryFresh'
    BY <1>1 DEF Hit, EntryFresh
  <2> QED BY <1>0, <2>1, <2>2
<1>2. ASSUME NEW t \in Tasks, NEW k \in Keys, Miss(t, k) PROVE FreshInv'
  <2>1. EntryFresh'
    BY <1>2 DEF Miss, Without, EntryFresh
  <2>2. FetchFresh'
    <3>1. SUFFICES ASSUME NEW u \in Tasks, pc'[u] = "fetching"
                   PROVE  /\ now' <= start'[u] + MaxFetch
                          /\ got'[u] <= Len(since'[key'[u]])
                          /\ 0 < got'[u] /\ got'[u] < Len(since'[key'[u]])
                                => start'[u] <= since'[key'[u]][got'[u] + 1]
      BY DEF FetchFresh
    <3>2. now' = now /\ since' = since
      BY <1>2 DEF Miss
    <3>3. CASE u = t
      <4>1. start'[u] = now /\ got'[u] = 0 /\ key'[u] = k
        BY <1>0, <1>2, <3>3 DEF Miss, TypeOK
      <4> QED BY <1>n, <3>2, <4>1
    <3>4. CASE u # t
      <4>1. pc[u] = "fetching" /\ start'[u] = start[u] /\ got'[u] = got[u] /\ key'[u] = key[u]
        BY <1>0, <1>2, <3>1, <3>4 DEF Miss, TypeOK
      <4> QED BY <3>2, <4>1 DEF FetchFresh
    <3> QED BY <3>3, <3>4
  <2> QED BY <1>0, <2>1, <2>2
<1>3. ASSUME NEW t \in Tasks, UpstreamReads(t) PROVE FreshInv'
  <2>1. EntryFresh'
    BY <1>3 DEF UpstreamReads, EntryFresh
  <2>2. FetchFresh'
    <3>1. key[t] \in Keys
      BY <1>3, <1>0 DEF UpstreamReads, TaskOK
    <3>2. got' = [got EXCEPT ![t] = Len(since[key[t]])] /\ UNCHANGED <<now, since, pc, key, start>>
      BY <1>3 DEF UpstreamReads
    <3>3. SUFFICES ASSUME NEW u \in Tasks, pc[u] = "fetching"
                   PROVE  /\ now <= start[u] + MaxFetch
                          /\ got'[u] <= Len(since[key[u]])
                          /\ 0 < got'[u] /\ got'[u] < Len(since[key[u]])
                                => start[u] <= since[key[u]][got'[u] + 1]
      BY <3>2 DEF FetchFresh
    <3>4. CASE u = t
      <4>1. got'[u] = Len(since[key[u]]) /\ Len(since[key[u]]) \in Nat
        BY <1>0, <1>n, <3>1, <3>2, <3>4 DEF TypeOK
      <4> QED BY <3>3, <4>1 DEF FetchFresh
    <3>5. CASE u # t
      BY <1>0, <3>2, <3>3, <3>5 DEF FetchFresh, TypeOK
    <3> QED BY <3>4, <3>5
  <2> QED BY <1>0, <2>1, <2>2
<1>4. ASSUME NEW t \in Tasks, FetchReturns(t) PROVE FreshInv'
  <2> DEFINE k == key[t]
  <2>1. k \in Keys /\ ToSet(Evicted(MoveToEnd(k))) \subseteq DOMAIN store \cup {k}
    BY <1>4, PutFacts DEF FetchReturns, TypeInv, TaskOK
  <2>2. /\ \A j \in DOMAIN store' :
             IF j = k THEN store'[j] = NewEntry(t) ELSE j \in DOMAIN store /\ store'[j] = store[j]
        /\ now' = now /\ since' = since /\ key' = key /\ got' = got
        /\ pc[t] = "fetching" /\ got[t] # 0
    BY <1>4, <2>1 DEF FetchReturns
  <2>3. FetchFresh'
    BY <1>4, <1>0 DEF FetchReturns, TypeOK, FetchFresh
  <2>4. EntryFresh'
    <3>1. /\ now <= start[t] + MaxFetch /\ got[t] \in 1 .. Len(since[k])
          /\ got[t] < Len(since[k]) => start[t] <= since[k][got[t] + 1]
          /\ start[t] \in Nat
      <4>1. got[t] \in Nat /\ start[t] \in Nat /\ Len(since[k]) \in Nat
        BY <2>1, <1>0, <1>n DEF TypeOK
      <4>2. /\ now <= start[t] + MaxFetch /\ got[t] <= Len(since[k])
            /\ 0 < got[t] /\ got[t] < Len(since[k]) => start[t] <= since[k][got[t] + 1]
        BY <2>2, <1>0 DEF FetchFresh
      <4> QED BY <2>2, <4>1, <4>2
    <3>2. /\ NewEntry(t).value = got[t]
          /\ NewEntry(t).expires = now + Ttl[k]
      BY DEF NewEntry
    <3> HIDE DEF k
    <3>3. got[t] < Len(since[k]) => now + Ttl[k] <= since[k][got[t] + 1] + MaxFetch + Ttl[k]
      <4>1. SUFFICES ASSUME got[t] < Len(since[k])
                     PROVE  now + Ttl[k] <= since[k][got[t] + 1] + MaxFetch + Ttl[k]
        OBVIOUS
      <4>2. since[k][got[t] + 1] \in Nat /\ Ttl[k] \in Nat
        BY <1>n, <2>1, <3>1, <4>1
      <4>3. start[t] <= since[k][got[t] + 1] /\ now <= start[t] + MaxFetch
        BY <3>1, <4>1
      <4>4. now \in Nat /\ MaxFetch \in Nat /\ start[t] \in Nat
        BY <1>n, <1>0, <3>1 DEF TypeOK
      <4> HIDE <3>1
      <4> QED BY <4>2, <4>3, <4>4
    <3>4. SUFFICES ASSUME NEW j \in DOMAIN store'
                   PROVE  /\ store'[j].value \in 1 .. Len(since[j])
                          /\ store'[j].expires <= now + Ttl[j]
                          /\ store'[j].value < Len(since[j])
                                => store'[j].expires <= since[j][store'[j].value + 1] + MaxFetch + Ttl[j]
      BY <2>2 DEF EntryFresh
    <3>5. CASE j = k
      BY <2>1, <2>2, <3>1, <3>2, <3>3, <3>5, <1>n
    <3>6. CASE j # k
      BY <2>2, <3>6 DEF EntryFresh
    <3> QED BY <3>5, <3>6
  <2> QED BY <1>0, <2>3, <2>4
<1>5. ASSUME NEW t \in Tasks, FetchFails(t) PROVE FreshInv'
  <2>1. EntryFresh'
    BY <1>5 DEF FetchFails, EntryFresh
  <2>2. FetchFresh'
    BY <1>5, <1>0 DEF FetchFails, TypeOK, FetchFresh
  <2> QED BY <1>0, <2>1, <2>2
<1>6. ASSUME NEW k \in Keys, Publish(k) PROVE FreshInv'
  <2>1. \A j \in Keys :
           /\ Len(since'[j]) = IF j = k THEN Len(since[j]) + 1 ELSE Len(since[j])
           /\ Len(since[j]) \in Nat
           /\ \A v \in 1 .. Len(since[j]) : since'[j][v] = since[j][v]
           /\ j = k => since'[j][Len(since[j]) + 1] = now
    BY <1>0, <1>6, PublishFacts
  <2>2. UNCHANGED <<now, store, pc, key, start, got>>
    BY <1>6 DEF Publish, cacheVars, taskVars
  <2>3. FetchFresh'
    <3>1. SUFFICES ASSUME NEW t \in Tasks, pc[t] = "fetching"
                   PROVE  /\ now <= start[t] + MaxFetch
                          /\ got[t] <= Len(since'[key[t]])
                          /\ 0 < got[t] /\ got[t] < Len(since'[key[t]])
                                => start[t] <= since'[key[t]][got[t] + 1]
      BY <2>2 DEF FetchFresh
    <3>2. key[t] \in Keys /\ start[t] <= now /\ got[t] \in Nat
      BY <1>0, <3>1 DEF TaskOK, TypeOK
    <3>3. /\ now <= start[t] + MaxFetch
          /\ got[t] <= Len(since[key[t]])
          /\ 0 < got[t] /\ got[t] < Len(since[key[t]])
                => start[t] <= since[key[t]][got[t] + 1]
      BY <3>1 DEF FetchFresh
    <3>4. CASE got[t] < Len(since[key[t]])
      <4>0. got[t] \in Nat /\ Len(since[key[t]]) \in Nat
        BY <2>1, <3>2
      <4>1. 0 < got[t] => since'[key[t]][got[t] + 1] = since[key[t]][got[t] + 1]
        <5>1. got[t] + 1 \in 1 .. Len(since[key[t]])
          BY <3>4, <4>0
        <5> QED BY <2>1, <3>2, <5>1
      <4>2. got[t] <= Len(since'[key[t]])
        <5>1. Len(since'[key[t]]) = Len(since[key[t]])
                 \/ Len(since'[key[t]]) = Len(since[key[t]]) + 1
          BY <2>1, <3>2
        <5> QED BY <3>4, <4>0, <5>1
      <4> QED BY <3>3, <3>4, <4>1, <4>2
    <3>5. CASE got[t] = Len(since[key[t]])
      <4>1. got[t] <= Len(since'[key[t]])
        BY <1>n, <2>1, <3>2, <3>5
      <4>2. got[t] < Len(since'[key[t]]) => since'[key[t]][got[t] + 1] = now
        BY <1>n, <2>1, <3>2, <3>5
      <4> QED BY <3>2, <3>3, <4>1, <4>2
    <3> QED BY <1>n, <3>2, <3>3, <3>4, <3>5
  <2>4. EntryFresh'
    <3>1. SUFFICES ASSUME NEW j \in DOMAIN store
                   PROVE  /\ store[j].value \in 1 .. Len(since'[j])
                          /\ store[j].expires <= now + Ttl[j]
                          /\ store[j].value < Len(since'[j])
                                => store[j].expires <= since'[j][store[j].value + 1] + MaxFetch + Ttl[j]
      BY <2>2 DEF EntryFresh
    <3>2. /\ store[j].value \in 1 .. Len(since[j])
          /\ store[j].expires <= now + Ttl[j]
          /\ store[j].value < Len(since[j])
                => store[j].expires <= since[j][store[j].value + 1] + MaxFetch + Ttl[j]
      BY DEF EntryFresh
    <3>3. j \in Keys /\ store[j].expires \in Nat
      BY <1>0 DEF TypeOK, Entry
    <3>n. store[j].value \in 1 .. Len(since'[j])
      <4>1. /\ Len(since[j]) \in Nat
            /\ Len(since'[j]) = Len(since[j]) \/ Len(since'[j]) = Len(since[j]) + 1
        BY <2>1, <3>3
      <4>2. store[j].value \in 1 .. Len(since[j])
        BY <3>2
      <4> QED BY <4>1, <4>2
    <3>4. CASE store[j].value = Len(since[j])
      <4>1. store[j].value < Len(since'[j]) => since'[j][store[j].value + 1] = now
        BY <1>n, <2>1, <3>2, <3>3, <3>4
      <4>2. store[j].expires <= now + MaxFetch + Ttl[j]
        BY <1>n, <3>2, <3>3
      <4> QED BY <3>n, <3>2, <4>1, <4>2
    <3>5. CASE store[j].value < Len(since[j])
      <4>1. since'[j][store[j].value + 1] = since[j][store[j].value + 1]
        <5>1. store[j].value + 1 \in 1 .. Len(since[j])
          <6>1. since[j] \in Seq(Nat)
            BY <1>0, <3>3 DEF TypeOK
          <6> QED BY <3>2, <3>5, <6>1, FollowingElement
        <5> QED BY <2>1, <3>3, <5>1
      <4> QED BY <3>n, <3>2, <3>5, <4>1
    <3> QED BY <1>n, <3>2, <3>3, <3>4, <3>5
  <2> QED BY <1>0, <2>3, <2>4
<1>7. CASE Clear
  BY <1>0, <1>7 DEF Clear, taskVars, FetchFresh, EntryFresh
<1>8. CASE Tick
  <2>1. /\ now' = now + 1 /\ UNCHANGED <<since, store, pc, key, start, got>>
        /\ \A t \in Tasks : pc[t] = "fetching" => now < start[t] + MaxFetch
    BY <1>8 DEF Tick, cacheVars, taskVars
  <2>2. FetchFresh'
    <3>1. SUFFICES ASSUME NEW t \in Tasks, pc[t] = "fetching"
                   PROVE  now + 1 <= start[t] + MaxFetch
      BY <2>1 DEF FetchFresh
    <3>2. now < start[t] + MaxFetch /\ start[t] \in Nat
      BY <1>0, <2>1, <3>1 DEF TypeOK
    <3> QED BY <1>n, <3>2
  <2>3. EntryFresh'
    <3>1. SUFFICES ASSUME NEW k \in DOMAIN store
                   PROVE  store[k].expires <= now + 1 + Ttl[k]
      BY <2>1 DEF EntryFresh
    <3>2. store[k].expires <= now + Ttl[k] /\ store[k].expires \in Nat /\ Ttl[k] \in Nat
      BY <1>0, <1>n DEF EntryFresh, TypeOK, Entry
    <3> QED BY <1>n, <3>2
  <2> QED BY <1>0, <2>2, <2>3
<1>9. CASE UNCHANGED vars
  BY <1>0, <1>9 DEF vars, FetchFresh, EntryFresh
<1> QED BY <1>1, <1>2, <1>3, <1>4, <1>5, <1>6, <1>7, <1>8, <1>9 DEF Next

\* The answers the abstract specification sees.
Answers == [t \in Tasks |-> IF pc[t] = "answered" THEN got[t] ELSE 0]

\* The two ways a version that was superseded at s is still within the window:
\* its entry, put at most MaxFetch later, has not expired; its fetch began before.
LEMMA HitWindow ==
    \A s, m, ttl, e, n \in Nat : e <= s + m + ttl /\ n < e => s + (ttl + m) > n
  OBVIOUS

LEMMA FetchWindow ==
    \A s, m, n, b \in Nat, ttl \in Nat \ {0} :
        n <= b + m /\ b <= s => s + (ttl + m) > n
  OBVIOUS

LEMMA PromiseNext ==
    ASSUME ConstantsAssumption, FreshInv, [Next]_vars
    PROVE  [Promise!Next]_(Promise!vars)
<1>0. TypeOK /\ TaskOK
  BY DEF FreshInv, TypeInv
<1>n. now \in Nat /\ MaxFetch \in Nat /\ \A k \in Keys : Ttl[k] \in Nat \ {0}
  BY <1>0 DEF TypeOK, ConstantsAssumption
<1>1. ASSUME NEW t \in Tasks, NEW k \in Keys, Hit(t, k) PROVE Promise!Next
  <2>1. /\ k \in DOMAIN store /\ now < store[k].expires
        /\ pc' = [pc EXCEPT ![t] = "answered"] /\ key' = [key EXCEPT ![t] = k]
        /\ got' = [got EXCEPT ![t] = store[k].value]
        /\ pc[t] # "fetching" /\ now' = now /\ since' = since
    BY <1>1, <1>0 DEF Hit, Cached, Expired, TypeOK, Entry
  <2> DEFINE v == store[k].value
  <2>2. /\ v \in 1 .. Len(since[k])
        /\ v < Len(since[k]) => store[k].expires <= since[k][v + 1] + MaxFetch + Ttl[k]
    BY <2>1 DEF FreshInv, EntryFresh
  <2>3. v \in Promise!Fresh(k)
    <3>1. since[k] \in Seq(Nat) /\ store[k].expires \in Nat
      BY <1>0, <2>1 DEF TypeOK, Entry
    <3>2. CASE v = Len(since[k])
      BY <2>2, <3>2 DEF Promise!Fresh, Promise!CurrentWithinWindow
    <3>3. CASE v < Len(since[k])
      <4>0. v + 1 \in 1 .. Len(since[k])
        BY <2>2, <3>1, <3>3, FollowingElement
      <4>1. since[k][v + 1] \in Nat
        BY <2>2, <3>1, <3>3, FollowingElement
      <4>2. since[k][v + 1] + (Ttl[k] + MaxFetch) > now
        <5>1. Ttl[k] \in Nat
          BY <1>n
        <5>2. store[k].expires <= since[k][v + 1] + MaxFetch + Ttl[k] /\ now < store[k].expires
          BY <2>1, <2>2, <3>3
        <5> QED BY <1>n, <3>1, <4>1, <5>1, <5>2, HitWindow
      <4> QED BY <2>2, <4>2 DEF Promise!Fresh, Promise!CurrentWithinWindow
    <3> QED BY <2>2, <3>1, <3>2, <3>3
  <2>4. Answers' = [Answers EXCEPT ![t] = v]
    BY <1>0, <2>1 DEF Answers, TypeOK
  <2>5. Promise!AskAnswered(t, k)
    BY <2>1, <2>3, <2>4 DEF Promise!AskAnswered, Answers
  <2> QED BY <2>5 DEF Promise!Next
<1>2. ASSUME NEW t \in Tasks, NEW k \in Keys, Miss(t, k) PROVE Promise!Next
  <2>1. Answers' = [Answers EXCEPT ![t] = 0]
    BY <1>0, <1>2 DEF Miss, Answers, TypeOK
  <2>2. Promise!Ask(t, k)
    BY <1>2, <2>1 DEF Miss, Promise!Ask, Answers
  <2> QED BY <2>2 DEF Promise!Next
<1>3. ASSUME NEW t \in Tasks, UpstreamReads(t) PROVE UNCHANGED Promise!vars
  <2>1. Answers' = Answers
    BY <1>0, <1>3 DEF UpstreamReads, Answers, TypeOK
  <2> QED BY <1>3, <2>1 DEF UpstreamReads, Promise!vars, Answers
<1>4. ASSUME NEW t \in Tasks, FetchReturns(t) PROVE Promise!Next
  <2> DEFINE k == key[t]
             v == got[t]
  <2>1. /\ pc[t] = "fetching" /\ got[t] # 0 /\ pc' = [pc EXCEPT ![t] = "answered"]
        /\ UNCHANGED <<now, since, key, got>>
    BY <1>4 DEF FetchReturns
  <2>2. /\ k \in Keys /\ v \in 1 .. Len(since[k]) /\ now <= start[t] + MaxFetch
        /\ start[t] \in Nat /\ since[k] \in Seq(Nat)
        /\ v < Len(since[k]) => start[t] <= since[k][v + 1]
    <3>1. k \in Keys /\ got[t] \in Nat /\ start[t] \in Nat
      BY <1>0, <2>1 DEF TypeOK, TaskOK
    <3>2. since[k] \in Seq(Nat)
      BY <1>0, <3>1 DEF TypeOK
    <3>3. /\ now <= start[t] + MaxFetch /\ got[t] <= Len(since[key[t]])
          /\ 0 < got[t] /\ got[t] < Len(since[key[t]])
                => start[t] <= since[key[t]][got[t] + 1]
      BY <2>1 DEF FreshInv, FetchFresh
    <3> QED BY <2>1, <3>1, <3>2, <3>3
  <2>3. v \in Promise!Fresh(k)
    <3>1. CASE v = Len(since[k])
      BY <2>2, <3>1 DEF Promise!Fresh, Promise!CurrentWithinWindow
    <3>2. CASE v < Len(since[k])
      <4>0. v + 1 \in 1 .. Len(since[k])
        BY <2>2, <3>2, FollowingElement
      <4>1. since[k][v + 1] \in Nat /\ start[t] <= since[k][v + 1]
        BY <2>2, <3>2, FollowingElement
      <4>2. since[k][v + 1] + (Ttl[k] + MaxFetch) > now
        <5>1. Ttl[k] \in Nat \ {0}
          BY <1>n, <2>2
        <5> QED BY <1>n, <2>2, <4>1, <5>1, FetchWindow
      <4> QED BY <2>2, <4>2 DEF Promise!Fresh, Promise!CurrentWithinWindow
    <3> QED BY <2>2, <3>1, <3>2
  <2>4. Answers' = [Answers EXCEPT ![t] = v]
    BY <1>0, <2>1 DEF Answers, TypeOK
  <2>5. Promise!Answer(t)
    BY <2>1, <2>3, <2>4 DEF Promise!Answer, Answers
  <2> QED BY <2>5 DEF Promise!Next
<1>5. ASSUME NEW t \in Tasks, FetchFails(t) PROVE Promise!Next
  <2>1. Answers' = Answers
    BY <1>0, <1>5 DEF FetchFails, Answers, TypeOK
  <2>2. Promise!Fail(t)
    BY <1>5, <2>1 DEF FetchFails, Promise!Fail, Answers
  <2> QED BY <2>2 DEF Promise!Next
<1>6. ASSUME NEW k \in Keys, Publish(k) PROVE Promise!Next
  <2>1. Promise!Publish(k)
    BY <1>6 DEF Publish, taskVars, Promise!Publish
  <2> QED BY <2>1 DEF Promise!Next
<1>7. CASE Clear
  BY <1>7 DEF Clear, taskVars, Promise!vars
<1>8. CASE Tick
  <2>1. Promise!Tick
    BY <1>8 DEF Tick, taskVars, Promise!Tick
  <2> QED BY <2>1 DEF Promise!Next
<1>9. CASE UNCHANGED vars
  BY <1>9 DEF vars, Promise!vars
<1> QED BY <1>1, <1>2, <1>3, <1>4, <1>5, <1>6, <1>7, <1>8, <1>9 DEF Next

\* Whatever the cache does, a request is answered with a version of its key that
\* upstream published and that was current less than the ttl plus the longest
\* fetch before the answer: the cache implements BoundedStaleReads.
THEOREM ImplementsPromise == Spec => AnswersAreBoundedStale
<1>1. Init => FreshInv
  <2> SUFFICES ASSUME Init PROVE FreshInv
    OBVIOUS
  <2>1. TypeInv
    BY TypeInit, ConstantsAssumption
  <2> QED BY <2>1 DEF Init, FreshInv, FetchFresh, EntryFresh
<1>2. FreshInv /\ [Next]_vars => FreshInv'
  BY FreshNext, ConstantsAssumption
<1>3. Init => Promise!Init
  BY DEF Init, Promise!Init
<1>4. FreshInv /\ [Next]_vars => [Promise!Next]_(Promise!vars)
  BY PromiseNext, ConstantsAssumption
<1> QED BY <1>1, <1>2, <1>3, <1>4, PTL DEF Spec, AnswersAreBoundedStale, Promise!Spec
=============================================================================
