------------------------- MODULE TikTokSearchProofs -------------------------
(* Proofs about TikTokSearch, for every value of its constants.                *)
EXTENDS TikTokSearch, SequenceFacts, FiniteSetTheorems, SequenceTheorems, TLAPS

-----------------------------------------------------------------------------
(* The operations on the order of the entries.                                 *)

\* Of two positions of o, the entry at the later one was also later in s.
Follows(o, s) ==
    \A i, j \in 1 .. Len(o) : i < j =>
        \E p, q \in 1 .. Len(s) : p < q /\ o[i] = s[p] /\ o[j] = s[q]

\* Deleting a key leaves the others, in the same order.
LEMMA WithoutFacts ==
    ASSUME NEW s \in Seq(Keys), Distinct(s), NEW k \in Keys
    PROVE  LET w == Without(s, k)
           IN  /\ w \in Seq(Keys) /\ Distinct(w)
               /\ ToSet(w) = ToSet(s) \ {k}
               /\ Len(w) <= Len(s) /\ Len(w) >= Len(s) - 1
               /\ Follows(w, s)
<1>1. CASE k \in ToSet(s)
  <2> DEFINE p == Position(s, k)
             w == RemoveAt(s, p)
  <2>1. p \in 1 .. Len(s) /\ s[p] = k
    <3>1. \E i \in DOMAIN s : s[i] = k
      BY <1>1 DEF ToSet
    <3> QED BY <3>1 DEF Position
  <2> HIDE DEF p
  <2>2. /\ w \in Seq(Keys) /\ Len(w) = Len(s) - 1
        /\ \A j \in 1 .. Len(s) - 1 : w[j] = IF j < p THEN s[j] ELSE s[j + 1]
    BY <2>1, RemoveAtElements
  <2>3. Distinct(w) /\ ToSet(w) = ToSet(s) \ {k}
    BY <2>1, RemoveAtDistinct
  <2> HIDE DEF w
  <2>4. ASSUME NEW i \in 1 .. Len(w), NEW j \in 1 .. Len(w), i < j
        PROVE  \E a, b \in 1 .. Len(s) : a < b /\ w[i] = s[a] /\ w[j] = s[b]
    <3> DEFINE at(m) == IF m < p THEN m ELSE m + 1
    <3>1. /\ at(i) \in 1 .. Len(s) /\ at(j) \in 1 .. Len(s) /\ at(i) < at(j)
          /\ w[i] = s[at(i)] /\ w[j] = s[at(j)]
      BY <2>1, <2>2, <2>4
    <3> QED BY <3>1
  <2>5. Without(s, k) = w
    BY <1>1 DEF Without, w, p
  <2>6. Follows(w, s)
    BY <2>4 DEF Follows
  <2>7. Len(w) <= Len(s) /\ Len(w) >= Len(s) - 1
    BY <2>2
  <2> QED BY <2>2, <2>3, <2>5, <2>6, <2>7
<1>2. CASE k \notin ToSet(s)
  <2>1. Without(s, k) = s
    BY <1>2 DEF Without
  <2>2. Follows(s, s)
    BY DEF Follows
  <2>3. Len(s) \in Nat
    OBVIOUS
  <2> QED BY <1>2, <2>1, <2>2, <2>3
<1> QED BY <1>1, <1>2

\* The order lists the keys of the store, each once, and has no more than MaxSize.
OrderOK ==
    /\ order \in Seq(Keys) /\ Distinct(order)
    /\ ToSet(order) = DOMAIN store
    /\ Len(order) <= MaxSize

\* Making room leaves the entries stored last, in order; if it drops any, exactly
\* Evict of a full cache, and each of them had been stored before those that stay.
LEMMA RoomFacts ==
    ASSUME ConstantsAssumption, OrderOK
    PROVE  /\ Room \in Seq(Keys) /\ Distinct(Room)
           /\ ToSet(Room) \subseteq ToSet(order)
           /\ Len(Room) <= MaxSize - 1
           /\ Follows(Room, order)
           /\ \A e \in ToSet(order) \ ToSet(Room) :
                 /\ Len(Room) = MaxSize - Evict
                 /\ \A f \in ToSet(Room) : \E p, q \in 1 .. Len(order) :
                       p < q /\ e = order[p] /\ f = order[q]
<1>1. /\ MaxSize \in Nat /\ Evict \in Nat \ {0} /\ Evict <= MaxSize
      /\ order \in Seq(Keys) /\ Len(order) \in Nat /\ Len(order) <= MaxSize
      /\ DOMAIN order = 1 .. Len(order)
  BY DEF ConstantsAssumption, OrderOK
<1>2. CASE ~Full
  <2>1. Room = order /\ Len(order) <= MaxSize - 1
    BY <1>1, <1>2 DEF Room, Full
  <2>2. Follows(order, order)
    BY DEF Follows
  <2>3. /\ Room \in Seq(Keys) /\ Distinct(Room) /\ Len(Room) <= MaxSize - 1
        /\ Follows(Room, order) /\ ToSet(Room) = ToSet(order)
    BY <1>1, <2>1, <2>2 DEF OrderOK
  <2> QED BY <2>3
<1>3. CASE Full
  <2> DEFINE s == SubSeq(order, Evict + 1, Len(order))
  <2>1. Room = s /\ Len(order) = MaxSize
    <3>1. Room = s
      BY <1>3 DEF Room, WithoutOldest
    <3>2. Len(order) >= MaxSize
      BY <1>3 DEF Full
    <3>3. MaxSize \in Nat /\ Len(order) \in Nat /\ Len(order) <= MaxSize
      BY <1>1
    <3>4. Len(order) = MaxSize
      BY <3>2, <3>3
    <3> QED BY <3>1, <3>4
  <2>2. /\ s \in Seq(Keys) /\ Len(s) = MaxSize - Evict
        /\ \A i \in 1 .. Len(s) : s[i] = order[i + Evict]
    BY <1>1, <2>1
  <2> HIDE DEF s
  <2>3. DOMAIN s = 1 .. Len(s) /\ \A i \in 1 .. Len(s) : i + Evict \in 1 .. Len(order)
    BY <1>1, <2>1, <2>2
  <2>4. Distinct(s)
    <3>1. SUFFICES ASSUME NEW a \in 1 .. Len(s), NEW b \in 1 .. Len(s), s[a] = s[b]
                   PROVE  a = b
      BY <2>3 DEF Distinct
    <3>2. a + Evict \in DOMAIN order /\ b + Evict \in DOMAIN order
          /\ order[a + Evict] = order[b + Evict]
      BY <1>1, <2>2, <2>3, <3>1
    <3>3. a + Evict = b + Evict
      BY <3>2 DEF OrderOK, Distinct
    <3> QED BY <1>1, <3>3
  <2>5. ToSet(s) \subseteq ToSet(order)
    <3>1. SUFFICES ASSUME NEW i \in 1 .. Len(s) PROVE s[i] \in ToSet(order)
      BY <2>3 DEF ToSet
    <3> QED BY <1>1, <2>2, <2>3 DEF ToSet
  <2>6. Follows(s, order)
    <3>1. SUFFICES ASSUME NEW i \in 1 .. Len(s), NEW j \in 1 .. Len(s), i < j
                   PROVE  \E p, q \in 1 .. Len(order) :
                             p < q /\ s[i] = order[p] /\ s[j] = order[q]
      BY DEF Follows
    <3>2. i + Evict < j + Evict
      BY <1>1, <3>1
    <3> QED BY <2>2, <2>3, <3>2
  <2>7. ASSUME NEW e \in ToSet(order) \ ToSet(s), NEW f \in ToSet(s)
        PROVE  \E p, q \in 1 .. Len(order) : p < q /\ e = order[p] /\ f = order[q]
    <3>1. PICK p \in 1 .. Len(order) : e = order[p]
      BY <1>1 DEF ToSet
    <3>2. PICK i \in 1 .. Len(s) : f = s[i]
      BY <2>3 DEF ToSet
    <3>3. p <= Evict
      <4>1. SUFFICES ASSUME p > Evict PROVE FALSE
        BY <1>1
      <4>2. p - Evict \in 1 .. Len(s)
        BY <1>1, <2>1, <2>2, <4>1
      <4>3. s[p - Evict] = order[p]
        <5>1. (p - Evict) + Evict = p
          BY <1>1
        <5> QED BY <2>2, <4>2, <5>1
      <4> QED BY <2>3, <2>7, <3>1, <4>2, <4>3 DEF ToSet
    <3>4. p < i + Evict
      BY <1>1, <3>3
    <3> QED BY <2>2, <2>3, <3>1, <3>2, <3>4
  <2>8. Len(s) <= MaxSize - 1
    BY <1>1, <2>2
  <2> QED BY <2>1, <2>2, <2>4, <2>5, <2>6, <2>7, <2>8
<1> QED BY <1>2, <1>3

\* The order after a put.
Stored(k) == Append(Without(Room, k), k)

LEMMA PutFacts ==
    ASSUME ConstantsAssumption, OrderOK, NEW k \in Keys
    PROVE  LET o == Stored(k)
           IN  /\ o \in Seq(Keys) /\ Distinct(o) /\ Len(o) <= MaxSize
               /\ k \in ToSet(o) /\ ToSet(o) \subseteq DOMAIN store \cup {k}
               /\ \A i, j \in 1 .. Len(o) : i < j =>
                     /\ o[i] # k
                     /\ \/ o[j] = k
                        \/ \E p, q \in 1 .. Len(order) :
                              p < q /\ o[i] = order[p] /\ o[j] = order[q]
               /\ \A e \in DOMAIN store \ ToSet(o) :
                     /\ e # k /\ Len(o) >= MaxSize - Evict
                     /\ \A f \in ToSet(o) \ {k} : \E p, q \in 1 .. Len(order) :
                           p < q /\ e = order[p] /\ f = order[q]
<1> DEFINE w == Without(Room, k)
           o == Stored(k)
<1>1. /\ Room \in Seq(Keys) /\ Distinct(Room)
      /\ ToSet(Room) \subseteq DOMAIN store
      /\ Len(Room) <= MaxSize - 1
      /\ Follows(Room, order)
      /\ \A e \in DOMAIN store \ ToSet(Room) :
            /\ Len(Room) = MaxSize - Evict
            /\ \A f \in ToSet(Room) : \E p, q \in 1 .. Len(order) :
                  p < q /\ e = order[p] /\ f = order[q]
  BY RoomFacts DEF OrderOK
<1>2. /\ w \in Seq(Keys) /\ Distinct(w) /\ ToSet(w) = ToSet(Room) \ {k}
      /\ Len(w) <= Len(Room) /\ Len(w) >= Len(Room) - 1
      /\ Follows(w, Room)
  BY <1>1, WithoutFacts
<1>3. o = Append(w, k)
  BY DEF Stored
<1> HIDE DEF w, o
<1>4. /\ o \in Seq(Keys) /\ Distinct(o) /\ ToSet(o) = ToSet(w) \cup {k}
      /\ Len(o) = Len(w) + 1
  BY <1>2, <1>3, AppendDistinct
<1>5. /\ o[Len(o)] = k
      /\ \A i \in 1 .. Len(w) : o[i] = w[i]
  BY <1>2, <1>3, <1>4
<1>6. /\ Len(w) \in Nat /\ Len(Room) \in Nat /\ MaxSize \in Nat
      /\ DOMAIN w = 1 .. Len(w) /\ Evict \in Nat /\ Evict <= MaxSize
  BY <1>1, <1>2 DEF ConstantsAssumption
<1>7. Len(o) <= MaxSize
  BY <1>1, <1>2, <1>4, <1>6
<1>8. ASSUME NEW i \in 1 .. Len(o), NEW j \in 1 .. Len(o), i < j
      PROVE  /\ o[i] # k
             /\ \/ o[j] = k
                \/ \E p, q \in 1 .. Len(order) :
                      p < q /\ o[i] = order[p] /\ o[j] = order[q]
  <2>1. i \in 1 .. Len(w) /\ o[i] = w[i]
    BY <1>4, <1>5, <1>6, <1>8
  <2>2. o[i] # k
    BY <1>2, <1>6, <2>1 DEF ToSet
  <2>3. CASE j = Len(o)
    BY <1>5, <2>2, <2>3
  <2>4. CASE j # Len(o)
    <3>1. j \in 1 .. Len(w) /\ o[j] = w[j]
      BY <1>4, <1>5, <1>6, <2>4
    <3>2. PICK a, b \in 1 .. Len(Room) : a < b /\ w[i] = Room[a] /\ w[j] = Room[b]
      BY <1>2, <1>8, <2>1, <3>1 DEF Follows
    <3>3. PICK p, q \in 1 .. Len(order) : p < q /\ Room[a] = order[p] /\ Room[b] = order[q]
      BY <1>1, <3>2 DEF Follows
    <3> QED BY <2>1, <2>2, <3>1, <3>2, <3>3
  <2> QED BY <2>3, <2>4
<1>9. ASSUME NEW e \in DOMAIN store \ ToSet(o)
      PROVE  /\ e # k /\ Len(o) >= MaxSize - Evict
             /\ \A f \in ToSet(o) \ {k} : \E p, q \in 1 .. Len(order) :
                   p < q /\ e = order[p] /\ f = order[q]
  <2>1. e # k /\ e \notin ToSet(Room)
    BY <1>2, <1>4, <1>9
  <2>2. /\ Len(Room) = MaxSize - Evict
        /\ \A f \in ToSet(Room) : \E p, q \in 1 .. Len(order) :
              p < q /\ e = order[p] /\ f = order[q]
    BY <1>1, <1>9, <2>1
  <2>3. Len(o) >= MaxSize - Evict
    BY <1>2, <1>4, <1>6, <2>2
  <2>4. ToSet(o) \ {k} \subseteq ToSet(Room)
    BY <1>2, <1>4
  <2> QED BY <2>1, <2>2, <2>3, <2>4
<1>10. k \in ToSet(o) /\ ToSet(o) \subseteq DOMAIN store \cup {k}
  BY <1>1, <1>2, <1>4
<1> QED BY <1>4, <1>7, <1>8, <1>9, <1>10 DEF o

-----------------------------------------------------------------------------
(* Types.  A request that is open asks for a key and began in the past.        *)

Entry == [at : Nat, value : Nat]

StoreTyped ==
    /\ DOMAIN store \subseteq Keys /\ store \in [DOMAIN store -> Entry]
    /\ newer \in [Keys -> SUBSET Keys]
    /\ OrderOK

RequestTyped ==
    /\ now \in Nat
    /\ since \in [Keys -> Seq(Nat)]
    /\ pc \in [Requests -> {"idle", "native", "tikhub", "answered", "failed"}]
    /\ key \in [Requests -> Keys \cup {NoKey}]
    /\ start \in [Requests -> Nat]
    /\ got \in [Requests -> Nat]
    /\ asked \in [Requests -> SUBSET {"native", "tikhub"}]

RequestOK == \A r \in Requests : Busy(r) => key[r] \in Keys /\ start[r] <= now

TypeInv == StoreTyped /\ RequestTyped /\ RequestOK

LEMMA TypeInvTypes == TypeInv => TypeOK
<1> SUFFICES ASSUME TypeInv PROVE TypeOK
  OBVIOUS
<1>1. Cardinality(DOMAIN store) <= MaxSize
  BY DistinctCardinality DEF TypeInv, StoreTyped, OrderOK
<1> QED BY <1>1 DEF TypeInv, StoreTyped, RequestTyped, OrderOK, Distinct, TypeOK, Entry

LEMMA TypeInit == ConstantsAssumption /\ Init => TypeInv
<1> SUFFICES ASSUME ConstantsAssumption, Init PROVE TypeInv
  OBVIOUS
<1>1. DOMAIN store = {} /\ store \in [DOMAIN store -> Entry]
  BY DEF Init, Entry
<1>2. OrderOK
  <2>1. order \in Seq(Keys) /\ Distinct(order) /\ Len(order) = 0 /\ ToSet(order) = {}
    BY DEF Init, Distinct, ToSet
  <2> QED BY <1>1, <2>1 DEF OrderOK, ConstantsAssumption
<1>3. since \in [Keys -> Seq(Nat)]
  BY DEF Init
<1> QED BY <1>1, <1>2, <1>3 DEF Init, TypeInv, StoreTyped, RequestTyped, RequestOK, Busy

\* A put leaves the store typed.
LEMMA PutTypes ==
    ASSUME ConstantsAssumption, StoreTyped, RequestTyped,
           NEW r \in Requests, key[r] \in Keys, Put(r)
    PROVE  StoreTyped'
<1> DEFINE k == key[r]
           o == Stored(k)
<1>1. /\ o \in Seq(Keys) /\ Distinct(o) /\ Len(o) <= MaxSize
      /\ k \in ToSet(o) /\ ToSet(o) \subseteq DOMAIN store \cup {k}
  BY PutFacts DEF StoreTyped
<1>2. /\ order' = o
      /\ store' = [j \in ToSet(o) |-> IF j = k THEN NewEntry(r) ELSE store[j]]
      /\ newer' = [j \in Keys |-> IF j = k THEN {} ELSE newer[j] \cup {k}]
  BY DEF Put, Stored
<1>3. NewEntry(r) \in Entry
  BY DEF NewEntry, Entry, RequestTyped
<1> HIDE DEF o
<1>4. DOMAIN store' \subseteq Keys /\ store' \in [DOMAIN store' -> Entry]
  BY <1>1, <1>2, <1>3 DEF StoreTyped
<1>5. newer' \in [Keys -> SUBSET Keys]
  BY <1>2 DEF StoreTyped
<1>6. OrderOK'
  BY <1>1, <1>2 DEF OrderOK
<1> QED BY <1>4, <1>5, <1>6 DEF StoreTyped

\* What an answer does, with results that are stored or without.
LEMMA AnswersDoes ==
    ASSUME NEW r \in Requests, Answers(r)
    PROVE  /\ pc' = [pc EXCEPT ![r] = "answered"]
           /\ UNCHANGED <<now, since, key, start, asked, got>>
           /\ \/ got[r] # 0 /\ Put(r)
              \/ got[r] = 0 /\ UNCHANGED <<store, order, newer>>
BY DEF Answers, Ends, Stores

LEMMA MissStore ==
    ASSUME StoreTyped, NEW k \in Keys,
           store' = [j \in (DOMAIN store) \ {k} |-> store[j]], order' = Without(order, k),
           newer' = newer
    PROVE  StoreTyped'
<1>1. /\ order' \in Seq(Keys) /\ Distinct(order')
      /\ ToSet(order') = ToSet(order) \ {k} /\ Len(order') <= Len(order)
  BY WithoutFacts DEF StoreTyped, OrderOK
<1>2. Len(order) \in Nat /\ Len(order) <= MaxSize
  BY DEF StoreTyped, OrderOK
<1>3. Len(order') <= MaxSize
  <2>1. Len(order') \in Nat
    BY <1>1
  <2>2. CASE MaxSize \in Nat
    BY <1>1, <1>2, <2>1, <2>2
  <2> QED BY <2>2, ConstantsAssumption DEF ConstantsAssumption
<1>4. OrderOK'
  BY <1>1, <1>3 DEF OrderOK, StoreTyped
<1>5. DOMAIN store' \subseteq Keys /\ store' \in [DOMAIN store' -> Entry]
  BY DEF StoreTyped
<1> QED BY <1>4, <1>5 DEF StoreTyped

LEMMA TypeNext == ConstantsAssumption /\ TypeInv /\ [Next]_vars => TypeInv'
<1> SUFFICES ASSUME ConstantsAssumption, TypeInv, [Next]_vars PROVE TypeInv'
  OBVIOUS
<1>0. StoreTyped /\ RequestTyped /\ RequestOK
  BY DEF TypeInv
<1>1. ASSUME NEW r \in Requests, NEW k \in Keys, Hit(r, k) PROVE TypeInv'
  <2>1. store[k] \in Entry
    BY <1>0, <1>1 DEF Hit, Live, StoreTyped
  <2>2. StoreTyped'
    BY <1>0, <1>1 DEF Hit, StoreTyped, OrderOK
  <2>3. RequestTyped'
    BY <1>0, <1>1, <2>1 DEF Hit, RequestTyped, Entry
  <2>4. RequestOK'
    BY <1>0, <1>1 DEF Hit, RequestOK, RequestTyped, Busy
  <2> QED BY <2>2, <2>3, <2>4 DEF TypeInv
<1>2. ASSUME NEW r \in Requests, NEW k \in Keys, Miss(r, k) PROVE TypeInv'
  <2>1. StoreTyped'
    BY <1>0, <1>2, MissStore DEF Miss
  <2>2. RequestTyped'
    BY <1>0, <1>2 DEF Miss, RequestTyped
  <2>3. RequestOK'
    BY <1>0, <1>2 DEF Miss, RequestOK, RequestTyped, Busy
  <2> QED BY <2>1, <2>2, <2>3 DEF TypeInv
<1>3. ASSUME NEW r \in Requests, SourceReads(r) PROVE TypeInv'
  <2>1. Len(since[key[r]]) \in Nat
    BY <1>0, <1>3 DEF SourceReads, RequestTyped, RequestOK
  <2>2. StoreTyped'
    BY <1>0, <1>3 DEF SourceReads, StoreTyped, OrderOK
  <2>3. RequestTyped' /\ RequestOK'
    BY <1>0, <1>3, <2>1 DEF SourceReads, RequestTyped, RequestOK, Busy
  <2> QED BY <2>2, <2>3 DEF TypeInv
<1>4. ASSUME NEW r \in Requests, Busy(r), Answers(r) PROVE TypeInv'
  <2>1. StoreTyped'
    <3>1. CASE Put(r)
      BY <1>0, <1>4, <3>1, PutTypes DEF RequestOK
    <3>2. CASE UNCHANGED <<store, order, newer>>
      BY <1>0, <3>2 DEF StoreTyped, OrderOK
    <3> QED BY <1>4, <3>1, <3>2, AnswersDoes
  <2>2. /\ pc' = [pc EXCEPT ![r] = "answered"]
        /\ UNCHANGED <<now, since, key, start, asked, got>>
    BY <1>4, AnswersDoes
  <2>3. RequestTyped' /\ RequestOK'
    BY <1>0, <2>2 DEF RequestTyped, RequestOK, Busy
  <2> QED BY <2>1, <2>3 DEF TypeInv
<1>5. ASSUME NEW r \in Requests, NativeFails(r) \/ TikHubFails(r) PROVE TypeInv'
  <2>1. StoreTyped'
    BY <1>0, <1>5 DEF NativeFails, TikHubFails, StoreTyped, OrderOK
  <2>2. /\ UNCHANGED <<now, since, key, start>> /\ Busy(r)
        /\ got' = [got EXCEPT ![r] = 0]
        /\ \E e \in {"tikhub", "failed"} : pc' = [pc EXCEPT ![r] = e]
    BY <1>5 DEF NativeFails, TikHubFails, Ends, Busy
  <2>3. asked' \in [Requests -> SUBSET {"native", "tikhub"}]
    <3>1. asked' = asked \/ asked' = [asked EXCEPT ![r] = asked[r] \cup {"tikhub"}]
      BY <1>5 DEF NativeFails, TikHubFails, Ends
    <3>2. asked[r] \cup {"tikhub"} \in SUBSET {"native", "tikhub"}
      BY <1>0 DEF RequestTyped
    <3> QED BY <1>0, <3>1, <3>2 DEF RequestTyped
  <2>4. RequestTyped'
    BY <1>0, <2>2, <2>3 DEF RequestTyped
  <2>5. RequestOK'
    BY <1>0, <2>2 DEF RequestOK, RequestTyped, Busy
  <2> QED BY <2>1, <2>4, <2>5 DEF TypeInv
<1>6. ASSUME NEW k \in Keys, Publish(k) PROVE TypeInv'
  <2>1. since' \in [Keys -> Seq(Nat)]
    BY <1>0, <1>6 DEF Publish, RequestTyped
  <2>2. StoreTyped'
    BY <1>0, <1>6 DEF Publish, StoreTyped, OrderOK
  <2>3. RequestTyped' /\ RequestOK'
    BY <1>0, <1>6, <2>1 DEF Publish, requestVars, RequestTyped, RequestOK, Busy
  <2> QED BY <2>2, <2>3 DEF TypeInv
<1>7. CASE Tick
  <2>1. StoreTyped'
    BY <1>0, <1>7 DEF Tick, StoreTyped, OrderOK
  <2>2. RequestTyped' /\ RequestOK'
    BY <1>0, <1>7 DEF Tick, requestVars, RequestTyped, RequestOK, Busy
  <2> QED BY <2>1, <2>2 DEF TypeInv
<1>8. CASE UNCHANGED vars
  BY <1>0, <1>8 DEF vars, requestVars, TypeInv, StoreTyped, OrderOK, RequestTyped, RequestOK, Busy
<1>9. ASSUME NEW r \in Requests, NativeFinds(r) \/ TikHubAnswers(r)
      PROVE  Busy(r) /\ Answers(r)
  BY <1>9 DEF NativeFinds, TikHubAnswers, Busy
<1> QED BY <1>1, <1>2, <1>3, <1>4, <1>5, <1>6, <1>7, <1>8, <1>9 DEF Next, Step

\* Every reachable state is well typed: the order lists the keys of the store, each
\* once, and the store never holds more than TIKTOK_CACHE_MAX_SIZE results.
THEOREM SearchTypes == Spec => []TypeOK
<1>1. Init => TypeInv
  BY TypeInit, ConstantsAssumption
<1>2. TypeInv /\ [Next]_vars => TypeInv'
  BY TypeNext, ConstantsAssumption
<1> QED BY <1>1, <1>2, TypeInvTypes, PTL DEF Spec

-----------------------------------------------------------------------------
(* Searches beside a live result, and searches that find nothing.              *)

BesideInv == TypeInv /\ SearchBesideLiveEntry

LEMMA BesideNext == ConstantsAssumption /\ BesideInv /\ [Next]_vars => BesideInv'
<1> SUFFICES ASSUME ConstantsAssumption, BesideInv, [Next]_vars PROVE BesideInv'
  OBVIOUS
<1>0. /\ TypeInv /\ TypeInv' /\ StoreTyped /\ StoreTyped' /\ RequestTyped /\ RequestTyped' /\ RequestOK
      /\ SearchBesideLiveEntry
  BY TypeNext DEF BesideInv, TypeInv
<1>n. now \in Nat /\ Ttl \in Nat
  BY <1>0 DEF RequestTyped, ConstantsAssumption
<1>1. ASSUME NEW r \in Requests, NEW k \in Keys, Hit(r, k) PROVE SearchBesideLiveEntry'
  BY <1>0, <1>1 DEF Hit, RequestTyped, SearchBesideLiveEntry, Busy, Live
<1>2. ASSUME NEW r \in Requests, NEW k \in Keys, Miss(r, k) PROVE SearchBesideLiveEntry'
  <2>1. SUFFICES ASSUME NEW q \in Requests, Busy(q)', Live(key[q])'
                 PROVE  start'[q] <= store'[key'[q]].at
    BY DEF SearchBesideLiveEntry
  <2>2. /\ k \notin DOMAIN store' /\ now' = now
        /\ \A j \in DOMAIN store' : j \in DOMAIN store /\ store'[j] = store[j]
    BY <1>2 DEF Miss
  <2>3. q # r
    BY <1>0, <1>2, <2>1, <2>2 DEF Miss, Live, RequestTyped
  <2>4. pc'[q] = pc[q] /\ key'[q] = key[q] /\ start'[q] = start[q]
    BY <1>0, <1>2, <2>3 DEF Miss, RequestTyped
  <2>5. Busy(q) /\ Live(key[q]) /\ store'[key'[q]] = store[key[q]]
    BY <2>1, <2>2, <2>4 DEF Busy, Live
  <2> QED BY <1>0, <2>4, <2>5 DEF SearchBesideLiveEntry
<1>3. ASSUME NEW r \in Requests, Answers(r), Busy(r) PROVE SearchBesideLiveEntry'
  <2>1. SUFFICES ASSUME NEW q \in Requests, Busy(q)', Live(key[q])'
                 PROVE  start'[q] <= store'[key'[q]].at
    BY DEF SearchBesideLiveEntry
  <2>2. /\ pc' = [pc EXCEPT ![r] = "answered"]
        /\ UNCHANGED <<now, since, key, start, asked, got>>
    BY <1>3, AnswersDoes
  <2>3. Busy(q)
    BY <1>0, <2>1, <2>2 DEF Busy, RequestTyped
  <2>4. CASE UNCHANGED <<store, order, newer>>
    BY <1>0, <2>1, <2>2, <2>3, <2>4 DEF SearchBesideLiveEntry, Live
  <2>5. CASE Put(r)
    <3>1. \A j \in DOMAIN store' :
             IF j = key[r] THEN store'[j].at = now
             ELSE j \in DOMAIN store /\ store'[j] = store[j]
      <4>1. key[r] \in Keys /\ ToSet(Stored(key[r])) \subseteq DOMAIN store \cup {key[r]}
        BY <1>0, <1>3, PutFacts DEF RequestOK, StoreTyped
      <4> QED BY <2>5, <4>1 DEF Put, Stored, NewEntry
    <3>2. CASE key[q] = key[r]
      BY <1>0, <2>1, <2>2, <2>3, <3>1, <3>2 DEF RequestOK, Live
    <3>3. CASE key[q] # key[r]
      BY <1>0, <2>1, <2>2, <2>3, <3>1, <3>3 DEF SearchBesideLiveEntry, Live
    <3> QED BY <3>2, <3>3
  <2> QED BY <1>3, <2>4, <2>5, AnswersDoes
<1>4. ASSUME NEW r \in Requests, NativeFails(r) \/ TikHubFails(r) PROVE SearchBesideLiveEntry'
  <2>1. SUFFICES ASSUME NEW q \in Requests, Busy(q)', Live(key[q])'
                 PROVE  start'[q] <= store'[key'[q]].at
    BY DEF SearchBesideLiveEntry
  <2>2. /\ UNCHANGED <<now, since, store, key, start>> /\ Busy(r)
        /\ \E e \in {"tikhub", "failed"} : pc' = [pc EXCEPT ![r] = e]
    BY <1>4 DEF NativeFails, TikHubFails, Ends, Busy
  <2>3. Busy(q) /\ Live(key[q])
    BY <1>0, <2>1, <2>2 DEF Busy, Live, RequestTyped
  <2> QED BY <1>0, <2>2, <2>3 DEF SearchBesideLiveEntry
<1>5. ASSUME Tick PROVE SearchBesideLiveEntry'
  <2>1. SUFFICES ASSUME NEW q \in Requests, Busy(q)', Live(key[q])'
                 PROVE  start'[q] <= store'[key'[q]].at
    BY DEF SearchBesideLiveEntry
  <2>2. now' = now + 1 /\ UNCHANGED <<store, pc, key, start>>
    BY <1>5 DEF Tick, requestVars
  <2>3. key[q] \in DOMAIN store /\ (now + 1) - store[key[q]].at < Ttl
    BY <2>1, <2>2 DEF Live
  <2>4. store[key[q]].at \in Nat
    BY <1>0, <2>3 DEF StoreTyped, Entry
  <2>5. now - store[key[q]].at < Ttl
    BY <1>n, <2>3, <2>4
  <2>6. Busy(q) /\ Live(key[q])
    BY <2>1, <2>2, <2>3, <2>5 DEF Busy, Live
  <2> QED BY <1>0, <2>2, <2>6 DEF SearchBesideLiveEntry
<1>6. ASSUME UNCHANGED <<now, store, pc, key, start>> PROVE SearchBesideLiveEntry'
  BY <1>0, <1>6 DEF SearchBesideLiveEntry, Busy, Live
<1>7. ASSUME NEW r \in Requests, NativeFinds(r) \/ TikHubAnswers(r)
      PROVE  Busy(r) /\ Answers(r)
  BY <1>7 DEF NativeFinds, TikHubAnswers, Busy
<1>8. \/ \E r \in Requests : SourceReads(r)
      \/ \E k \in Keys : Publish(k)
      \/ UNCHANGED vars
      => UNCHANGED <<now, store, pc, key, start>>
  BY DEF SourceReads, Publish, requestVars, vars
<1>9. SearchBesideLiveEntry'
  BY <1>1, <1>2, <1>3, <1>4, <1>5, <1>6, <1>7, <1>8 DEF Next, Step
<1> QED BY <1>0, <1>9 DEF BesideInv

\* Two searches for one key at a time come from overlapping misses only: a search
\* beside a live result began before that result was stored.
THEOREM OverlappingMissesOnly == Spec => []SearchBesideLiveEntry
<1>1. Init => BesideInv
  <2> SUFFICES ASSUME Init PROVE BesideInv
    OBVIOUS
  <2>1. TypeInv
    BY TypeInit, ConstantsAssumption
  <2> QED BY <2>1 DEF Init, BesideInv, SearchBesideLiveEntry, Busy
<1>2. BesideInv /\ [Next]_vars => BesideInv'
  BY BesideNext, ConstantsAssumption
<1>3. BesideInv => SearchBesideLiveEntry
  BY DEF BesideInv
<1> QED BY <1>1, <1>2, <1>3, PTL DEF Spec

\* What a request has asked, by where it stands; a stored result has videos.
AskedOK ==
    \A r \in Requests :
        /\ pc[r] = "native" => asked[r] = {"native"}
        /\ pc[r] = "tikhub" => asked[r] = {"native", "tikhub"}
        /\ pc[r] \in {"answered", "failed"} /\ got[r] = 0 => asked[r] = {"native", "tikhub"}

StoredVideos == \A k \in DOMAIN store : store[k].value # 0

AskedInv == TypeInv /\ AskedOK /\ StoredVideos

LEMMA AskedNext == ConstantsAssumption /\ AskedInv /\ [Next]_vars => AskedInv'
<1> SUFFICES ASSUME ConstantsAssumption, AskedInv, [Next]_vars PROVE AskedInv'
  OBVIOUS
<1>0. TypeInv' /\ StoreTyped /\ RequestTyped /\ RequestOK /\ AskedOK /\ StoredVideos
  BY TypeNext DEF AskedInv, TypeInv
<1>1. ASSUME NEW r \in Requests, NEW k \in Keys, Hit(r, k) PROVE AskedOK' /\ StoredVideos'
  <2>1. /\ pc' = [pc EXCEPT ![r] = "answered"] /\ asked' = [asked EXCEPT ![r] = {}]
        /\ got' = [got EXCEPT ![r] = store[k].value] /\ store' = store
        /\ store[k].value # 0
    BY <1>0, <1>1 DEF Hit, Live, StoredVideos
  <2> QED BY <1>0, <2>1 DEF AskedOK, StoredVideos, RequestTyped
<1>2. ASSUME NEW r \in Requests, NEW k \in Keys, Miss(r, k) PROVE AskedOK' /\ StoredVideos'
  BY <1>0, <1>2 DEF Miss, AskedOK, StoredVideos, RequestTyped
<1>3. ASSUME NEW r \in Requests, SourceReads(r) PROVE AskedOK' /\ StoredVideos'
  BY <1>0, <1>3 DEF SourceReads, Busy, AskedOK, StoredVideos, RequestTyped
<1>4. ASSUME NEW r \in Requests, NativeFinds(r) \/ TikHubAnswers(r)
      PROVE  AskedOK' /\ StoredVideos'
  <2>1. Busy(r) /\ Answers(r) /\ (pc[r] = "native" => got[r] # 0)
    BY <1>4 DEF NativeFinds, TikHubAnswers, Busy
  <2>2. /\ pc' = [pc EXCEPT ![r] = "answered"]
        /\ UNCHANGED <<asked, got>>
        /\ \/ got[r] # 0 /\ Put(r)
           \/ UNCHANGED store
    BY <2>1, AnswersDoes
  <2>3. AskedOK'
    BY <1>0, <2>1, <2>2 DEF AskedOK, RequestTyped, Busy
  <2>4. CASE got[r] # 0 /\ Put(r)
    <3>1. key[r] \in Keys /\ ToSet(Stored(key[r])) \subseteq DOMAIN store \cup {key[r]}
      BY <1>0, <2>1, PutFacts DEF RequestOK, StoreTyped
    <3> QED BY <1>0, <2>3, <2>4, <3>1 DEF Put, Stored, NewEntry, StoredVideos
  <2>5. CASE UNCHANGED store
    BY <1>0, <2>3, <2>5 DEF StoredVideos
  <2> QED BY <2>2, <2>4, <2>5
<1>5. ASSUME NEW r \in Requests, NativeFails(r) PROVE AskedOK' /\ StoredVideos'
  <2>1. asked' = [asked EXCEPT ![r] = asked[r] \cup {"tikhub"}]
    BY <1>5 DEF NativeFails
  <2>2. asked[r] \cup {"tikhub"} = {"native", "tikhub"}
    BY <1>0, <1>5 DEF NativeFails, AskedOK
  <2> QED BY <1>0, <1>5, <2>1, <2>2 DEF NativeFails, AskedOK, StoredVideos, RequestTyped
<1>6. ASSUME NEW r \in Requests, TikHubFails(r) PROVE AskedOK' /\ StoredVideos'
  BY <1>0, <1>6 DEF TikHubFails, Ends, AskedOK, StoredVideos, RequestTyped
<1>7. \/ \E k \in Keys : Publish(k)
      \/ Tick
      \/ UNCHANGED vars
      => UNCHANGED <<store, pc, got, asked>>
  BY DEF Publish, Tick, requestVars, vars
<1>8. ASSUME UNCHANGED <<store, pc, got, asked>> PROVE AskedOK' /\ StoredVideos'
  BY <1>0, <1>8 DEF AskedOK, StoredVideos
<1>9. AskedOK' /\ StoredVideos'
  BY <1>1, <1>2, <1>3, <1>4, <1>5, <1>6, <1>7, <1>8 DEF Next, Step
<1> QED BY <1>0, <1>9 DEF AskedInv

\* A search that ends without videos has asked native and TikHub itself.
THEOREM NothingFoundIsEarned == Spec => []EmptyOnlyFromBoth
<1>1. Init => AskedInv
  <2> SUFFICES ASSUME Init PROVE AskedInv
    OBVIOUS
  <2>1. TypeInv
    BY TypeInit, ConstantsAssumption
  <2> QED BY <2>1 DEF Init, AskedInv, AskedOK, StoredVideos
<1>2. AskedInv /\ [Next]_vars => AskedInv'
  BY AskedNext, ConstantsAssumption
<1>3. AskedInv => EmptyOnlyFromBoth
  BY DEF AskedInv, AskedOK, EmptyOnlyFromBoth
<1> QED BY <1>1, <1>2, <1>3, PTL DEF Spec

-----------------------------------------------------------------------------
(* What a put into a full cache gives up.                                      *)

\* Each entry has been stored since every entry before it in the order.
NewerOK == \A i, j \in DOMAIN order : i < j => order[j] \in newer[order[i]]

NewerInv == TypeInv /\ NewerOK

LEMMA KeySetSizes ==
    ASSUME ConstantsAssumption, NEW A \in SUBSET Keys
    PROVE  IsFiniteSet(A) /\ Cardinality(A) \in Nat
BY FS_Subset, FS_CardinalityType DEF ConstantsAssumption

\* The put itself: what it stores comes last, what it drops is older than the rest.
LEMMA PutNewer ==
    ASSUME ConstantsAssumption, StoreTyped, NewerOK, NEW r \in Requests, key[r] \in Keys, Put(r)
    PROVE  /\ NewerOK'
           /\ \A e \in DOMAIN store : e \notin DOMAIN store' =>
                 /\ DOMAIN store' \subseteq newer'[e]
                 /\ Cardinality(DOMAIN store') >= MaxSize - Evict
<1> DEFINE k == key[r]
           o == Stored(k)
<1>1. /\ o \in Seq(Keys) /\ Distinct(o)
      /\ ToSet(o) \subseteq DOMAIN store \cup {k}
      /\ \A i, j \in 1 .. Len(o) : i < j =>
            /\ o[i] # k
            /\ \/ o[j] = k
               \/ \E p, q \in 1 .. Len(order) :
                     p < q /\ o[i] = order[p] /\ o[j] = order[q]
      /\ \A e \in DOMAIN store \ ToSet(o) :
            /\ e # k /\ Len(o) >= MaxSize - Evict
            /\ \A f \in ToSet(o) \ {k} : \E p, q \in 1 .. Len(order) :
                  p < q /\ e = order[p] /\ f = order[q]
  BY PutFacts DEF StoreTyped
<1>2. /\ order' = o /\ DOMAIN store' = ToSet(o)
      /\ newer' = [j \in Keys |-> IF j = k THEN {} ELSE newer[j] \cup {k}]
  BY DEF Put, Stored
<1> HIDE DEF o
<1>3. DOMAIN o = 1 .. Len(o) /\ DOMAIN order = 1 .. Len(order)
  BY <1>1 DEF StoreTyped, OrderOK
<1>4. \A p, q \in 1 .. Len(order) : p < q => order[q] \in newer[order[p]]
  BY <1>3 DEF NewerOK
<1>5. NewerOK'
  <2>1. SUFFICES ASSUME NEW i \in 1 .. Len(o), NEW j \in 1 .. Len(o), i < j
                 PROVE  o[j] \in newer'[o[i]]
    BY <1>2, <1>3 DEF NewerOK
  <2>2. o[i] \in Keys /\ o[i] # k
    BY <1>1, <2>1
  <2>3. newer'[o[i]] = newer[o[i]] \cup {k}
    BY <1>2, <2>2
  <2>4. CASE o[j] = k
    BY <2>3, <2>4
  <2>5. CASE o[j] # k
    <3>1. PICK p, q \in 1 .. Len(order) : p < q /\ o[i] = order[p] /\ o[j] = order[q]
      BY <1>1, <2>1, <2>5
    <3>2. order[q] \in newer[order[p]]
      BY <1>4, <3>1
    <3> QED BY <2>3, <3>1, <3>2
  <2> QED BY <2>4, <2>5
<1>6. ASSUME NEW e \in DOMAIN store, e \notin DOMAIN store'
      PROVE  /\ DOMAIN store' \subseteq newer'[e]
             /\ Cardinality(DOMAIN store') >= MaxSize - Evict
  <2>1. e \in DOMAIN store \ ToSet(o) /\ e \in Keys
    BY <1>2, <1>6 DEF StoreTyped
  <2>2. /\ e # k /\ Len(o) >= MaxSize - Evict
        /\ \A f \in ToSet(o) \ {k} : \E p, q \in 1 .. Len(order) :
              p < q /\ e = order[p] /\ f = order[q]
    BY <1>1, <2>1
  <2>3. newer'[e] = newer[e] \cup {k}
    BY <1>2, <2>1, <2>2
  <2>4. ASSUME NEW f \in ToSet(o) PROVE f \in newer'[e]
    <3>1. CASE f = k
      BY <2>3, <3>1
    <3>2. CASE f # k
      <4>1. PICK p, q \in 1 .. Len(order) : p < q /\ e = order[p] /\ f = order[q]
        BY <2>2, <3>2
      <4>2. order[q] \in newer[order[p]]
        BY <1>4, <4>1
      <4> QED BY <2>3, <4>1, <4>2
    <3> QED BY <3>1, <3>2
  <2>5. Cardinality(ToSet(o)) = Len(o)
    BY <1>1, DistinctCardinality
  <2> QED BY <1>2, <2>2, <2>4, <2>5
<1> QED BY <1>5, <1>6

LEMMA NewerNext == ConstantsAssumption /\ NewerInv /\ [Next]_vars => NewerInv'
<1> SUFFICES ASSUME ConstantsAssumption, NewerInv, [Next]_vars PROVE NewerInv'
  OBVIOUS
<1>0. TypeInv' /\ StoreTyped /\ RequestTyped /\ RequestOK /\ NewerOK
  BY TypeNext DEF NewerInv, TypeInv
<1>1. ASSUME NEW r \in Requests, NEW k \in Keys, Miss(r, k) PROVE NewerOK'
  <2> DEFINE w == Without(order, k)
  <2>1. /\ w \in Seq(Keys) /\ Follows(w, order)
        /\ DOMAIN order = 1 .. Len(order)
    BY <1>0, WithoutFacts DEF StoreTyped, OrderOK
  <2>2. order' = w /\ newer' = newer
    BY <1>1 DEF Miss
  <2> HIDE DEF w
  <2>3. SUFFICES ASSUME NEW i \in 1 .. Len(w), NEW j \in 1 .. Len(w), i < j
                 PROVE  w[j] \in newer[w[i]]
    BY <2>1, <2>2 DEF NewerOK
  <2>4. PICK p, q \in 1 .. Len(order) : p < q /\ w[i] = order[p] /\ w[j] = order[q]
    BY <2>1, <2>3 DEF Follows
  <2> QED BY <1>0, <2>1, <2>4 DEF NewerOK
<1>2. ASSUME NEW r \in Requests, Busy(r), Answers(r) PROVE NewerOK'
  <2>1. CASE Put(r)
    BY <1>0, <1>2, <2>1, PutNewer DEF RequestOK
  <2>2. CASE UNCHANGED <<store, order, newer>>
    BY <1>0, <2>2 DEF NewerOK
  <2> QED BY <1>2, <2>1, <2>2, AnswersDoes
<1>3. ASSUME UNCHANGED <<order, newer>> PROVE NewerOK'
  BY <1>0, <1>3 DEF NewerOK
<1>4. \/ \E r \in Requests, k \in Keys : Hit(r, k)
      \/ \E r \in Requests : SourceReads(r) \/ NativeFails(r) \/ TikHubFails(r)
      \/ \E k \in Keys : Publish(k)
      \/ Tick
      \/ UNCHANGED vars
      => UNCHANGED <<order, newer>>
  BY DEF Hit, SourceReads, NativeFails, TikHubFails, Publish, Tick, vars
<1>5. ASSUME NEW r \in Requests, NativeFinds(r) \/ TikHubAnswers(r)
      PROVE  Busy(r) /\ Answers(r)
  BY <1>5 DEF NativeFinds, TikHubAnswers, Busy
<1>6. NewerOK'
  BY <1>1, <1>2, <1>3, <1>4, <1>5 DEF Next, Step
<1> QED BY <1>0, <1>6 DEF NewerInv

\* A put into a full cache takes the oldest results only, and leaves MaxSize - Evict.
THEOREM OldestGo == Spec => OldestMakeRoom
<1>1. Init => NewerInv
  <2> SUFFICES ASSUME Init PROVE NewerInv
    OBVIOUS
  <2>1. TypeInv
    BY TypeInit, ConstantsAssumption
  <2> QED BY <2>1 DEF Init, NewerInv, NewerOK
<1>2. NewerInv /\ [Next]_vars => NewerInv'
  BY NewerNext, ConstantsAssumption
<1>3. NewerInv /\ [Next]_vars =>
        [\A k \in DOMAIN store : Live(k) /\ k \notin DOMAIN store' =>
            /\ DOMAIN store' \subseteq newer'[k]
            /\ Cardinality(DOMAIN store') >= MaxSize - Evict]_vars
  <2> SUFFICES ASSUME NewerInv, Next, NEW e \in DOMAIN store, Live(e), e \notin DOMAIN store'
               PROVE  /\ DOMAIN store' \subseteq newer'[e]
                      /\ Cardinality(DOMAIN store') >= MaxSize - Evict
    OBVIOUS
  <2>0. StoreTyped /\ RequestOK /\ NewerOK
    BY DEF NewerInv, TypeInv
  <2>1. ASSUME NEW r \in Requests, NEW k \in Keys, Miss(r, k) PROVE FALSE
    BY <2>1 DEF Miss, Live
  <2>2. ASSUME NEW r \in Requests, NativeFinds(r) \/ TikHubAnswers(r)
        PROVE  key[r] \in Keys /\ Put(r)
    <3>1. Busy(r) /\ Answers(r)
      BY <2>2 DEF NativeFinds, TikHubAnswers, Busy
    <3>2. store' # store
      OBVIOUS
    <3> QED BY <2>0, <3>1, <3>2, AnswersDoes DEF RequestOK
  <2>3. \/ \E r \in Requests, k \in Keys : Hit(r, k)
        \/ \E r \in Requests : SourceReads(r) \/ NativeFails(r) \/ TikHubFails(r)
        \/ \E k \in Keys : Publish(k)
        \/ Tick
        => UNCHANGED store
    BY DEF Hit, SourceReads, NativeFails, TikHubFails, Publish, Tick
  <2>4. \E r \in Requests : NativeFinds(r) \/ TikHubAnswers(r)
    BY <2>1, <2>3 DEF Next, Step
  <2> QED BY <2>0, <2>2, <2>4, PutNewer, ConstantsAssumption
<1> QED BY <1>1, <1>2, <1>3, PTL DEF Spec, OldestMakeRoom

-----------------------------------------------------------------------------
(* Every answer keeps the promise of bounded staleness.                        *)

\* A result was stored in the past and at most MaxCall after its successor appeared.
EntryFresh ==
    \A k \in DOMAIN store :
        /\ store[k].at <= now
        /\ store[k].value \in 1 .. Len(since[k])
        /\ store[k].value < Len(since[k]) =>
              store[k].at <= since[k][store[k].value + 1] + MaxCall

\* What an open request was handed was current when it began, or later.
CallFresh ==
    \A r \in Requests : Busy(r) =>
        /\ now <= start[r] + MaxCall
        /\ got[r] <= Len(since[key[r]])
        /\ 0 < got[r] /\ got[r] < Len(since[key[r]]) =>
              start[r] <= since[key[r]][got[r] + 1]

FreshInv == TypeInv /\ EntryFresh /\ CallFresh

LEMMA FollowingVersion ==
    ASSUME RequestTyped, NEW k \in Keys, NEW v \in Nat, v > 0, v < Len(since[k])
    PROVE  v + 1 \in 1 .. Len(since[k]) /\ since[k][v + 1] \in Nat
<1>1. since[k] \in Seq(Nat) /\ Len(since[k]) \in Nat
  BY DEF RequestTyped
<1>2. v + 1 \in 1 .. Len(since[k])
  BY <1>1
<1> QED BY <1>1, <1>2

\* A call that ends in time stores a result that is as fresh as EntryFresh asks.
LEMMA StoredInTime == \A n, b, s, m \in Nat : n <= b + m /\ b <= s => n <= s + m
  OBVIOUS

LEMMA FreshPublish ==
    ASSUME FreshInv, NEW k \in Keys, Publish(k)
    PROVE  EntryFresh' /\ CallFresh'
<1>0. StoreTyped /\ RequestTyped /\ RequestOK /\ EntryFresh /\ CallFresh
  BY DEF FreshInv, TypeInv
<1>n. now \in Nat /\ MaxCall \in Nat
  BY <1>0, ConstantsAssumption DEF RequestTyped, ConstantsAssumption
<1>1. /\ since' = [since EXCEPT ![k] = Append(since[k], now)]
      /\ UNCHANGED <<now, store, pc, key, start, got>>
  BY DEF Publish, requestVars
<1>2. ASSUME NEW j \in Keys
      PROVE  /\ Len(since[j]) \in Nat /\ Len(since[j]) <= Len(since'[j])
             /\ \A v \in 1 .. Len(since[j]) : since'[j][v] = since[j][v]
             /\ Len(since'[j]) > Len(since[j]) =>
                   Len(since'[j]) = Len(since[j]) + 1 /\ since'[j][Len(since[j]) + 1] = now
  <2>1. since[j] \in Seq(Nat) /\ since'[j] = IF j = k THEN Append(since[j], now) ELSE since[j]
    BY <1>0, <1>1 DEF RequestTyped
  <2> QED BY <1>n, <2>1, AppendProperties
<1>3. EntryFresh'
  <2>1. SUFFICES ASSUME NEW j \in DOMAIN store
                 PROVE  /\ store[j].value \in 1 .. Len(since'[j])
                        /\ store[j].value < Len(since'[j]) =>
                              store[j].at <= since'[j][store[j].value + 1] + MaxCall
    BY <1>0, <1>1 DEF EntryFresh
  <2> DEFINE v == store[j].value
  <2>2. j \in Keys /\ store[j].at \in Nat /\ v \in Nat
    BY <1>0 DEF StoreTyped, Entry
  <2>3. /\ v \in 1 .. Len(since[j])
        /\ v < Len(since[j]) => store[j].at <= since[j][v + 1] + MaxCall
    BY <1>0 DEF EntryFresh
  <2> HIDE DEF v
  <2>4. v \in 1 .. Len(since'[j])
    <3>1. Len(since'[j]) \in Nat
      BY <1>0, <1>1, <2>2, <1>n DEF RequestTyped
    <3> QED BY <1>2, <2>2, <2>3, <3>1
  <2>5. CASE v < Len(since[j])
    <3>1. v + 1 \in 1 .. Len(since[j])
      BY <1>0, <2>2, <2>3, <2>5, FollowingVersion
    <3>2. since'[j][v + 1] = since[j][v + 1]
      BY <1>2, <2>2, <3>1
    <3> QED BY <2>3, <2>4, <2>5, <3>2 DEF v
  <2>6. CASE v = Len(since[j])
    <3>1. v < Len(since'[j]) => since'[j][v + 1] = now
      BY <1>2, <2>2, <2>6
    <3>2. store[j].at <= now
      BY <1>0 DEF EntryFresh
    <3> QED BY <1>n, <2>2, <2>4, <3>1, <3>2 DEF v
  <2>7. v < Len(since[j]) \/ v = Len(since[j])
    BY <1>2, <2>2, <2>3
  <2> QED BY <2>5, <2>6, <2>7
<1>4. CallFresh'
  <2>1. SUFFICES ASSUME NEW r \in Requests, Busy(r)
                 PROVE  /\ now <= start[r] + MaxCall
                        /\ got[r] <= Len(since'[key[r]])
                        /\ 0 < got[r] /\ got[r] < Len(since'[key[r]]) =>
                              start[r] <= since'[key[r]][got[r] + 1]
    BY <1>1 DEF CallFresh, Busy
  <2>2. key[r] \in Keys /\ start[r] <= now /\ start[r] \in Nat /\ got[r] \in Nat
    BY <1>0, <2>1 DEF RequestOK, RequestTyped
  <2>3. /\ now <= start[r] + MaxCall
        /\ got[r] <= Len(since[key[r]])
        /\ 0 < got[r] /\ got[r] < Len(since[key[r]]) =>
              start[r] <= since[key[r]][got[r] + 1]
    BY <1>0, <2>1 DEF CallFresh
  <2>4. /\ Len(since[key[r]]) \in Nat /\ Len(since'[key[r]]) \in Nat
        /\ Len(since[key[r]]) <= Len(since'[key[r]])
    <3>1. since'[key[r]] \in Seq(Nat)
      BY <1>0, <1>1, <1>n, <2>2 DEF RequestTyped
    <3> QED BY <1>2, <2>2, <3>1
  <2>5. got[r] <= Len(since'[key[r]])
    BY <2>2, <2>3, <2>4
  <2>6. CASE 0 < got[r] /\ got[r] < Len(since[key[r]])
    <3>1. got[r] + 1 \in 1 .. Len(since[key[r]])
      BY <1>0, <2>2, <2>6, FollowingVersion
    <3>2. since'[key[r]][got[r] + 1] = since[key[r]][got[r] + 1]
      BY <1>2, <2>2, <3>1
    <3> QED BY <2>3, <2>5, <2>6, <3>2
  <2>7. CASE got[r] = Len(since[key[r]])
    <3>1. got[r] < Len(since'[key[r]]) => since'[key[r]][got[r] + 1] = now
      BY <1>2, <2>2, <2>7
    <3> QED BY <2>2, <2>3, <2>5, <3>1
  <2>8. CASE got[r] = 0
    BY <2>3, <2>5, <2>8
  <2>9. got[r] = 0 \/ (0 < got[r] /\ got[r] < Len(since[key[r]])) \/ got[r] = Len(since[key[r]])
    BY <2>2, <2>3, <2>4
  <2> QED BY <2>6, <2>7, <2>8, <2>9
<1> QED BY <1>3, <1>4

LEMMA FreshNext == ConstantsAssumption /\ FreshInv /\ [Next]_vars => FreshInv'
<1> SUFFICES ASSUME ConstantsAssumption, FreshInv, [Next]_vars PROVE FreshInv'
  OBVIOUS
<1>0. /\ TypeInv' /\ StoreTyped /\ RequestTyped /\ RequestOK /\ EntryFresh /\ CallFresh
  BY TypeNext DEF FreshInv, TypeInv
<1>n. now \in Nat /\ MaxCall \in Nat
  BY <1>0 DEF RequestTyped, ConstantsAssumption
<1>1. ASSUME NEW r \in Requests, NEW k \in Keys, Hit(r, k) PROVE EntryFresh' /\ CallFresh'
  <2>1. EntryFresh'
    BY <1>0, <1>1 DEF Hit, EntryFresh
  <2>2. CallFresh'
    BY <1>0, <1>1 DEF Hit, CallFresh, RequestTyped, Busy
  <2> QED BY <2>1, <2>2
<1>2. ASSUME NEW r \in Requests, NEW k \in Keys, Miss(r, k) PROVE EntryFresh' /\ CallFresh'
  <2>1. EntryFresh'
    BY <1>0, <1>2 DEF Miss, EntryFresh
  <2>2. SUFFICES ASSUME NEW q \in Requests, Busy(q)'
                 PROVE  /\ now' <= start'[q] + MaxCall
                        /\ got'[q] <= Len(since'[key'[q]])
                        /\ 0 < got'[q] /\ got'[q] < Len(since'[key'[q]]) =>
                              start'[q] <= since'[key'[q]][got'[q] + 1]
    BY <2>1 DEF CallFresh
  <2>3. CASE q = r
    <3>1. got'[q] = 0 /\ start'[q] = now /\ key'[q] = k /\ now' = now /\ since' = since
      BY <1>0, <1>2, <2>3 DEF Miss, RequestTyped
    <3>2. Len(since[k]) \in Nat
      BY <1>0 DEF RequestTyped
    <3> QED BY <1>n, <3>1, <3>2
  <2>4. CASE q # r
    <3>1. /\ got'[q] = got[q] /\ start'[q] = start[q] /\ key'[q] = key[q] /\ pc'[q] = pc[q]
          /\ now' = now /\ since' = since
      BY <1>0, <1>2, <2>4 DEF Miss, RequestTyped
    <3> QED BY <1>0, <2>2, <3>1 DEF CallFresh, Busy
  <2> QED BY <2>3, <2>4
<1>3. ASSUME NEW r \in Requests, SourceReads(r) PROVE EntryFresh' /\ CallFresh'
  <2>1. EntryFresh'
    BY <1>0, <1>3 DEF SourceReads, EntryFresh
  <2>2. SUFFICES ASSUME NEW q \in Requests, Busy(q)
                 PROVE  /\ now <= start[q] + MaxCall
                        /\ got'[q] <= Len(since[key[q]])
                        /\ 0 < got'[q] /\ got'[q] < Len(since[key[q]]) =>
                              start[q] <= since[key[q]][got'[q] + 1]
    BY <1>3, <2>1 DEF SourceReads, CallFresh, Busy
  <2>3. CASE q = r
    <3>1. got'[q] = Len(since[key[q]])
      BY <1>0, <1>3, <2>3 DEF SourceReads, RequestTyped
    <3>2. Len(since[key[q]]) \in Nat
      BY <1>0, <2>2 DEF RequestTyped, RequestOK
    <3> QED BY <1>0, <2>2, <3>1, <3>2 DEF CallFresh
  <2>4. CASE q # r
    BY <1>0, <1>3, <2>2, <2>4 DEF SourceReads, RequestTyped, CallFresh
  <2> QED BY <2>3, <2>4
<1>4. ASSUME NEW r \in Requests, Busy(r), Answers(r) PROVE EntryFresh' /\ CallFresh'
  <2> DEFINE k == key[r]
             v == got[r]
  <2>1. /\ pc' = [pc EXCEPT ![r] = "answered"]
        /\ UNCHANGED <<now, since, key, start, asked, got>>
        /\ \/ got[r] # 0 /\ Put(r)
           \/ UNCHANGED store
    BY <1>4, AnswersDoes
  <2>2. CallFresh'
    BY <1>0, <2>1 DEF CallFresh, RequestTyped, Busy
  <2>3. CASE got[r] # 0 /\ Put(r)
    <3>1. k \in Keys /\ ToSet(Stored(k)) \subseteq DOMAIN store \cup {k}
      BY <1>0, <1>4, PutFacts DEF RequestOK, StoreTyped
    <3>2. \A j \in DOMAIN store' :
             IF j = k THEN store'[j].at = now /\ store'[j].value = v
             ELSE j \in DOMAIN store /\ store'[j] = store[j]
      BY <2>3, <3>1 DEF Put, Stored, NewEntry
    <3>3. /\ v \in Nat \ {0} /\ start[r] \in Nat /\ Len(since[k]) \in Nat
          /\ now <= start[r] + MaxCall /\ v <= Len(since[k])
          /\ v < Len(since[k]) => start[r] <= since[k][v + 1]
      <4>1. v \in Nat \ {0} /\ start[r] \in Nat /\ Len(since[k]) \in Nat
        BY <1>0, <2>3, <3>1 DEF RequestTyped
      <4>2. /\ now <= start[r] + MaxCall /\ v <= Len(since[k])
            /\ 0 < v /\ v < Len(since[k]) => start[r] <= since[k][v + 1]
        BY <1>0, <1>4 DEF CallFresh
      <4> HIDE DEF k, v
      <4> QED BY <4>1, <4>2
    <3> HIDE DEF k, v
    <3>4. v \in 1 .. Len(since[k])
      BY <3>3
    <3>5. v < Len(since[k]) => now <= since[k][v + 1] + MaxCall
      <4>1. SUFFICES ASSUME v < Len(since[k]) PROVE now <= since[k][v + 1] + MaxCall
        OBVIOUS
      <4>2. since[k][v + 1] \in Nat
        BY <1>0, <3>1, <3>3, <4>1, FollowingVersion
      <4> QED BY <1>n, <3>3, <4>1, <4>2, StoredInTime
    <3>6. SUFFICES ASSUME NEW j \in DOMAIN store'
                   PROVE  /\ store'[j].at <= now
                          /\ store'[j].value \in 1 .. Len(since[j])
                          /\ store'[j].value < Len(since[j]) =>
                                store'[j].at <= since[j][store'[j].value + 1] + MaxCall
      BY <2>1, <2>2 DEF EntryFresh
    <3>7. CASE j = k
      <4>1. store'[j].at = now /\ store'[j].value = v
        BY <3>2, <3>7
      <4> QED BY <1>n, <3>4, <3>5, <3>7, <4>1
    <3>8. CASE j # k
      BY <1>0, <3>2, <3>8 DEF EntryFresh
    <3> QED BY <3>7, <3>8
  <2>4. CASE UNCHANGED store
    BY <1>0, <2>1, <2>2, <2>4 DEF EntryFresh
  <2> QED BY <2>1, <2>3, <2>4
<1>5. ASSUME NEW r \in Requests, NativeFails(r) \/ TikHubFails(r) PROVE EntryFresh' /\ CallFresh'
  <2>1. /\ UNCHANGED <<now, since, store, key, start>> /\ Busy(r)
        /\ got' = [got EXCEPT ![r] = 0]
        /\ \E e \in {"tikhub", "failed"} : pc' = [pc EXCEPT ![r] = e]
    BY <1>5 DEF NativeFails, TikHubFails, Ends, Busy
  <2>2. EntryFresh'
    BY <1>0, <2>1 DEF EntryFresh
  <2>3. SUFFICES ASSUME NEW q \in Requests, Busy(q)'
                 PROVE  /\ now <= start[q] + MaxCall
                        /\ got'[q] <= Len(since[key[q]])
                        /\ 0 < got'[q] /\ got'[q] < Len(since[key[q]]) =>
                              start[q] <= since[key[q]][got'[q] + 1]
    BY <2>1, <2>2 DEF CallFresh
  <2>4. Busy(q)
    BY <1>0, <2>1, <2>3 DEF Busy, RequestTyped
  <2>5. CASE q = r
    <3>1. got'[q] = 0 /\ Len(since[key[q]]) \in Nat
      BY <1>0, <2>1, <2>4, <2>5 DEF RequestTyped, RequestOK
    <3> QED BY <1>0, <2>4, <3>1 DEF CallFresh
  <2>6. CASE q # r
    BY <1>0, <2>1, <2>4, <2>6 DEF RequestTyped, CallFresh
  <2> QED BY <2>5, <2>6
<1>6. ASSUME NEW k \in Keys, Publish(k) PROVE EntryFresh' /\ CallFresh'
  BY <1>6, FreshPublish
<1>7. ASSUME Tick PROVE EntryFresh' /\ CallFresh'
  <2>1. /\ now' = now + 1 /\ UNCHANGED <<since, store, pc, key, start, got>>
        /\ \A r \in Requests : Busy(r) => now < start[r] + MaxCall
    BY <1>7 DEF Tick, requestVars
  <2>2. EntryFresh'
    <3>1. \A k \in DOMAIN store : store[k].at <= now + 1
      BY <1>0, <1>n DEF EntryFresh, StoreTyped, Entry
    <3> QED BY <1>0, <2>1, <3>1 DEF EntryFresh
  <2>3. CallFresh'
    <3>1. ASSUME NEW r \in Requests, Busy(r) PROVE now + 1 <= start[r] + MaxCall
      <4>1. start[r] \in Nat /\ now < start[r] + MaxCall
        BY <1>0, <2>1, <3>1 DEF RequestTyped
      <4> QED BY <1>n, <4>1
    <3> QED BY <1>0, <2>1, <3>1 DEF CallFresh, Busy
  <2> QED BY <2>2, <2>3
<1>8. ASSUME UNCHANGED vars PROVE EntryFresh' /\ CallFresh'
  BY <1>0, <1>8 DEF vars, requestVars, EntryFresh, CallFresh, Busy
<1>9. ASSUME NEW r \in Requests, NativeFinds(r) \/ TikHubAnswers(r)
      PROVE  Busy(r) /\ Answers(r)
  BY <1>9 DEF NativeFinds, TikHubAnswers, Busy
<1>10. EntryFresh' /\ CallFresh'
  BY <1>1, <1>2, <1>3, <1>4, <1>5, <1>6, <1>7, <1>8, <1>9 DEF Next, Step
<1> QED BY <1>0, <1>10 DEF FreshInv

\* The requests as the abstract specification sees them.
Stands == [r \in Requests |->
              IF Busy(r) THEN "fetching"
              ELSE IF pc[r] = "answered" /\ got[r] = 0 THEN "failed" ELSE pc[r]]
Handed == [r \in Requests |-> IF pc[r] = "answered" THEN got[r] ELSE 0]

\* A result that is live was current within the ttl plus the longest search; so was
\* what a call that ends in time was handed.
LEMMA LiveWindow ==
    \A s, m, ttl, a, n \in Nat : a <= s + m /\ n - a < ttl => s + (ttl + m) > n
  OBVIOUS

LEMMA CallWindow ==
    \A s, m, n, b \in Nat, ttl \in Nat \ {0} : n <= b + m /\ b <= s => s + (ttl + m) > n
  OBVIOUS

LEMMA PromiseNext ==
    ASSUME ConstantsAssumption, FreshInv, [Next]_vars
    PROVE  [Promise!Next]_(Promise!vars)
<1>0. StoreTyped /\ RequestTyped /\ RequestOK /\ EntryFresh /\ CallFresh
  BY DEF FreshInv, TypeInv
<1>n. now \in Nat /\ MaxCall \in Nat /\ Ttl \in Nat \ {0}
  BY <1>0 DEF RequestTyped, ConstantsAssumption
<1>1. ASSUME NEW r \in Requests, NEW k \in Keys, Hit(r, k) PROVE Promise!Next
  <2> DEFINE v == store[k].value
  <2>1. /\ k \in DOMAIN store /\ now - store[k].at < Ttl
        /\ pc' = [pc EXCEPT ![r] = "answered"] /\ key' = [key EXCEPT ![r] = k]
        /\ got' = [got EXCEPT ![r] = v]
        /\ ~Busy(r) /\ now' = now /\ since' = since
    BY <1>1 DEF Hit, Live
  <2>2. /\ v \in 1 .. Len(since[k]) /\ v \in Nat \ {0} /\ Len(since[k]) \in Nat
        /\ store[k].at \in Nat
        /\ v < Len(since[k]) => store[k].at <= since[k][v + 1] + MaxCall
    <3>1. k \in Keys /\ store[k] \in Entry
      BY <1>0, <2>1 DEF StoreTyped
    <3>2. v \in Nat /\ store[k].at \in Nat
      BY <3>1 DEF Entry
    <3>3. Len(since[k]) \in Nat
      BY <1>0, <3>1 DEF RequestTyped
    <3>4. /\ v \in 1 .. Len(since[k])
          /\ v < Len(since[k]) => store[k].at <= since[k][v + 1] + MaxCall
      BY <1>0, <2>1 DEF EntryFresh
    <3> HIDE DEF v
    <3> QED BY <3>2, <3>3, <3>4
  <2>n. k \in Keys
    BY <1>0, <2>1 DEF StoreTyped
  <2> HIDE DEF v
  <2>3. v \in Promise!Fresh(k)
    <3>1. CASE v = Len(since[k])
      BY <2>2, <3>1 DEF Promise!Fresh, Promise!CurrentWithinWindow
    <3>2. CASE v < Len(since[k])
      <4>1. since[k][v + 1] \in Nat
        BY <1>0, <2>2, <2>n, <3>2, FollowingVersion
      <4>2. since[k][v + 1] + (Ttl + MaxCall) > now
        BY <1>n, <2>1, <2>2, <3>2, <4>1, LiveWindow
      <4> QED BY <2>2, <4>2 DEF Promise!Fresh, Promise!CurrentWithinWindow
    <3> QED BY <2>2, <3>1, <3>2
  <2>4. Stands' = [Stands EXCEPT ![r] = "answered"]
    BY <1>0, <2>1, <2>2 DEF Stands, Busy, RequestTyped
  <2>5. Handed' = [Handed EXCEPT ![r] = v]
    BY <1>0, <2>1 DEF Handed, RequestTyped
  <2>6. Stands[r] # "fetching"
    BY <1>0, <2>1 DEF Stands, Busy, RequestTyped
  <2>7. Promise!AskAnswered(r, k)
    BY <2>1, <2>3, <2>4, <2>5, <2>6 DEF Promise!AskAnswered, Stands, Handed
  <2> QED BY <2>7 DEF Promise!Next
<1>2. ASSUME NEW r \in Requests, NEW k \in Keys, Miss(r, k) PROVE Promise!Next
  <2>1. /\ pc' = [pc EXCEPT ![r] = "native"] /\ key' = [key EXCEPT ![r] = k]
        /\ got' = [got EXCEPT ![r] = 0]
        /\ ~Busy(r) /\ now' = now /\ since' = since
    BY <1>2 DEF Miss
  <2>2. Stands' = [Stands EXCEPT ![r] = "fetching"]
    BY <1>0, <2>1 DEF Stands, Busy, RequestTyped
  <2>3. Handed' = [Handed EXCEPT ![r] = 0]
    BY <1>0, <2>1 DEF Handed, RequestTyped
  <2>4. Stands[r] # "fetching"
    BY <1>0, <2>1 DEF Stands, Busy, RequestTyped
  <2>5. Promise!Ask(r, k)
    BY <2>1, <2>2, <2>3, <2>4 DEF Promise!Ask, Stands, Handed
  <2> QED BY <2>5 DEF Promise!Next
<1>3. ASSUME NEW r \in Requests, SourceReads(r) \/ NativeFails(r) PROVE UNCHANGED Promise!vars
  <2>1. /\ Busy(r) /\ Busy(r)' /\ UNCHANGED <<now, since, key>>
        /\ \A q \in Requests \ {r} : pc'[q] = pc[q] /\ got'[q] = got[q]
    BY <1>0, <1>3 DEF SourceReads, NativeFails, Busy, RequestTyped
  <2>2. Stands' = Stands /\ Handed' = Handed
    <3>1. ASSUME NEW q \in Requests PROVE Stands'[q] = Stands[q] /\ Handed'[q] = Handed[q]
      BY <2>1 DEF Stands, Handed, Busy
    <3> QED BY <3>1 DEF Stands, Handed
  <2> QED BY <2>1, <2>2 DEF Promise!vars, Stands, Handed
<1>4. ASSUME NEW r \in Requests, Busy(r), Answers(r), got[r] # 0 PROVE Promise!Next
  <2> DEFINE k == key[r]
             v == got[r]
  <2>1. /\ pc' = [pc EXCEPT ![r] = "answered"]
        /\ UNCHANGED <<now, since, key, start, asked, got>>
    BY <1>4, AnswersDoes
  <2>2. /\ k \in Keys /\ v \in Nat \ {0} /\ v \in 1 .. Len(since[k])
        /\ now <= start[r] + MaxCall /\ start[r] \in Nat
        /\ v < Len(since[k]) => start[r] <= since[k][v + 1]
    <3>1. k \in Keys /\ v \in Nat \ {0} /\ start[r] \in Nat
      BY <1>0, <1>4 DEF RequestTyped, RequestOK
    <3>2. Len(since[k]) \in Nat
      BY <1>0, <3>1 DEF RequestTyped
    <3>3. /\ now <= start[r] + MaxCall /\ v <= Len(since[k])
          /\ 0 < v /\ v < Len(since[k]) => start[r] <= since[k][v + 1]
      BY <1>0, <1>4 DEF CallFresh
    <3> HIDE DEF k, v
    <3> QED BY <3>1, <3>2, <3>3
  <2> HIDE DEF k, v
  <2>3. v \in Promise!Fresh(k)
    <3>1. CASE v = Len(since[k])
      BY <2>2, <3>1 DEF Promise!Fresh, Promise!CurrentWithinWindow
    <3>2. CASE v < Len(since[k])
      <4>1. since[k][v + 1] \in Nat
        BY <1>0, <2>2, <3>2, FollowingVersion
      <4>2. since[k][v + 1] + (Ttl + MaxCall) > now
        BY <1>n, <2>2, <3>2, <4>1, CallWindow
      <4> QED BY <2>2, <4>2 DEF Promise!Fresh, Promise!CurrentWithinWindow
    <3>3. Len(since[k]) \in Nat
      BY <1>0, <2>2 DEF RequestTyped
    <3> QED BY <2>2, <3>1, <3>2, <3>3
  <2>4. Stands' = [Stands EXCEPT ![r] = "answered"]
    BY <1>0, <1>4, <2>1 DEF Stands, Busy, RequestTyped
  <2>5. Handed' = [Handed EXCEPT ![r] = v]
    BY <1>0, <2>1 DEF Handed, RequestTyped, v
  <2>6. Stands[r] = "fetching"
    BY <1>4 DEF Stands
  <2>7. Promise!Answer(r)
    BY <2>1, <2>3, <2>4, <2>5, <2>6 DEF Promise!Answer, Stands, Handed, k
  <2> QED BY <2>7 DEF Promise!Next
<1>5. ASSUME NEW r \in Requests, TikHubFails(r) \/ (Busy(r) /\ Answers(r) /\ got[r] = 0)
      PROVE  Promise!Next
  <2>1. /\ Busy(r) /\ UNCHANGED <<now, since, key>>
        /\ \A q \in Requests \ {r} : pc'[q] = pc[q] /\ got'[q] = got[q]
        /\ got'[r] = 0 /\ pc'[r] \in {"failed", "answered"}
    <3>1. CASE TikHubFails(r)
      BY <1>0, <3>1 DEF TikHubFails, Ends, Busy, RequestTyped
    <3>2. CASE Busy(r) /\ Answers(r) /\ got[r] = 0
      BY <1>0, <3>2, AnswersDoes DEF RequestTyped
    <3> QED BY <1>5, <3>1, <3>2
  <2>2. Stands[r] = "fetching"
    BY <2>1 DEF Stands
  <2>3. ASSUME NEW q \in Requests
        PROVE  /\ Stands'[q] = IF q = r THEN "failed" ELSE Stands[q]
               /\ Handed'[q] = Handed[q]
    BY <2>1 DEF Stands, Handed, Busy
  <2>4. Stands' = [Stands EXCEPT ![r] = "failed"] /\ Handed' = Handed
    BY <2>3 DEF Stands, Handed
  <2>5. Promise!Fail(r)
    BY <2>1, <2>2, <2>4 DEF Promise!Fail, Stands, Handed
  <2> QED BY <2>5 DEF Promise!Next
<1>6. ASSUME NEW k \in Keys, Publish(k) PROVE Promise!Next
  <2>1. Stands' = Stands /\ Handed' = Handed
    BY <1>6 DEF Publish, requestVars, Stands, Handed, Busy
  <2>2. Promise!Publish(k)
    BY <1>6, <2>1 DEF Publish, requestVars, Promise!Publish, Stands, Handed
  <2> QED BY <2>2 DEF Promise!Next
<1>7. CASE Tick
  <2>1. Stands' = Stands /\ Handed' = Handed
    BY <1>7 DEF Tick, requestVars, Stands, Handed, Busy
  <2>2. Promise!Tick
    BY <1>7, <2>1 DEF Tick, requestVars, Promise!Tick, Stands, Handed
  <2> QED BY <2>2 DEF Promise!Next
<1>8. CASE UNCHANGED vars
  <2>1. Stands' = Stands /\ Handed' = Handed
    BY <1>8 DEF vars, requestVars, Stands, Handed, Busy
  <2> QED BY <1>8, <2>1 DEF vars, requestVars, Promise!vars, Stands, Handed
<1>9. ASSUME NEW r \in Requests, NativeFinds(r) \/ TikHubAnswers(r)
      PROVE  Busy(r) /\ Answers(r)
  BY <1>9 DEF NativeFinds, TikHubAnswers, Busy
<1>10. ASSUME NEW r \in Requests, Step(r) PROVE [Promise!Next]_(Promise!vars)
  <2>1. CASE NativeFinds(r) \/ TikHubAnswers(r)
    BY <1>4, <1>5, <1>9, <2>1
  <2>2. CASE NativeFails(r)
    BY <1>3, <2>2
  <2>3. CASE TikHubFails(r)
    BY <1>5, <2>3
  <2> QED BY <1>10, <2>1, <2>2, <2>3 DEF Step
<1> QED BY <1>1, <1>2, <1>3, <1>6, <1>7, <1>8, <1>10 DEF Next

\* Every answer with videos shows results that were current less than the ttl plus
\* the longest search ago: search_videos implements BoundedStaleReads.
THEOREM SearchImplementsPromise == Spec => AnswersAreBoundedStale
<1>1. Init => FreshInv
  <2> SUFFICES ASSUME Init PROVE FreshInv
    OBVIOUS
  <2>1. TypeInv
    BY TypeInit, ConstantsAssumption
  <2> QED BY <2>1 DEF Init, FreshInv, EntryFresh, CallFresh, Busy
<1>2. FreshInv /\ [Next]_vars => FreshInv'
  BY FreshNext, ConstantsAssumption
<1>3. Init => Promise!Init
  BY DEF Init, Promise!Init, Busy
<1>4. FreshInv /\ [Next]_vars => [Promise!Next]_(Promise!vars)
  BY PromiseNext, ConstantsAssumption
<1> QED BY <1>1, <1>2, <1>3, <1>4, PTL DEF Spec, AnswersAreBoundedStale, Promise!Spec
=============================================================================
