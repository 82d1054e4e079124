------------------------ MODULE YouTubeCrawlersProofs ------------------------
(* Proofs about the operations that take several requests, for any shorts, limits, *)
(* tabs, threads, replies and batches, whatever YouTube answers.                   *)
EXTENDS YouTubeCrawlers, FiniteSetTheorems, SequenceTheorems, TLAPS

-----------------------------------------------------------------------------
(* Selections.                                                                 *)

\* Of numbers in ascending order, each stands at its rank.
LEMMA AscendingRank ==
    ASSUME NEW S \in SUBSET Int, IsFiniteSet(S)
    PROVE  /\ Cardinality(S) \in Nat
           /\ \A k \in 1 .. Cardinality(S) :
                 Ascending(S)[k] \in S /\ Cardinality({m \in S : m <= Ascending(S)[k]}) = k
           /\ \A n \in S : \E k \in 1 .. Cardinality(S) : Ascending(S)[k] = n
<1> DEFINE upTo(n) == {m \in S : m <= n}
           rank == [n \in S |-> Cardinality(upTo(n))]
           size == Cardinality(S)
<1>1. size \in Nat
  BY FS_CardinalityType
<1>2. \A n \in S : IsFiniteSet(upTo(n)) /\ Cardinality(upTo(n)) \in 1 .. size
  <2> SUFFICES ASSUME NEW n \in S
               PROVE  IsFiniteSet(upTo(n)) /\ Cardinality(upTo(n)) \in 1 .. size
    OBVIOUS
  <2>1. IsFiniteSet(upTo(n)) /\ Cardinality(upTo(n)) <= size
    <3>1. upTo(n) \in SUBSET S
      OBVIOUS
    <3> QED BY <3>1, FS_Subset
  <2>2. upTo(n) # {}
    <3>1. n \in upTo(n)
      BY n \in Int
    <3> QED BY <3>1
  <2>3. Cardinality(upTo(n)) \in Nat /\ Cardinality(upTo(n)) # 0
    BY <2>1, <2>2, FS_CardinalityType, FS_EmptySet
  <2> QED BY <1>1, <2>1, <2>3
<1>3. \A n, m \in S : n < m => Cardinality(upTo(n)) < Cardinality(upTo(m))
  <2> SUFFICES ASSUME NEW n \in S, NEW m \in S, n < m
               PROVE  Cardinality(upTo(n)) < Cardinality(upTo(m))
    OBVIOUS
  <2>1. upTo(n) \in SUBSET upTo(m) /\ upTo(n) # upTo(m)
    <3>1. \A p \in S : p <= n => p <= m
      BY n \in Int, m \in Int
    <3>2. m \in upTo(m) /\ m \notin upTo(n)
      BY n \in Int, m \in Int
    <3> QED BY <3>1, <3>2
  <2>2. Cardinality(upTo(n)) <= Cardinality(upTo(m)) /\ Cardinality(upTo(n)) # Cardinality(upTo(m))
    BY <1>2, <2>1, FS_Subset
  <2> QED BY <1>2, <2>2
<1>4. rank \in Injection(S, 1 .. size)
  <2>1. rank \in [S -> 1 .. size]
    BY <1>2
  <2>2. \A n, m \in S : rank[n] = rank[m] => n = m
    <3> SUFFICES ASSUME NEW n \in S, NEW m \in S, rank[n] = rank[m], n # m PROVE FALSE
      OBVIOUS
    <3>1. n < m \/ m < n
      BY n \in Int, m \in Int
    <3>2. Cardinality(upTo(n)) = Cardinality(upTo(m))
      OBVIOUS
    <3> QED BY <1>2, <1>3, <3>1, <3>2
  <2> QED BY <2>1, <2>2 DEF Injection, IsInjective
<1>5. rank \in Surjection(S, 1 .. size)
  <2>1. IsFiniteSet(1 .. size) /\ Cardinality(1 .. size) = size
    BY <1>1, FS_Interval
  <2> QED BY <1>4, <2>1, FS_Injection
<1>6. \A k \in 1 .. size : \E n \in S : Cardinality(upTo(n)) = k
  BY <1>5 DEF Surjection
<1>7. \A k \in 1 .. size : Ascending(S)[k] = CHOOSE n \in S : Cardinality(upTo(n)) = k
  BY DEF Ascending
<1> HIDE DEF upTo
<1>8. \A k \in 1 .. size : Ascending(S)[k] \in S /\ Cardinality(upTo(Ascending(S)[k])) = k
  BY <1>6, <1>7
<1>9. \A n \in S : \E k \in 1 .. size : Ascending(S)[k] = n
  <2> SUFFICES ASSUME NEW n \in S PROVE \E k \in 1 .. size : Ascending(S)[k] = n
    OBVIOUS
  <2> DEFINE k == Cardinality(upTo(n))
             a == Ascending(S)[k]
  <2>1. k \in 1 .. size
    BY <1>2
  <2>2. a \in S /\ Cardinality(upTo(a)) = k
    BY <1>8, <2>1
  <2>3. a = n
    <3>1. a < n \/ n < a \/ a = n
      BY <2>2, a \in Int, n \in Int
    <3>2. Cardinality(upTo(a)) = Cardinality(upTo(n)) /\ Cardinality(upTo(n)) \in Int
      BY <1>2, <2>2
    <3> HIDE DEF a, k
    <3>3. ~(a < n) /\ ~(n < a)
      <4>1. a < n => Cardinality(upTo(a)) < Cardinality(upTo(n))
        BY <1>3, <2>2
      <4>2. n < a => Cardinality(upTo(n)) < Cardinality(upTo(a))
        BY <1>3, <2>2
      <4> QED BY <3>2, <4>1, <4>2
    <3> QED BY <3>1, <3>3
  <2> QED BY <2>1, <2>3
<1> QED BY <1>1, <1>8, <1>9 DEF upTo

\* They are a sequence of all these numbers, none of them twice.
LEMMA AscendingFacts ==
    ASSUME NEW S \in SUBSET Int, IsFiniteSet(S)
    PROVE  /\ Ascending(S) \in Seq(S) /\ Len(Ascending(S)) = Cardinality(S)
           /\ Cardinality(S) \in Nat
           /\ \A i, j \in 1 .. Cardinality(S) : Ascending(S)[i] = Ascending(S)[j] => i = j
           /\ \A n \in S : \E k \in 1 .. Cardinality(S) : Ascending(S)[k] = n
<1> DEFINE at(k) == CHOOSE n \in S : Cardinality({m \in S : m <= n}) = k
<1>1. Ascending(S) = [k \in 1 .. Cardinality(S) |-> at(k)]
  BY DEF Ascending
<1> HIDE DEF at
<1>2. Ascending(S) \in [1 .. Cardinality(S) -> S]
  <2>1. \A k \in 1 .. Cardinality(S) : Ascending(S)[k] \in S
    BY AscendingRank
  <2>2. \A k \in 1 .. Cardinality(S) : Ascending(S)[k] = at(k)
    BY <1>1
  <2> QED BY <1>1, <2>1, <2>2
<1>3. Cardinality(S) \in Nat
  BY AscendingRank
<1>4. Ascending(S) \in Seq(S) /\ Len(Ascending(S)) = Cardinality(S)
  BY <1>2, <1>3
<1>5. \A i, j \in 1 .. Cardinality(S) : Ascending(S)[i] = Ascending(S)[j] => i = j
  <2> SUFFICES ASSUME NEW i \in 1 .. Cardinality(S), NEW j \in 1 .. Cardinality(S),
                      Ascending(S)[i] = Ascending(S)[j]
               PROVE  i = j
    OBVIOUS
  <2>1. Cardinality({m \in S : m <= Ascending(S)[i]}) = i
    BY AscendingRank
  <2>2. Cardinality({m \in S : m <= Ascending(S)[j]}) = j
    BY AscendingRank
  <2> QED BY <2>1, <2>2
<1> QED BY <1>3, <1>4, <1>5, AscendingRank

\* Some numbers have a least one: that of the first rank.
LEMMA LeastOf ==
    ASSUME NEW S \in SUBSET Int, IsFiniteSet(S), S # {}
    PROVE  \E a \in S : \A m \in S : a <= m
<1> DEFINE a == Ascending(S)[1]
           upTo == {m \in S : m <= a}
<1>1. 1 \in 1 .. Cardinality(S)
  BY FS_CardinalityType, FS_EmptySet
<1>2. a \in S /\ Cardinality(upTo) = 1
  BY <1>1, AscendingRank
<1>3. IsFiniteSet(upTo) /\ a \in upTo
  BY <1>2, FS_Subset, a \in Int
<1> HIDE DEF a
<1>4. upTo = {a}
  BY <1>2, <1>3, FS_Singleton
<1>5. \A m \in S : a <= m
  <2> SUFFICES ASSUME NEW m \in S, ~(a <= m) PROVE FALSE
    OBVIOUS
  <2>1. m <= a /\ m # a
    BY <1>2, m \in Int, a \in Int
  <2> QED BY <1>4, <2>1
<1> QED BY <1>2, <1>5

\* What a selection consists of.
LEMMA SelectedFacts ==
    ASSUME NEW T, NEW list \in Seq(T), NEW positions \in SUBSET DOMAIN list
    PROVE  /\ Selected(list, positions) \in Seq(T)
           /\ Len(Selected(list, positions)) = Cardinality(positions)
           /\ Cardinality(positions) \in Nat
           /\ ToSet(Selected(list, positions)) = {list[n] : n \in positions}
           /\ (\A n, m \in positions : list[n] = list[m] => n = m)
                 => IsInjective(Selected(list, positions))
<1> DEFINE size == Cardinality(positions)
           a == Ascending(positions)
           s == Selected(list, positions)
<1>1. DOMAIN list = 1 .. Len(list) /\ Len(list) \in Nat
  OBVIOUS
<1>2. IsFiniteSet(positions) /\ positions \in SUBSET Int
  <2>1. IsFiniteSet(1 .. Len(list))
    BY <1>1, FS_Interval
  <2> QED BY <1>1, <2>1, FS_Subset
<1>3. /\ size \in Nat /\ \A k \in 1 .. size : a[k] \in positions
      /\ \A i, j \in 1 .. size : a[i] = a[j] => i = j
      /\ \A n \in positions : \E k \in 1 .. size : a[k] = n
  <2>1. a \in Seq(positions) /\ Len(a) = size /\ size \in Nat
    BY <1>2, AscendingFacts
  <2>2. \A k \in 1 .. size : a[k] \in positions
    BY <2>1
  <2> QED BY <1>2, <2>1, <2>2, AscendingFacts
<1>4. s = [k \in 1 .. size |-> list[a[k]]]
  BY DEF Selected
<1> HIDE DEF size, a, s
<1>5. s \in [1 .. size -> T]
  <2>1. \A k \in 1 .. size : list[a[k]] \in T
    BY <1>3
  <2> QED BY <1>4, <2>1
<1>6. s \in Seq(T) /\ Len(s) = size /\ DOMAIN s = 1 .. size
  BY <1>3, <1>5
<1>7. ToSet(s) = {list[n] : n \in positions}
  BY <1>3, <1>4, <1>6 DEF ToSet
<1>8. (\A n, m \in positions : list[n] = list[m] => n = m) => IsInjective(s)
  BY <1>3, <1>4, <1>6 DEF IsInjective
<1> QED BY <1>3, <1>6, <1>7, <1>8 DEF size, s

\* Every element of a list has a first place, and no two of these are alike.
LEMMA FirstsFacts ==
    ASSUME NEW T, NEW list \in Seq(T)
    PROVE  /\ Firsts(list) \in SUBSET DOMAIN list
           /\ \A n, m \in Firsts(list) : list[n] = list[m] => n = m
           /\ \A n \in DOMAIN list : \E m \in Firsts(list) : list[m] = list[n]
<1>1. DOMAIN list = 1 .. Len(list) /\ Len(list) \in Nat
  OBVIOUS
<1>2. Firsts(list) \in SUBSET DOMAIN list
  BY DEF Firsts
<1>3. \A n, m \in Firsts(list) : list[n] = list[m] => n = m
  <2> SUFFICES ASSUME NEW n \in Firsts(list), NEW m \in Firsts(list), list[n] = list[m]
               PROVE  n = m
    OBVIOUS
  <2>1. n \in Nat /\ m \in Nat /\ n >= 1 /\ m >= 1
    BY <1>1, <1>2
  <2>2. ~(m \in 1 .. n - 1) /\ ~(n \in 1 .. m - 1)
    BY DEF Firsts
  <2> QED BY <2>1, <2>2
<1>4. ASSUME NEW n \in DOMAIN list PROVE \E m \in Firsts(list) : list[m] = list[n]
  <2> DEFINE S == {m \in DOMAIN list : list[m] = list[n]}
  <2>1. S \in SUBSET Int /\ IsFiniteSet(S) /\ S # {}
    <3>1. IsFiniteSet(1 .. Len(list))
      BY <1>1, FS_Interval
    <3>2. S \in SUBSET (1 .. Len(list)) /\ n \in S
      BY <1>1
    <3> QED BY <3>1, <3>2, FS_Subset
  <2>2. PICK a \in S : \A m \in S : a <= m
    BY <2>1, LeastOf
  <2>3. a \in Firsts(list)
    <3> SUFFICES ASSUME NEW m \in 1 .. a - 1, list[m] = list[a] PROVE FALSE
      BY DEF Firsts
    <3>1. a \in 1 .. Len(list)
      BY <1>1
    <3>2. m \in DOMAIN list /\ m < a
      BY <1>1, <3>1
    <3>3. m \in S
      BY <3>2
    <3> QED BY <2>2, <3>1, <3>2, <3>3
  <2> QED BY <2>3
<1> QED BY <1>2, <1>3, <1>4

-----------------------------------------------------------------------------
(* The feed of shorts.                                                         *)

\* Only a batch under way has shorts beside those found; together they are distinct.
FoundInv ==
    /\ stage \in {"idle", "search", "reel", "done", "failed"}
    /\ found \in Seq(Shorts) /\ batch \in Seq(Shorts)
    /\ stage # "reel" => batch = <<>>
    /\ step \in Nat /\ (step = 0 => batch = <<>>)
    /\ NoShortTwice

\* The last batches, as many as consecutive_empty counts, have brought nothing.
EmptiesInv ==
    /\ yields \in Seq(Nat) /\ empties \in Nat /\ empties <= Len(yields)
    /\ \A n \in Len(yields) - empties + 1 .. Len(yields) : yields[n] = 0
    /\ ShortOnlyIfExhausted

ShortsInv == FoundInv /\ EmptiesInv

LEMMA ConcatInjective ==
    ASSUME NEW T, NEW s \in Seq(T), NEW t \in Seq(T), IsInjective(s), IsInjective(t),
           ToSet(s) \cap ToSet(t) = {}
    PROVE  IsInjective(s \o t)
<1> DEFINE c == s \o t
<1>1. /\ DOMAIN c = 1 .. Len(s) + Len(t) /\ Len(s) \in Nat /\ Len(t) \in Nat
      /\ \A i \in 1 .. Len(s) + Len(t) :
            /\ i <= Len(s) => i \in DOMAIN s /\ c[i] = s[i]
            /\ i > Len(s) => i - Len(s) \in DOMAIN t /\ c[i] = t[i - Len(s)]
  OBVIOUS
<1> HIDE DEF c
<1>2. SUFFICES ASSUME NEW i \in 1 .. Len(s) + Len(t), NEW j \in 1 .. Len(s) + Len(t),
                      c[i] = c[j]
               PROVE  i = j
  BY <1>1 DEF IsInjective, c
<1>3. CASE i <= Len(s) /\ j <= Len(s)
  BY <1>1, <1>2, <1>3 DEF IsInjective
<1>4. CASE i > Len(s) /\ j > Len(s)
  <2>1. i - Len(s) = j - Len(s)
    BY <1>1, <1>2, <1>4 DEF IsInjective
  <2> QED BY <1>1, <2>1
<1>5. ASSUME NEW k \in DOMAIN s, NEW l \in DOMAIN t, s[k] = t[l] PROVE FALSE
  BY <1>5 DEF ToSet
<1>6. ~(i <= Len(s) /\ j > Len(s)) /\ ~(i > Len(s) /\ j <= Len(s))
  BY <1>1, <1>2, <1>5
<1> QED BY <1>1, <1>3, <1>4, <1>6

LEMMA ConcatParts ==
    ASSUME NEW T, NEW s \in Seq(T), NEW t \in Seq(T)
    PROVE  /\ ToSet(s \o t) = ToSet(s) \cup ToSet(t)
           /\ IsInjective(s \o t) => IsInjective(s)
<1>1. /\ DOMAIN (s \o t) = 1 .. Len(s) + Len(t)
      /\ DOMAIN s = 1 .. Len(s) /\ DOMAIN t = 1 .. Len(t)
      /\ Len(s) \in Nat /\ Len(t) \in Nat
      /\ \A i \in 1 .. Len(s) + Len(t) :
            (s \o t)[i] = IF i <= Len(s) THEN s[i] ELSE t[i - Len(s)]
  OBVIOUS
<1>2. ToSet(s \o t) \subseteq ToSet(s) \cup ToSet(t)
  <2> SUFFICES ASSUME NEW i \in 1 .. Len(s) + Len(t)
               PROVE  (s \o t)[i] \in ToSet(s) \cup ToSet(t)
    BY <1>1 DEF ToSet
  <2>1. CASE i <= Len(s)
    BY <1>1, <2>1 DEF ToSet
  <2>2. CASE i > Len(s)
    <3>1. i - Len(s) \in DOMAIN t /\ (s \o t)[i] = t[i - Len(s)]
      BY <1>1, <2>2
    <3> QED BY <3>1 DEF ToSet
  <2> QED BY <1>1, <2>1, <2>2
<1>3. ToSet(s) \subseteq ToSet(s \o t)
  <2> SUFFICES ASSUME NEW i \in DOMAIN s PROVE s[i] \in ToSet(s \o t)
    BY DEF ToSet
  <2>1. i \in DOMAIN (s \o t) /\ (s \o t)[i] = s[i]
    BY <1>1
  <2> QED BY <2>1 DEF ToSet
<1>4. ToSet(t) \subseteq ToSet(s \o t)
  <2> SUFFICES ASSUME NEW i \in DOMAIN t PROVE t[i] \in ToSet(s \o t)
    BY DEF ToSet
  <2>1. Len(s) + i \in DOMAIN (s \o t) /\ (s \o t)[Len(s) + i] = t[i]
    BY <1>1
  <2> QED BY <2>1 DEF ToSet
<1>5. IsInjective(s \o t) => IsInjective(s)
  <2> SUFFICES ASSUME IsInjective(s \o t), NEW i \in DOMAIN s, NEW j \in DOMAIN s, s[i] = s[j]
               PROVE  i = j
    BY DEF IsInjective
  <2>1. /\ i \in DOMAIN (s \o t) /\ (s \o t)[i] = s[i]
        /\ j \in DOMAIN (s \o t) /\ (s \o t)[j] = s[j]
    BY <1>1
  <2> QED BY <2>1 DEF IsInjective
<1> QED BY <1>2, <1>3, <1>4, <1>5

\* A search adds shorts that are new, each once.
LEMMA FreshFacts ==
    ASSUME NEW listed \in Seq(Shorts)
    PROVE  /\ Fresh(listed) \in Seq(Shorts) /\ IsInjective(Fresh(listed))
           /\ ToSet(Fresh(listed)) \cap Seen = {}
<1> DEFINE new == {n \in Firsts(listed) : listed[n] \notin Seen}
           taken == {n \in new : Cardinality({m \in new : m <= n}) <= Limit}
<1>1. Fresh(listed) = Selected(listed, taken)
  BY DEF Fresh
<1>2. taken \in SUBSET DOMAIN listed /\ taken \subseteq new /\ new \subseteq Firsts(listed)
  BY FirstsFacts
<1>3. \A n, m \in taken : listed[n] = listed[m] => n = m
  BY <1>2, FirstsFacts
<1>4. \A n \in taken : listed[n] \notin Seen
  BY <1>2
<1> HIDE DEF taken
<1>5. /\ Selected(listed, taken) \in Seq(Shorts) /\ IsInjective(Selected(listed, taken))
      /\ ToSet(Selected(listed, taken)) = {listed[n] : n \in taken}
  BY <1>2, <1>3, SelectedFacts
<1> QED BY <1>1, <1>4, <1>5

LEMMA EmptyIsInjective == IsInjective(<<>>) /\ ToSet(<<>>) = {}
BY DEF IsInjective, ToSet

LEMMA ConcatEmpty ==
    ASSUME NEW T, NEW s \in Seq(T)
    PROVE  s \o <<>> = s
BY ConcatEmptySeq

LEMMA ShortsStart == ShortsInit => ShortsInv
<1> SUFFICES ASSUME ShortsInit PROVE ShortsInv
  OBVIOUS
<1>1. <<>> \o <<>> = <<>>
  OBVIOUS
<1>2. FoundInv
  BY <1>1, EmptyIsInjective DEF ShortsInit, FoundInv, NoShortTwice
<1>3. EmptiesInv
  BY DEF ShortsInit, EmptiesInv, ShortOnlyIfExhausted
<1> QED BY <1>2, <1>3 DEF ShortsInv

\* A batch ends with what it has found.
LEMMA BatchEndsKeeps ==
    ASSUME ShortsInv, stage = "reel", NEW new \in Seq(Shorts), IsInjective(found \o new),
           BatchEnds(new)
    PROVE  ShortsInv'
<1>1. FoundInv'
  <2>1. found \o new \in Seq(Shorts) /\ (found \o new) \o <<>> = found \o new
    BY ConcatEmpty DEF ShortsInv, FoundInv
  <2>2. /\ found' = found \o new /\ batch' = <<>> /\ step' = 0
        /\ stage' \in {"done", "reel"}
    BY DEF BatchEnds, FreshBatch
  <2> QED BY <2>1, <2>2 DEF FoundInv, NoShortTwice
<1>2. /\ yields' = Append(yields, Len(new)) /\ Len(new) \in Nat
      /\ empties' = IF new = <<>> THEN empties + 1 ELSE 0
      /\ new = <<>> => Len(new) = 0
  BY DEF BatchEnds, EmptiesAfterYield
<1>3. /\ yields' \in Seq(Nat) /\ Len(yields') = Len(yields) + 1
      /\ \A n \in 1 .. Len(yields) : yields'[n] = yields[n]
      /\ yields'[Len(yields) + 1] = Len(new)
      /\ Len(yields) \in Nat
  BY <1>2 DEF ShortsInv, EmptiesInv
<1>4. empties' \in Nat /\ empties' <= Len(yields')
  BY <1>2, <1>3 DEF ShortsInv, EmptiesInv
<1>5. \A n \in Len(yields') - empties' + 1 .. Len(yields') : yields'[n] = 0
  <2> SUFFICES ASSUME NEW n \in Len(yields') - empties' + 1 .. Len(yields')
               PROVE  yields'[n] = 0
    OBVIOUS
  <2>1. new = <<>> /\ empties' = empties + 1
    BY <1>2, <1>3
  <2>2. n = Len(yields) + 1 \/ n \in Len(yields) - empties + 1 .. Len(yields)
    BY <1>3, <2>1 DEF ShortsInv, EmptiesInv
  <2>3. n \in Len(yields) - empties + 1 .. Len(yields) => n \in 1 .. Len(yields)
    BY <1>3 DEF ShortsInv, EmptiesInv
  <2> QED BY <1>2, <1>3, <2>1, <2>2, <2>3 DEF ShortsInv, EmptiesInv
<1>6. ShortOnlyIfExhausted'
  <2> SUFFICES ASSUME stage' = "done", Len(found') < Limit, Len(yields') # Restarts
               PROVE  \A n \in Len(yields') - EmptyLimit + 1 .. Len(yields') : yields'[n] = 0
    BY DEF ShortOnlyIfExhausted
  <2>1. Len(found') \in Nat /\ Limit \in Nat
    BY <1>1, ShortsAssumption DEF FoundInv, ShortsAssumption
  <2>2. empties' >= EmptyLimit
    BY <2>1 DEF BatchEnds
  <2>3. EmptyLimit \in Nat
    BY ShortsAssumption DEF ShortsAssumption
  <2> QED BY <1>3, <1>4, <1>5, <2>2, <2>3
<1> QED BY <1>1, <1>3, <1>4, <1>5, <1>6 DEF ShortsInv, EmptiesInv

\* A search adds to what has been found, before there are batches.
LEMMA SearchKeeps ==
    ASSUME ShortsInv, NEW listed \in Seq(Shorts), SearchReturns(listed)
    PROVE  ShortsInv'
<1>1. /\ stage = "search" /\ batch = <<>> /\ batch' = <<>>
      /\ found' = found \o Fresh(listed)
      /\ step \in Nat /\ step' = step
  BY DEF SearchReturns, reelVars, ShortsInv, FoundInv
<1>2. found \o <<>> = found /\ IsInjective(found) /\ Seen = ToSet(found)
  <2>1. found \o <<>> = found
    BY ConcatEmpty DEF ShortsInv, FoundInv
  <2> QED BY <1>1, <2>1, EmptyIsInjective DEF ShortsInv, FoundInv, NoShortTwice, Seen
<1>3. found' \in Seq(Shorts) /\ IsInjective(found')
  <2>1. Fresh(listed) \in Seq(Shorts) /\ IsInjective(Fresh(listed))
        /\ ToSet(found) \cap ToSet(Fresh(listed)) = {}
    BY <1>2, FreshFacts
  <2>2. found \in Seq(Shorts)
    BY DEF ShortsInv, FoundInv
  <2> HIDE DEF Fresh
  <2>3. IsInjective(found \o Fresh(listed))
    BY <1>2, <2>1, <2>2, ConcatInjective
  <2> QED BY <1>1, <2>1, <2>2, <2>3
<1>4. NoShortTwice'
  <2>1. found' \o <<>> = found'
    BY <1>3, ConcatEmpty
  <2> QED BY <1>1, <1>3, <2>1 DEF NoShortTwice
<1>5. stage' \in {"search", "reel", "done"} /\ (stage' = "done" => ~(Len(found') < Limit))
  <2>1. \/ stage' = stage
        \/ stage' = IF Len(found') < Limit THEN "reel" ELSE "done"
    BY DEF SearchReturns
  <2> QED BY <1>1, <2>1
<1>6. FoundInv'
  BY <1>1, <1>3, <1>4, <1>5 DEF FoundInv
<1>7. EmptiesInv'
  BY <1>5 DEF ShortsInv, EmptiesInv, ShortOnlyIfExhausted, SearchReturns
<1> QED BY <1>6, <1>7 DEF ShortsInv

\* A short that is not known fits behind the others.
LEMMA StepKeeps ==
    ASSUME ShortsInv, NEW short \in Shorts \cup {Nothing}, NEW next, StepReturns(short, next)
    PROVE  ShortsInv'
<1> DEFINE new == IF short = Nothing \/ short \in Seen THEN batch ELSE Append(batch, short)
<1>1. stage = "reel" /\ found \in Seq(Shorts) /\ batch \in Seq(Shorts)
  BY DEF StepReturns, ShortsInv, FoundInv
<1>2. new \in Seq(Shorts)
  BY <1>1
<1>3. IsInjective(found \o new)
  <2>1. CASE new = batch
    BY <2>1 DEF ShortsInv, FoundInv, NoShortTwice
  <2>2. CASE short \notin Seen /\ new = Append(batch, short) /\ short \in Shorts
    <3>1. found \o new = (found \o batch) \o <<short>>
      BY <1>1, <2>2
    <3>2. ToSet(found \o batch) = Seen
      BY <1>1, ConcatParts DEF Seen
    <3>3. <<short>> \in Seq(Shorts) /\ IsInjective(<<short>>) /\ ToSet(<<short>>) = {short}
      BY <2>2 DEF IsInjective, ToSet
    <3>4. found \o batch \in Seq(Shorts) /\ IsInjective(found \o batch)
      BY <1>1 DEF ShortsInv, FoundInv, NoShortTwice
    <3>5. ToSet(found \o batch) \cap ToSet(<<short>>) = {}
      BY <2>2, <3>2, <3>3
    <3>6. IsInjective((found \o batch) \o <<short>>)
      BY <3>3, <3>4, <3>5, ConcatInjective
    <3> QED BY <3>1, <3>6
  <2> QED BY <2>1, <2>2
<1>4. \/ BatchEnds(new)
      \/ batch' = new /\ step' = step + 1 /\ UNCHANGED <<stage, query, found, empties, yields>>
  BY DEF StepReturns, Counted
<1> HIDE DEF new
<1>5. CASE BatchEnds(new)
  BY <1>1, <1>2, <1>3, <1>5, BatchEndsKeeps
<1>6. CASE batch' = new /\ step' = step + 1 /\ UNCHANGED <<stage, query, found, empties, yields>>
  <2>1. FoundInv'
    BY <1>1, <1>2, <1>3, <1>6 DEF ShortsInv, FoundInv, NoShortTwice
  <2>2. EmptiesInv'
    BY <1>6 DEF ShortsInv, EmptiesInv, ShortOnlyIfExhausted
  <2> QED BY <2>1, <2>2 DEF ShortsInv
<1> QED BY <1>4, <1>5, <1>6

LEMMA ShortsUntouched == ShortsInv /\ UNCHANGED shortsVars => ShortsInv'
BY DEF ShortsInv, FoundInv, EmptiesInv, NoShortTwice, ShortOnlyIfExhausted, shortsVars, reelVars

LEMMA ShortsStep == ShortsInv /\ ShortsNext => ShortsInv'
<1> SUFFICES ASSUME ShortsInv, ShortsNext PROVE ShortsInv'
  OBVIOUS
<1>1. CASE StartShorts
  BY <1>1 DEF StartShorts, ShortsInv, FoundInv, EmptiesInv, NoShortTwice, ShortOnlyIfExhausted,
              reelVars
<1>2. ASSUME NEW listed \in SearchResults, SearchReturns(listed) PROVE ShortsInv'
  <2>1. listed \in Seq(Shorts)
    <3>1. PICK n \in 0 .. PerAnswer : listed \in [1 .. n -> Shorts]
      BY DEF SearchResults
    <3>2. n \in Nat
      BY <3>1, ShortsAssumption DEF ShortsAssumption
    <3> QED BY <3>1, <3>2
  <2> QED BY <1>2, <2>1, SearchKeeps
<1>3. ASSUME NEW httpError \in BOOLEAN, StepFails(httpError) PROVE ShortsInv'
  <2>1. CASE httpError /\ step = 0
    <3>1. /\ stage = "reel" /\ stage' = "failed"
          /\ UNCHANGED <<query, found, reelVars, empties, yields>>
      BY <1>3, <2>1 DEF StepFails
    <3> QED BY <2>1, <3>1 DEF ShortsInv, FoundInv, EmptiesInv, NoShortTwice,
                              ShortOnlyIfExhausted, reelVars
  <2>2. CASE ~(httpError /\ step = 0)
    <3>1. stage = "reel" /\ BatchEnds(batch)
      BY <1>3, <2>2 DEF StepFails
    <3>2. batch \in Seq(Shorts) /\ IsInjective(found \o batch)
      BY DEF ShortsInv, FoundInv, NoShortTwice
    <3> QED BY <3>1, <3>2, BatchEndsKeeps
  <2> QED BY <2>1, <2>2
<1>4. ASSUME NEW short \in Shorts \cup {Nothing}, NEW next \in Positions \cup {Nothing},
             StepReturns(short, next)
      PROVE  ShortsInv'
  BY <1>4, StepKeeps
<1> QED BY <1>1, <1>2, <1>3, <1>4 DEF ShortsNext, ShortsAnswer

-----------------------------------------------------------------------------
(* A channel's tab.                                                            *)

\* As long as requests are out, there are attempts left and none has brought the tab.
TabInv ==
    /\ tabTries \in Seq(Pages \cup {NoTabs})
    /\ tabStage \in {"idle", "params", "plain", "follow", "done"}
    /\ tabKind \in {"videos", "playlists"}
    /\ tabStage # "done" =>
          /\ tabResult = "none" /\ Len(tabTries) < TabAttempts
          /\ \A n \in 1 .. Len(tabTries) : tabTries[n].tab # "shown"
    /\ TabResultIsEarned

LEMMA TabStart == TabInit => TabInv
BY TabAssumption DEF TabAssumption, TabInit, TabInv, TabResultIsEarned

LEMMA TabUntouched == TabInv /\ UNCHANGED tabVars => TabInv'
BY DEF TabInv, TabResultIsEarned, tabVars

\* The result is what the page that has arrived shows.
LEMMA TabReturnedKeeps ==
    ASSUME TabInv, NEW page \in Pages \cup {NoTabs}, PageArrives(page), ~Follows(page)
    PROVE  TabInv'
<1> DEFINE again == tabKind = "playlists" /\ page.tab # "shown" /\ Len(tabTries) + 1 < TabAttempts
<1>1. /\ tabStage # "done" /\ tabAnswer' = page
      /\ UNCHANGED <<tabKind, tabErrors>> /\ TabReturned(page)
  BY DEF PageArrives
<1>2. /\ tabTries' \in Seq(Pages \cup {NoTabs}) /\ Len(tabTries') = Len(tabTries) + 1
      /\ \A n \in 1 .. Len(tabTries) : tabTries'[n] = tabTries[n]
      /\ tabTries'[Len(tabTries) + 1] = page
      /\ Len(tabTries) \in Nat /\ tabTries' = Append(tabTries, page)
  <2>1. tabTries' = Append(tabTries, page) /\ tabTries \in Seq(Pages \cup {NoTabs})
    BY <1>1 DEF TabReturned, TabInv
  <2> QED BY <2>1
<1>3. /\ tabStage' = IF again THEN "params" ELSE "done"
      /\ tabResult' = IF again THEN "none"
                      ELSE IF tabKind = "videos"
                           THEN IF page.tab = "shown" THEN "tab"
                                ELSE IF page.home = "shown" THEN "home" ELSE "changed"
                           ELSE IF page.tab = "shown" THEN "tab" ELSE "changed"
  BY <1>1, <1>2 DEF TabReturned, HasContent, VideosFrom, LastTabs
<1>4. TabAttempts \in Nat
  BY TabAssumption DEF TabAssumption
<1>5. \A n \in 1 .. Len(tabTries) : tabTries[n].tab # "shown"
  BY <1>1 DEF TabInv
<1>6. Len(tabTries) < TabAttempts /\ tabKind \in {"videos", "playlists"}
  BY <1>1 DEF TabInv
<1>7. CASE again
  <2>1. /\ tabStage' = "params" /\ tabResult' = "none" /\ page.tab # "shown"
        /\ Len(tabTries') < TabAttempts
    BY <1>2, <1>3, <1>7
  <2>2. \A n \in 1 .. Len(tabTries') : tabTries'[n].tab # "shown"
    BY <1>2, <1>5, <2>1
  <2> QED BY <1>1, <1>2, <1>6, <2>1, <2>2 DEF TabInv, TabResultIsEarned
<1>8. CASE ~again
  <2>1. /\ tabStage' = "done" /\ tabResult' \in {"tab", "home", "changed"}
        /\ tabResult' = "tab" => page.tab = "shown"
        /\ tabResult' = "home" => page.tab # "shown" /\ page.home = "shown"
        /\ tabResult' = "changed" => page.tab # "shown"
    BY <1>3, <1>6, <1>8
  <2>2. ASSUME tabResult' = "changed", tabKind = "playlists"
        PROVE  /\ Len(tabTries') = TabAttempts
               /\ \A n \in 1 .. TabAttempts : tabTries'[n].tab # "shown"
    <3>1. Len(tabTries) + 1 = TabAttempts
      BY <1>2, <1>4, <1>6, <1>8, <2>1, <2>2
    <3> QED BY <1>2, <1>5, <2>1, <2>2, <3>1
  <2> HIDE DEF again
  <2> QED BY <1>1, <1>2, <1>6, <2>1, <2>2 DEF TabInv, TabResultIsEarned
<1> QED BY <1>7, <1>8

LEMMA TabStep == TabInv /\ TabNext => TabInv'
<1> SUFFICES ASSUME TabInv, TabNext PROVE TabInv'
  OBVIOUS
<1>1. ASSUME NEW kind \in {"videos", "playlists"}, AskTab(kind) PROVE TabInv'
  BY <1>1 DEF AskTab, TabInv, TabResultIsEarned
<1>2. ASSUME NEW page \in Pages \cup {NoTabs}, PageArrives(page) PROVE TabInv'
  <2>1. CASE Follows(page)
    <3>1. /\ tabStage # "done" /\ tabStage' = "follow"
          /\ UNCHANGED <<tabTries, tabResult, tabKind, tabErrors>>
      BY <1>2, <2>1 DEF PageArrives
    <3> QED BY <3>1 DEF TabInv, TabResultIsEarned
  <2> QED BY <1>2, <2>1, TabReturnedKeeps
<1>3. ASSUME NEW status \in {"400", "404", "other"}, TabRefused(status) PROVE TabInv'
  <2>1. /\ tabStage # "done" /\ tabErrors' = tabErrors \cup {<<tabStage, status>>}
        /\ UNCHANGED <<tabKind, tabAnswer, tabTries>>
    BY <1>3 DEF TabRefused
  <2>2. CASE Forgiven(status)
    BY <1>3, <2>1, <2>2 DEF TabRefused, TabInv, TabResultIsEarned
  <2>3. CASE ~Forgiven(status)
    <3>1. /\ tabStage' = "done" /\ tabResult' \in {"notfound", "failed"}
          /\ tabResult' = "notfound" => status = "404" \/ (status = "400" /\ tabStage # "params")
      BY <1>3, <2>3 DEF TabRefused, Forgiven
    <3>2. <<tabStage, status>> \in tabErrors'
      BY <2>1
    <3>3. tabResult' = "notfound" =>
             \E error \in tabErrors' :
                error[2] = "404" \/ (error[2] = "400" /\ error[1] # "params")
      BY <3>1, <3>2
    <3> QED BY <2>1, <3>1, <3>3 DEF TabInv, TabResultIsEarned
  <2> QED BY <2>2, <2>3
<1> QED BY <1>1, <1>2, <1>3 DEF TabNext, TabAnswers

-----------------------------------------------------------------------------
(* A video's details.                                                          *)

\* What the page and then the API have said.
LEMMA AppendToOne ==
    ASSUME NEW T, NEW a \in T, NEW b \in T
    PROVE  LET s == Append(<<a>>, b) IN DOMAIN s = {1, 2} /\ s[1] = a /\ s[2] = b
<1> DEFINE one == <<a>>
           s == Append(one, b)
<1>1. one \in Seq(T) /\ Len(one) = 1 /\ one[1] = a
  OBVIOUS
<1> HIDE DEF one
<1>2. s \in Seq(T) /\ Len(s) = 2 /\ s[2] = b /\ s[1] = one[1]
  <2>1. one \in Seq(T)
    BY <1>1
  <2>2. s \in Seq(T) /\ Len(s) = Len(one) + 1
    BY <2>1, AppendProperties
  <2>3. s[Len(one) + 1] = b /\ \A i \in 1 .. Len(one) : s[i] = one[i]
    BY <2>1, AppendProperties
  <2> HIDE DEF s
  <2> QED BY <1>1, <2>2, <2>3
<1>3. DOMAIN s = 1 .. 2
  BY <1>2, LenProperties
<1>4. 1 .. 2 = {1, 2}
  OBVIOUS
<1> QED BY <1>1, <1>2, <1>3, <1>4 DEF one

\* The API is asked when the page has not said that the video plays.
SeekInv ==
    /\ seekStage \in {"idle", "watch", "api", "done"}
    /\ seekStage # "done" => seekResult = "none"
    /\ seekStage \in {"idle", "watch"} => said = <<>>
    /\ seekStage = "api" => player \in Statuses \ {"OK"} /\ said = <<player>>
    /\ VerdictIsEarned

LEMMA SeekStart == SeekInit => SeekInv
BY DEF SeekInit, SeekInv, VerdictIsEarned

LEMMA SeekUntouched == SeekInv /\ UNCHANGED seekVars => SeekInv'
BY DEF SeekInv, VerdictIsEarned, HasSaid, seekVars

LEMMA SeekStep == SeekInv /\ SeekNext => SeekInv'
<1> SUFFICES ASSUME SeekInv, SeekNext PROVE SeekInv'
  OBVIOUS
<1>1. CASE AskDetail
  BY <1>1 DEF AskDetail, SeekInv, VerdictIsEarned
<1>2. CASE SeekFails
  BY <1>2 DEF SeekFails, SeekInv, VerdictIsEarned
<1>3. ASSUME NEW status \in Statuses, WatchPage(status) PROVE SeekInv'
  <2>1. player' = status /\ said' = <<status>>
    BY <1>3 DEF WatchPage
  <2>2. CASE status = "OK"
    <3>1. seekStage' = "done" /\ seekResult' = "ok" /\ said' = <<"OK">>
      BY <1>3, <2>1, <2>2 DEF WatchPage, OutcomeOf
    <3>2. HasSaid("OK")'
      BY <3>1 DEF HasSaid
    <3> QED BY <3>1, <3>2 DEF SeekInv, VerdictIsEarned
  <2>3. CASE status # "OK"
    <3>1. seekStage' = "api" /\ seekResult' = "none"
      BY <1>3, <2>3 DEF WatchPage, SeekInv
    <3> QED BY <2>1, <2>3, <3>1 DEF SeekInv, VerdictIsEarned
  <2> QED BY <2>2, <2>3
<1>4. ASSUME NEW status \in Statuses, PlayerApi(status) PROVE SeekInv'
  <2>1. /\ player \in Statuses \ {"OK"}
        /\ player' = (IF status = "nothing" THEN player ELSE status)
        /\ seekStage' = "done" /\ seekResult' = OutcomeOf(player')
    BY <1>4 DEF PlayerApi, ApiOrPage, SeekInv
  <2>2. DOMAIN said' = {1, 2} /\ said'[1] = player /\ said'[2] = status /\ Len(said') = 2
    <3>1. said' = Append(<<player>>, status)
      BY <1>4, <2>1 DEF PlayerApi, SeekInv
    <3>2. Len(<<player>>) = 1 /\ <<player>> \in Seq({player, status})
      OBVIOUS
    <3>3. Len(said') = 2
      BY <3>1, <3>2, AppendProperties
    <3> QED BY <2>1, <3>1, <3>3, AppendToOne
  <2>3. \A word : HasSaid(word)' <=> word = player \/ word = status
    BY <2>2 DEF HasSaid
  <2>4. seekResult' = "ok" <=> HasSaid("OK")'
    <3>1. seekResult' = "ok" <=> player' = "OK"
      BY <2>1 DEF OutcomeOf, Statuses
    <3>2. player' = "OK" <=> status = "OK"
      BY <2>1
    <3> QED BY <2>1, <2>3, <3>1, <3>2
  <2>5. seekResult' = "notfound" <=> player' = "UNPLAYABLE"
    BY <2>1 DEF OutcomeOf, Statuses
  <2>6. seekResult' = "notfound" => HasSaid("UNPLAYABLE")'
    BY <2>1, <2>3, <2>5
  <2>7. ASSUME HasSaid("UNPLAYABLE")', ~HasSaid("OK")', said'[Len(said')] # "blank"
        PROVE  seekResult' = "notfound"
    <3>1. status \in {"UNPLAYABLE", "nothing"}
      BY <2>2, <2>3, <2>7 DEF Statuses
    <3>2. status = "nothing" => player = "UNPLAYABLE"
      BY <2>3, <2>7
    <3> QED BY <2>1, <2>5, <3>1, <3>2
  <2>8. VerdictIsEarned'
    BY <2>4, <2>6, <2>7 DEF VerdictIsEarned
  <2> QED BY <2>1, <2>8 DEF SeekInv
<1> QED BY <1>1, <1>2, <1>3, <1>4 DEF SeekNext, SeekAnswers

-----------------------------------------------------------------------------
(* A page of comments.                                                         *)

Tokens == {n \in DOMAIN threads : threads[n]}

TaskType == [state : {"runs", "ended", "failed"}, pages : Nat, got : Seq(Nat)]

\* Every thread has a task of its own, which holds all that YouTube has sent for the
\* thread, and nothing is known of threads before the page is there.
TalkInv ==
    /\ talkStage \in {"idle", "token", "page", "replies", "done", "failed"}
    /\ threads \in Seq(BOOLEAN) /\ DOMAIN replies = DOMAIN threads
    /\ DOMAIN tasks = DOMAIN Threaded /\ DOMAIN served = DOMAIN Threaded
    /\ \A n \in DOMAIN tasks :
          /\ tasks[n] \in TaskType /\ served[n] = Len(tasks[n].got)
          /\ \A k \in DOMAIN tasks[n].got : tasks[n].got[k] = Threaded[n]
    /\ talkStage \in {"idle", "token", "page", "failed"} => threads = <<>>
    /\ talkStage = "done" => AllEnded(tasks)
    /\ RepliesOfTheirOwn /\ CommentsNotLost

\* The threads that have a task are comments of the page, one task for each.
LEMMA ThreadedFacts ==
    ASSUME threads \in Seq(BOOLEAN)
    PROVE  /\ Cardinality(Tokens) \in Nat /\ DOMAIN Threaded = 1 .. Cardinality(Tokens)
           /\ Len(Threaded) = Cardinality(Tokens)
           /\ \A n \in DOMAIN Threaded : Threaded[n] \in DOMAIN threads /\ Threaded[n] \in Nat
           /\ \A n, m \in DOMAIN Threaded : Threaded[n] = Threaded[m] => n = m
<1>1. DOMAIN threads = 1 .. Len(threads) /\ Len(threads) \in Nat
  BY LenProperties
<1>2. Tokens \in SUBSET Int /\ Tokens \subseteq DOMAIN threads /\ IsFiniteSet(Tokens)
  <2>1. IsFiniteSet(1 .. Len(threads))
    BY <1>1, FS_Interval
  <2>2. Tokens \in SUBSET (1 .. Len(threads))
    BY <1>1 DEF Tokens
  <2>3. IsFiniteSet(Tokens)
    BY <2>1, <2>2, FS_Subset
  <2> QED BY <1>1, <2>2, <2>3
<1>3. Threaded = Ascending(Tokens)
  BY DEF Threaded, Tokens
<1> HIDE DEF Tokens
<1>4. /\ Threaded \in Seq(Tokens) /\ Len(Threaded) = Cardinality(Tokens)
      /\ Cardinality(Tokens) \in Nat
      /\ \A i, j \in 1 .. Cardinality(Tokens) : Threaded[i] = Threaded[j] => i = j
  BY <1>2, <1>3, AscendingFacts
<1>5. DOMAIN Threaded = 1 .. Cardinality(Tokens)
  BY <1>4, LenProperties
<1>6. \A n \in DOMAIN Threaded : Threaded[n] \in Tokens
  BY <1>4, <1>5, ElementOfSeq
<1>7. \A n \in DOMAIN Threaded : Threaded[n] \in DOMAIN threads /\ Threaded[n] \in Nat
  <2>1. \A n \in 1 .. Len(threads) : n \in Nat
    BY <1>1
  <2>2. \A n \in DOMAIN Threaded : Threaded[n] \in DOMAIN threads
    BY <1>2, <1>6
  <2> QED BY <1>1, <2>1, <2>2
<1>8. \A n, m \in DOMAIN Threaded : Threaded[n] = Threaded[m] => n = m
  BY <1>4, <1>5
<1> QED BY <1>4, <1>5, <1>7, <1>8

\* Without comments there are no tasks.
LEMMA NoThreads ==
    ASSUME threads = <<>>
    PROVE  threads \in Seq(BOOLEAN) /\ DOMAIN threads = {} /\ DOMAIN Threaded = {}
<1>1. threads \in Seq(BOOLEAN) /\ DOMAIN threads = {}
  OBVIOUS
<1>2. Tokens = {}
  BY <1>1 DEF Tokens
<1> QED BY <1>1, <1>2, ThreadedFacts, FS_EmptySet

LEMMA TalkStart == TalkInit => TalkInv
<1> SUFFICES ASSUME TalkInit PROVE TalkInv
  OBVIOUS
<1>1. DOMAIN threads = {} /\ DOMAIN Threaded = {} /\ threads \in Seq(BOOLEAN)
  BY NoThreads DEF TalkInit
<1>2. talkStage = "idle" /\ DOMAIN replies = {} /\ DOMAIN tasks = {} /\ DOMAIN served = {}
  BY DEF TalkInit
<1>3. RepliesOfTheirOwn /\ CommentsNotLost
  BY <1>2 DEF RepliesOfTheirOwn, CommentsNotLost
<1> QED BY <1>1, <1>2, <1>3 DEF TalkInv, TalkInit

LEMMA TalkUntouched == TalkInv /\ UNCHANGED talkVars => TalkInv'
BY DEF TalkInv, talkVars, Threaded, AllEnded, RepliesOfTheirOwn, CommentsNotLost

\* A task that goes on has what it has got before and what has come now.
LEMMA TaskStepsKeeps ==
    ASSUME TalkInv, NEW n \in DOMAIN tasks, talkStage = "replies", NEW task \in TaskType,
           TaskSteps(n, task), \A k \in DOMAIN task.got : task.got[k] = Threaded[n],
           DOMAIN served' = DOMAIN served, served'[n] = Len(task.got),
           \A m \in DOMAIN served \ {n} : served'[m] = served[m]
    PROVE  TalkInv'
<1>1. threads' = threads /\ Threaded' = Threaded
  BY DEF TaskSteps, Threaded
<1>2. /\ DOMAIN tasks' = DOMAIN tasks /\ tasks'[n] = task
      /\ \A m \in DOMAIN tasks \ {n} : tasks'[m] = tasks[m]
  BY DEF TaskSteps
<1>3. threads \in Seq(BOOLEAN) /\ DOMAIN replies = DOMAIN threads
  BY DEF TalkInv
<1>4. DOMAIN tasks = DOMAIN Threaded /\ DOMAIN served = DOMAIN Threaded
  BY DEF TalkInv
<1>5. ASSUME NEW m \in DOMAIN tasks'
      PROVE  /\ tasks'[m] \in TaskType /\ served'[m] = Len(tasks'[m].got)
             /\ \A k \in DOMAIN tasks'[m].got : tasks'[m].got[k] = Threaded'[m]
  <2>1. CASE m = n
    BY <1>1, <1>2, <2>1
  <2>2. CASE m # n
    BY <1>1, <1>2, <1>4, <1>5, <2>2 DEF TalkInv
  <2> QED BY <2>1, <2>2
<1>6. CASE AllEnded(tasks')
  <2>1. /\ talkStage' = "done" /\ DOMAIN replies' = DOMAIN replies
        /\ \A c \in DOMAIN replies : (\E i \in DOMAIN tasks : Pending[i] = c) =>
              replies'[c] = ResultOf(tasks'[CHOOSE i \in DOMAIN tasks : Pending[i] = c])
    BY <1>6 DEF TaskSteps
  <2>2. ASSUME NEW m \in DOMAIN tasks
        PROVE  /\ Threaded[m] \in DOMAIN replies
               /\ replies'[Threaded[m]] = ResultOf(tasks'[m])
    <3>1. Threaded[m] \in DOMAIN replies
      BY <1>3, <1>4, <2>2, ThreadedFacts
    <3>2. \A i \in DOMAIN tasks : Pending[i] = Threaded[m] <=> i = m
      BY <1>3, <1>4, <2>2, ThreadedFacts DEF Pending
    <3>3. (CHOOSE i \in DOMAIN tasks : Pending[i] = Threaded[m]) = m
      BY <2>2, <3>2
    <3> QED BY <2>1, <2>2, <3>1, <3>2, <3>3
  <2>3. ASSUME NEW m \in DOMAIN tasks'
        PROVE  LET comment == Threaded'[m]
               IN  /\ \A k \in DOMAIN replies'[comment] : replies'[comment][k] = comment
                   /\ Len(replies'[comment]) =
                         IF tasks'[m].state = "failed" THEN 0 ELSE served'[m]
    <3>1. replies'[Threaded'[m]] = ResultOf(tasks'[m])
      BY <1>1, <1>2, <2>2, <2>3
    <3>2. tasks'[m].state \in {"ended", "failed"}
      <4>1. tasks'[m].state # "runs" /\ tasks'[m] \in TaskType
        BY <1>5, <1>6, <2>3 DEF AllEnded
      <4> QED BY <4>1 DEF TaskType
    <3>3. CASE tasks'[m].state = "ended"
      BY <1>5, <2>3, <3>1, <3>3 DEF ResultOf
    <3>4. CASE tasks'[m].state = "failed"
      <4>1. replies'[Threaded'[m]] = <<>>
        BY <3>1, <3>4 DEF ResultOf
      <4>2. Len(<<>>) = 0 /\ DOMAIN <<>> = {}
        OBVIOUS
      <4> QED BY <3>4, <4>1, <4>2
    <3> QED BY <3>2, <3>3, <3>4
  <2>4. RepliesOfTheirOwn'
    BY <2>3 DEF RepliesOfTheirOwn
  <2>5. CommentsNotLost' /\ AllEnded(tasks)'
    BY <1>6, <2>1 DEF CommentsNotLost, AllEnded
  <2> QED BY <1>1, <1>2, <1>3, <1>4, <1>5, <2>1, <2>4, <2>5 DEF TalkInv
<1>7. CASE ~AllEnded(tasks')
  <2>1. talkStage' = "replies" /\ replies' = replies
    BY <1>7 DEF TaskSteps
  <2>2. RepliesOfTheirOwn' /\ CommentsNotLost'
    BY <2>1 DEF RepliesOfTheirOwn, CommentsNotLost
  <2> QED BY <1>1, <1>2, <1>3, <1>4, <1>5, <2>1, <2>2 DEF TalkInv
<1> QED BY <1>6, <1>7

\* The page brings a task for every thread.
LEMMA PageKeeps ==
    ASSUME TalkInv, NEW page \in Seq(BOOLEAN), CommentsArrive(page)
    PROVE  TalkInv'
<1> DEFINE tokens == {n \in DOMAIN page : page[n]}
           fetched == Cardinality(tokens)
<1>1. /\ threads' = page /\ DOMAIN replies' = DOMAIN page
      /\ tasks' = [n \in 1 .. fetched |-> Task("runs", 0, <<>>)]
      /\ served' = [n \in 1 .. fetched |-> 0]
      /\ talkStage' = IF fetched = 0 THEN "done" ELSE "replies"
  BY DEF CommentsArrive
<1>2. fetched \in Nat /\ DOMAIN Threaded' = 1 .. fetched
  <2>1. DOMAIN Threaded' = 1 .. fetched
    BY <1>1 DEF Threaded, Ascending
  <2>2. DOMAIN page = 1 .. Len(page) /\ Len(page) \in Nat
    BY LenProperties
  <2>3. IsFiniteSet(1 .. Len(page))
    BY <2>2, FS_Interval
  <2>4. IsFiniteSet(tokens)
    <3>1. tokens \in SUBSET (1 .. Len(page))
      BY <2>2
    <3> QED BY <2>3, <3>1, FS_Subset
  <2> QED BY <2>1, <2>4, FS_CardinalityType
<1> HIDE DEF fetched
<1>3. DOMAIN tasks' = 1 .. fetched /\ DOMAIN served' = 1 .. fetched
  BY <1>1
<1>4. ASSUME NEW n \in DOMAIN tasks'
      PROVE  /\ tasks'[n] \in TaskType /\ served'[n] = Len(tasks'[n].got)
             /\ \A k \in DOMAIN tasks'[n].got : tasks'[n].got[k] = Threaded'[n]
  <2>1. tasks'[n] = Task("runs", 0, <<>>) /\ served'[n] = 0
    BY <1>1, <1>3, <1>4
  <2>2. <<>> \in Seq(Nat) /\ Len(<<>>) = 0 /\ DOMAIN <<>> = {}
    OBVIOUS
  <2>3. tasks'[n] \in TaskType /\ tasks'[n].got = <<>>
    BY <2>1, <2>2 DEF Task, TaskType
  <2> QED BY <2>1, <2>2, <2>3
<1>5. talkStage' = "done" => DOMAIN tasks' = {}
  BY <1>1, <1>2, <1>3
<1>6. talkStage' \in {"replies", "done"}
  BY <1>1
<1>7. RepliesOfTheirOwn' /\ CommentsNotLost' /\ (talkStage' = "done" => AllEnded(tasks)')
  BY <1>5, <1>6 DEF RepliesOfTheirOwn, CommentsNotLost, AllEnded
<1> QED BY <1>1, <1>2, <1>3, <1>4, <1>6, <1>7 DEF TalkInv

\* What comes before the page leaves the comments unknown.
LEMMA BeforeThePage ==
    ASSUME TalkInv, threads = <<>>, talkStage' \in {"token", "page", "done", "failed"},
           UNCHANGED <<threads, replies, tasks, served>>
    PROVE  TalkInv'
<1>1. DOMAIN Threaded = {} /\ Threaded' = Threaded
  BY NoThreads DEF Threaded
<1>2. DOMAIN tasks' = {}
  BY <1>1 DEF TalkInv
<1>3. RepliesOfTheirOwn' /\ CommentsNotLost' /\ AllEnded(tasks)'
  BY <1>2 DEF RepliesOfTheirOwn, CommentsNotLost, AllEnded
<1> QED BY <1>1, <1>2, <1>3 DEF TalkInv

LEMMA TalkStep == TalkInv /\ TalkNext => TalkInv'
<1> SUFFICES ASSUME TalkInv, TalkNext PROVE TalkInv'
  OBVIOUS
<1>1. CASE AskComments
  BY <1>1, BeforeThePage DEF AskComments, TalkInv
<1>2. ASSUME NEW given \in BOOLEAN, TokenArrives(given) PROVE TalkInv'
  <2>1. talkStage' \in {"page", "done"} /\ threads = <<>>
    BY <1>2 DEF TokenArrives, TalkInv
  <2> QED BY <1>2, <2>1, BeforeThePage DEF TokenArrives
<1>3. ASSUME NEW page \in UpTo(MaxThreads, BOOLEAN), CommentsArrive(page) PROVE TalkInv'
  <2>1. page \in Seq(BOOLEAN)
    BY CommentsAssumption DEF UpTo
  <2> QED BY <1>3, <2>1, PageKeeps
<1>4. CASE CommentsRefused
  BY <1>4, BeforeThePage DEF CommentsRefused, TalkInv
<1>5. ASSUME NEW n \in DOMAIN tasks, NEW count \in 0 .. MaxReplies, NEW more \in BOOLEAN,
             RepliesArrive(n, count, more)
      PROVE  TalkInv'
  <2> DEFINE come == [k \in 1 .. count |-> Threaded[n]]
             pages == tasks[n].pages + 1
             state == IF more /\ PagesLeft(pages) THEN "runs" ELSE "ended"
             got == tasks[n].got \o come
             task == Task(state, pages, got)
  <2>1. /\ talkStage = "replies" /\ served' = [served EXCEPT ![n] = @ + count]
        /\ TaskSteps(n, task)
    BY <1>5 DEF RepliesArrive
  <2>2. /\ tasks[n] \in TaskType /\ served[n] = Len(tasks[n].got)
        /\ \A k \in DOMAIN tasks[n].got : tasks[n].got[k] = Threaded[n]
    BY DEF TalkInv
  <2>3. tasks[n].got \in Seq(Nat) /\ pages \in Nat
    BY <2>2 DEF TaskType
  <2>4. Threaded[n] \in Nat /\ n \in DOMAIN served
    BY ThreadedFacts DEF TalkInv
  <2>5. come \in Seq(Nat) /\ Len(come) = count
    <3>1. count \in Nat
      BY CommentsAssumption
    <3>2. come \in [1 .. count -> Nat]
      BY <2>4
    <3> QED BY <3>1, <3>2
  <2>6. \A k \in 1 .. count : come[k] = Threaded[n]
    OBVIOUS
  <2> HIDE DEF come
  <2>7. /\ got \in Seq(Nat) /\ Len(got) = Len(tasks[n].got) + count
        /\ \A k \in DOMAIN got : got[k] = Threaded[n]
    <3> DEFINE old == tasks[n].got
    <3>1. old \in Seq(Nat) /\ come \in Seq(Nat)
      BY <2>3, <2>5
    <3> HIDE DEF old
    <3>2. /\ old \o come \in Seq(Nat) /\ Len(old \o come) = Len(old) + Len(come)
          /\ \A k \in 1 .. Len(old) + Len(come) :
                (old \o come)[k] = IF k <= Len(old) THEN old[k] ELSE come[k - Len(old)]
      BY <3>1, ConcatProperties
    <3>3. /\ DOMAIN (old \o come) = 1 .. Len(old) + Len(come) /\ DOMAIN old = 1 .. Len(old)
          /\ Len(old) \in Nat
      BY <3>1, <3>2, LenProperties
    <3>4. \A k \in DOMAIN old : old[k] = Threaded[n]
      BY <2>2 DEF old
    <3>5. \A k \in DOMAIN (old \o come) : (old \o come)[k] = Threaded[n]
      <4> SUFFICES ASSUME NEW k \in 1 .. Len(old) + Len(come)
                   PROVE  (old \o come)[k] = Threaded[n]
        BY <3>3
      <4>1. CASE k <= Len(old)
        <5>1. k \in DOMAIN old
          BY <3>3, <4>1
        <5>2. (old \o come)[k] = old[k]
          BY <3>2, <4>1
        <5> QED BY <3>4, <5>1, <5>2
      <4>2. CASE ~(k <= Len(old))
        <5>1. k - Len(old) \in 1 .. count
          BY <2>5, <3>3, <4>2
        <5> QED BY <2>6, <3>2, <4>2, <5>1
      <4> QED BY <4>1, <4>2
    <3> QED BY <2>5, <3>2, <3>5 DEF old
  <2> HIDE DEF got, pages
  <2>8. state \in {"runs", "ended", "failed"}
    OBVIOUS
  <2> HIDE DEF state
  <2>9. task \in TaskType /\ task.got = got
    BY <2>3, <2>7, <2>8 DEF Task, TaskType, pages
  <2> HIDE DEF task
  <2>10. /\ DOMAIN served' = DOMAIN served /\ served'[n] = served[n] + count
         /\ \A m \in DOMAIN served \ {n} : served'[m] = served[m]
    BY <2>1, <2>4
  <2> QED BY <2>1, <2>2, <2>7, <2>9, <2>10, TaskStepsKeeps
<1>6. ASSUME NEW n \in DOMAIN tasks, RepliesFail(n) PROVE TalkInv'
  <2> DEFINE task == [tasks[n] EXCEPT !.state = "failed"]
  <2>1. talkStage = "replies" /\ served' = served /\ TaskSteps(n, task)
    BY <1>6 DEF RepliesFail
  <2>2. /\ tasks[n] \in TaskType /\ served[n] = Len(tasks[n].got)
        /\ \A k \in DOMAIN tasks[n].got : tasks[n].got[k] = Threaded[n]
    BY DEF TalkInv
  <2>3. task \in TaskType /\ task.got = tasks[n].got
    BY <2>2 DEF TaskType
  <2> HIDE DEF task
  <2> QED BY <2>1, <2>2, <2>3, TaskStepsKeeps
<1> QED BY <1>1, <1>2, <1>3, <1>4, <1>5, <1>6 DEF TalkNext, TalkAnswers

-----------------------------------------------------------------------------
(* Batches.                                                                    *)

\* The videos whose tasks have got a slot: those before the ones that wait.
Started == Len(ids) - Len(waiting)

\* The videos of a batch are those asked for, each once.
VideosInv ==
    /\ batchStage \in {"idle", "refused", "runs", "done"}
    /\ ids \in Seq(Videos) /\ IsInjective(ids)
    /\ batchStage \in {"runs", "done"} => ToSet(ids) = ToSet(input) \ {Blank}

\* The last videos of the batch wait, in order; of the others, each either runs or
\* has ended, once.
SlotsInv ==
    /\ waiting \in Seq(Nat) /\ Len(waiting) <= Len(ids)
    /\ \A k \in 1 .. Len(waiting) : waiting[k] = Started + k
    /\ running \subseteq 1 .. Started
    /\ outcomes \in Seq([position : Nat, outcome : Outcomes])
    /\ \A k \in 1 .. Len(outcomes) : outcomes[k].position \in (1 .. Started) \ running
    /\ \A j, k \in 1 .. Len(outcomes) : outcomes[j].position = outcomes[k].position => j = k
    /\ Cardinality(running) + Len(outcomes) = Started
    /\ SlotsWellUsed

\* A batch is answered when all have ended, and not before.
AnswerInv ==
    /\ batchStage \in {"idle", "refused"} => ids = <<>> /\ waiting = <<>>
    /\ batchStage = "runs" => Len(outcomes) < Len(ids)
    /\ batchStage = "done" => Len(outcomes) = Len(ids) /\ items = InOrder(outcomes)

BatchInv == VideosInv /\ SlotsInv /\ AnswerInv

\* An accepted list of entries is a batch of the videos in it, each once.
LEMMA EntriesFacts ==
    ASSUME NEW raw \in Inputs
    PROVE  /\ Entries(raw) \in Seq(Videos \cup {Malformed})
           /\ IsInjective(Entries(raw)) /\ ToSet(Entries(raw)) = ToSet(raw) \ {Blank}
<1> DEFINE T == Videos \cup {Blank, Malformed}
           positions == {n \in Firsts(raw) : raw[n] # Blank}
           parts == Selected(raw, positions)
<1>1. raw \in Seq(T) /\ Blank # Malformed /\ Blank \notin Videos
  BY BatchAssumption
<1> HIDE DEF T
<1>2. /\ Firsts(raw) \in SUBSET DOMAIN raw
      /\ \A n, m \in Firsts(raw) : raw[n] = raw[m] => n = m
      /\ \A n \in DOMAIN raw : \E m \in Firsts(raw) : raw[m] = raw[n]
  BY <1>1, FirstsFacts
<1>3. positions \in SUBSET DOMAIN raw /\ \A n, m \in positions : raw[n] = raw[m] => n = m
  BY <1>2
<1>4. /\ parts \in Seq(T) /\ IsInjective(parts)
      /\ ToSet(parts) = {raw[n] : n \in positions}
  <2> HIDE DEF positions
  <2> QED BY <1>1, <1>3, SelectedFacts
<1>5. Entries(raw) = parts
  BY DEF Entries
<1>6. ToSet(raw) = {raw[n] : n \in DOMAIN raw}
  BY DEF ToSet
<1>7. {raw[n] : n \in positions} = {raw[n] : n \in DOMAIN raw} \ {Blank}
  BY <1>2
<1> HIDE DEF parts, positions
<1>8. Blank \notin ToSet(parts)
  BY <1>4, <1>7
<1>9. parts \in Seq(Videos \cup {Malformed})
  <2>1. DOMAIN parts = 1 .. Len(parts) /\ Len(parts) \in Nat /\ parts \in [1 .. Len(parts) -> T]
    BY <1>4
  <2>2. \A n \in 1 .. Len(parts) : parts[n] \in ToSet(parts)
    BY <2>1 DEF ToSet
  <2>3. \A n \in 1 .. Len(parts) : parts[n] \in Videos \cup {Malformed}
    BY <1>8, <2>1, <2>2 DEF T
  <2>4. parts \in [1 .. Len(parts) -> Videos \cup {Malformed}]
    BY <2>1, <2>3
  <2> QED BY <2>1, <2>4
<1> QED BY <1>4, <1>5, <1>6, <1>7, <1>9

LEMMA BatchStart == BatchInit => BatchInv
<1> SUFFICES ASSUME BatchInit PROVE BatchInv
  OBVIOUS
<1>1. /\ batchStage = "idle" /\ ids = <<>> /\ waiting = <<>> /\ running = {} /\ outcomes = <<>>
      /\ Len(<<>>) = 0 /\ Cardinality(running) = 0 /\ Concurrency \in Nat
  BY FS_EmptySet, BatchAssumption DEF BatchInit
<1>2. VideosInv
  BY <1>1 DEF VideosInv, IsInjective
<1>3. Started = 0 /\ SlotsWellUsed
  BY <1>1 DEF Started, SlotsWellUsed
<1>4. SlotsInv
  BY <1>1, <1>3 DEF SlotsInv
<1>5. AnswerInv
  BY <1>1 DEF AnswerInv
<1> QED BY <1>2, <1>4, <1>5 DEF BatchInv

LEMMA BatchUntouched == BatchInv /\ UNCHANGED batchVars => BatchInv'
<1> SUFFICES ASSUME BatchInv, UNCHANGED batchVars PROVE BatchInv'
  OBVIOUS
<1>1. VideosInv'
  BY DEF BatchInv, VideosInv, batchVars
<1>2. Started' = Started /\ SlotsWellUsed'
  BY DEF BatchInv, SlotsInv, Started, SlotsWellUsed, batchVars
<1>3. SlotsInv'
  BY <1>2 DEF BatchInv, SlotsInv, batchVars
<1>4. InOrder(outcomes)' = InOrder(outcomes)
  BY DEF InOrder, Item, batchVars
<1>5. AnswerInv'
  BY <1>4 DEF BatchInv, AnswerInv, batchVars
<1> QED BY <1>1, <1>3, <1>5 DEF BatchInv

\* The first videos get the slots, the others wait; or nothing is begun at all.
LEMMA AskKeeps ==
    ASSUME BatchInv, NEW raw \in Inputs, AskBatch(raw)
    PROVE  BatchInv'
<1> DEFINE parts == Entries(raw)
           slots == IF Len(parts) < Concurrency THEN Len(parts) ELSE Concurrency
<1>1. parts \in Seq(Videos \cup {Malformed}) /\ IsInjective(parts)
      /\ ToSet(parts) = ToSet(raw) \ {Blank}
  BY EntriesFacts
<1>2. /\ batchStage = "idle" /\ input' = raw /\ outcomes' = outcomes /\ items' = items
      /\ Acceptable(parts) => /\ batchStage' = "runs" /\ ids' = parts
                              /\ running' = 1 .. slots
                              /\ waiting' = [n \in 1 .. Len(parts) - slots |-> slots + n]
      /\ ~Acceptable(parts) => /\ batchStage' = "refused"
                               /\ ids' = ids /\ running' = running /\ waiting' = waiting
  BY DEF AskBatch
<1>3. ids = <<>> /\ waiting = <<>> /\ outcomes \in Seq([position : Nat, outcome : Outcomes])
  BY <1>2 DEF BatchInv, AnswerInv, SlotsInv
<1> HIDE DEF parts
<1>4. CASE ~Acceptable(parts)
  <2>1. VideosInv'
    BY <1>2, <1>4 DEF BatchInv, VideosInv
  <2>2. SlotsInv'
    BY <1>2, <1>3, <1>4 DEF BatchInv, SlotsInv, Started, SlotsWellUsed
  <2>3. AnswerInv'
    BY <1>2, <1>3, <1>4 DEF AnswerInv
  <2> QED BY <2>1, <2>2, <2>3 DEF BatchInv
<1>5. CASE Acceptable(parts)
  <2>1. Len(parts) \in Nat /\ Concurrency \in Nat \ {0} /\ Len(parts) > 0
    BY <1>1, <1>5, BatchAssumption DEF Acceptable
  <2>2. parts \in Seq(Videos)
    <3>1. \A n \in 1 .. Len(parts) : parts[n] \in Videos
      <4>1. \A n \in 1 .. Len(parts) : parts[n] \in Videos \cup {Malformed} /\ parts[n] \in ToSet(parts)
        BY <1>1 DEF ToSet
      <4>2. Malformed \notin ToSet(parts)
        BY <1>5 DEF Acceptable
      <4> QED BY <4>1, <4>2
    <3>2. parts \in [1 .. Len(parts) -> Videos]
      BY <1>1, <3>1
    <3> QED BY <2>1, <3>2
  <2>3. VideosInv'
    BY <1>1, <1>2, <1>5, <2>2 DEF VideosInv
  <2>4. slots \in 1 .. Len(parts) /\ slots <= Concurrency
        /\ (slots < Len(parts) => slots = Concurrency)
    BY <2>1
  <2> HIDE DEF slots
  <2>5. /\ waiting' \in Seq(Nat) /\ Len(waiting') = Len(parts) - slots
        /\ \A k \in 1 .. Len(parts) - slots : waiting'[k] = slots + k
    <3>1. Len(parts) - slots \in Nat /\ slots \in Nat
      BY <2>1, <2>4
    <3>2. waiting' \in [1 .. Len(parts) - slots -> Nat]
      BY <1>2, <1>5, <3>1
    <3> QED BY <1>2, <1>5, <3>1, <3>2
  <2>6. Started' = slots
    BY <1>2, <1>5, <2>1, <2>4, <2>5 DEF Started
  <2>7. Cardinality(running') = slots
    BY <1>2, <1>5, <2>1, <2>4, FS_Interval
  <2>8. outcomes = <<>> /\ outcomes' = <<>> /\ Len(outcomes') = 0
    <3>1. Len(outcomes) = 0
      <4>1. Started = 0 /\ running = {}
        <5>1. Started = 0
          BY <1>3 DEF Started
        <5> QED BY <5>1 DEF BatchInv, SlotsInv
      <4>2. Cardinality({}) = 0
        BY FS_EmptySet
      <4>3. Len(outcomes) \in Nat
        BY <1>3
      <4> QED BY <4>1, <4>2, <4>3 DEF BatchInv, SlotsInv
    <3> QED BY <1>2, <1>3, <3>1, EmptySeq
  <2>9. SlotsWellUsed'
    <3>1. waiting' # <<>> => Len(parts) - slots > 0
      BY <2>1, <2>4, <2>5, EmptySeq
    <3>2. waiting' # <<>> => slots = Concurrency
      BY <2>1, <2>4, <3>1
    <3> QED BY <2>4, <2>7, <3>2 DEF SlotsWellUsed
  <2>10. SlotsInv'
    <3>1. \A k \in 1 .. Len(outcomes') : FALSE
      BY <2>8
    <3>2. Cardinality(running') + Len(outcomes') = Started'
      BY <2>4, <2>6, <2>7, <2>8
    <3>3. Len(waiting') <= Len(ids') /\ running' \subseteq 1 .. Started'
      BY <1>2, <1>5, <2>1, <2>4, <2>5, <2>6
    <3> QED BY <1>2, <1>3, <2>5, <2>6, <2>9, <3>1, <3>2, <3>3 DEF SlotsInv
  <2>11. AnswerInv'
    BY <1>2, <1>5, <2>1, <2>8 DEF AnswerInv
  <2> QED BY <2>3, <2>10, <2>11 DEF BatchInv
<1> QED BY <1>4, <1>5

\* What an operation that ends adds to the outcomes.
LEMMA OneMoreOutcome ==
    ASSUME SlotsInv, NEW n \in running, NEW outcome \in Outcomes,
           outcomes' = Append(outcomes, [position |-> n, outcome |-> outcome])
    PROVE  LET size == Len(outcomes)
           IN  /\ size \in Nat
               /\ outcomes' \in Seq([position : Nat, outcome : Outcomes])
               /\ Len(outcomes') = size + 1 /\ outcomes'[size + 1].position = n
               /\ \A k \in 1 .. size : outcomes'[k].position = outcomes[k].position
<1> DEFINE T == [position : Nat, outcome : Outcomes]
           e == [position |-> n, outcome |-> outcome]
<1>1. Started \in Int /\ n \in Nat
  <2>1. Len(ids) \in Int /\ Len(waiting) \in Int => Started \in Int
    BY DEF Started
  <2>2. n \in 1 .. Started
    BY DEF SlotsInv
  <2> QED BY <2>2, <2>1
<1>2. outcomes \in Seq(T)
  BY DEF SlotsInv
<1>3. e \in T /\ e.position = n
  BY <1>1
<1> HIDE DEF T, e
<1>4. outcomes' = Append(outcomes, e)
  BY DEF e
<1>5. /\ outcomes' \in Seq(T) /\ Len(outcomes') = Len(outcomes) + 1
      /\ \A k \in 1 .. Len(outcomes) : outcomes'[k] = outcomes[k]
      /\ outcomes'[Len(outcomes) + 1] = e
  BY <1>2, <1>3, <1>4, AppendProperties
<1>6. Len(outcomes) \in Nat
  BY <1>2
<1> QED BY <1>3, <1>5, <1>6 DEF T

\* The slot of an operation that ends goes to the first that waits.
LEMMA EndKeeps ==
    ASSUME BatchInv, NEW n \in running, NEW outcome \in Outcomes, OperationEnds(n, outcome)
    PROVE  BatchInv'
<1> DEFINE size == Len(outcomes)
           left == Len(waiting)
           total == Len(ids)
<1>1. /\ batchStage = "runs" /\ ids' = ids /\ input' = input
      /\ outcomes' = Append(outcomes, [position |-> n, outcome |-> outcome])
      /\ running' = (running \ {n}) \cup IF waiting # <<>> THEN {Head(waiting)} ELSE {}
      /\ waiting' = IF waiting # <<>> THEN Tail(waiting) ELSE waiting
      /\ IF Len(outcomes') = Len(ids)
         THEN batchStage' = "done" /\ items' = InOrder(outcomes')
         ELSE batchStage' = batchStage /\ items' = items
  BY DEF OperationEnds, Releases
<1>2. SlotsInv /\ ids \in Seq(Videos) /\ waiting \in Seq(Nat)
      /\ outcomes \in Seq([position : Nat, outcome : Outcomes])
  BY DEF BatchInv, SlotsInv, VideosInv
<1>3. size \in Nat /\ left \in Nat /\ total \in Nat /\ left <= total /\ size < total
  BY <1>1, <1>2 DEF SlotsInv, BatchInv, AnswerInv
<1>4. /\ outcomes' \in Seq([position : Nat, outcome : Outcomes])
      /\ Len(outcomes') = size + 1 /\ outcomes'[size + 1].position = n
      /\ \A k \in 1 .. size : outcomes'[k].position = outcomes[k].position
  BY <1>1, <1>2, OneMoreOutcome
<1>5. Started = total - left /\ Started \in Nat
  BY <1>3 DEF Started
<1>6. running \subseteq 1 .. Started /\ IsFiniteSet(running) /\ Cardinality(running) \in Nat
  <2>1. IsFiniteSet(1 .. Started) /\ running \subseteq 1 .. Started
    BY <1>2, <1>5, FS_Interval DEF SlotsInv
  <2> QED BY <2>1, FS_Subset, FS_CardinalityType
<1>7. /\ IsFiniteSet(running \ {n})
      /\ Cardinality(running \ {n}) = Cardinality(running) - 1
  BY <1>6, FS_RemoveElement
<1>8. VideosInv'
  BY <1>1 DEF BatchInv, VideosInv
<1>9. AnswerInv'
  <2>1. CASE size + 1 = total
    <3>1. InOrder(outcomes)' = InOrder(outcomes')
      BY <1>1 DEF InOrder, Item
    <3>2. batchStage' = "done" /\ items' = InOrder(outcomes)' /\ Len(outcomes') = Len(ids')
      BY <1>1, <1>4, <2>1, <3>1
    <3> QED BY <3>2 DEF AnswerInv
  <2>2. CASE size + 1 # total
    BY <1>1, <1>3, <1>4, <2>2 DEF AnswerInv
  <2> QED BY <2>1, <2>2
<1>10. /\ Len(waiting') \in Nat /\ Len(waiting') <= total /\ Started' \in Nat
       /\ waiting' \in Seq(Nat)
       /\ Started' = Started + (IF waiting # <<>> THEN 1 ELSE 0)
       /\ \A k \in 1 .. Len(waiting') : waiting'[k] = Started' + k
       /\ running' = (running \ {n}) \cup (Started + 1) .. Started'
       /\ waiting' # <<>> => waiting # <<>>
  <2>1. CASE waiting = <<>>
    <3>1. waiting' = waiting /\ Len(waiting') = left /\ Started' = Started
      BY <1>1, <2>1 DEF Started
    <3>2. running' = running \ {n} /\ (Started + 1) .. Started = {}
      BY <1>1, <1>5, <2>1
    <3> QED BY <1>2, <1>3, <1>5, <2>1, <3>1, <3>2 DEF SlotsInv
  <2>2. CASE waiting # <<>>
    <3>1. waiting' = Tail(waiting) /\ running' = (running \ {n}) \cup {Head(waiting)}
      BY <1>1, <2>2
    <3>2. /\ waiting' \in Seq(Nat) /\ Len(waiting') = left - 1
          /\ \A k \in 1 .. Len(waiting') : waiting'[k] = waiting[k + 1]
      BY <1>2, <2>2, <3>1, HeadTailProperties
    <3>3. left > 0
      BY <1>2, <1>3, <2>2, EmptySeq
    <3>4. Started' = Started + 1
      <4>1. Started' = Len(ids') - Len(waiting')
        BY DEF Started
      <4>2. Len(ids') = total
        BY <1>1
      <4>3. Started' = total - (left - 1)
        BY <3>2, <4>1, <4>2
      <4> HIDE DEF total, left
      <4> QED BY <1>3, <1>5, <4>3
    <3>5. \A k \in 1 .. left : waiting[k] = Started + k
      BY <1>2 DEF SlotsInv
    <3>6. Head(waiting) = Started + 1
      BY <1>2, <1>3, <3>3, <3>5
    <3>7. \A k \in 1 .. Len(waiting') : waiting'[k] = Started' + k
      BY <1>3, <1>5, <3>2, <3>4, <3>5
    <3>8. (Started + 1) .. (Started + 1) = {Started + 1}
      BY <1>5
    <3> QED BY <1>3, <1>5, <2>2, <3>1, <3>2, <3>3, <3>4, <3>6, <3>7, <3>8
  <2> QED BY <2>1, <2>2
<1> HIDE DEF size, left, total
<1>11. running' \subseteq 1 .. Started'
  <2>1. 1 .. Started \subseteq 1 .. Started' /\ (Started + 1) .. Started' \subseteq 1 .. Started'
    BY <1>5, <1>10
  <2> QED BY <1>6, <1>10, <2>1
<1>12. Cardinality(running') = Cardinality(running) - (IF waiting # <<>> THEN 0 ELSE 1)
  <2>1. CASE waiting = <<>>
    BY <1>1, <1>7, <2>1
  <2>2. CASE waiting # <<>>
    <3>1. Started' = Started + 1
      BY <1>10, <2>2
    <3>2. (Started + 1) .. (Started + 1) = {Started + 1} /\ Started + 1 \notin 1 .. Started
      BY <1>5
    <3>3. running' = (running \ {n}) \cup {Started + 1}
      BY <1>10, <3>1, <3>2
    <3>4. Started + 1 \notin running \ {n}
      BY <1>6, <3>2
    <3>5. Cardinality(running') = Cardinality(running \ {n}) + 1
      BY <1>7, <3>3, <3>4, FS_AddElement
    <3> QED BY <1>6, <1>7, <2>2, <3>5
  <2> QED BY <2>1, <2>2
<1>13. Cardinality(running') + size + 1 = Started'
  <2>1. Cardinality(running) + size = Started
    BY <1>2 DEF SlotsInv, size
  <2>2. Started' = Started + (IF waiting # <<>> THEN 1 ELSE 0)
    BY <1>10
  <2>3. size \in Int /\ Started \in Int /\ Cardinality(running) \in Int
    BY <1>3, <1>5, <1>6
  <2> QED BY <1>12, <2>1, <2>2, <2>3
<1>14. \A k \in 1 .. size + 1 : outcomes'[k].position \in (1 .. Started') \ running'
  <2> SUFFICES ASSUME NEW k \in 1 .. size + 1
               PROVE  outcomes'[k].position \in (1 .. Started') \ running'
    OBVIOUS
  <2>1. CASE k = size + 1
    BY <1>4, <1>5, <1>6, <1>10, <2>1
  <2>2. CASE k # size + 1
    <3>1. k \in 1 .. size
      BY <1>3, <2>2
    <3>2. outcomes[k].position \in (1 .. Started) \ running
      BY <1>2, <3>1 DEF SlotsInv, size
    <3> QED BY <1>4, <1>5, <1>10, <3>1, <3>2
  <2> QED BY <2>1, <2>2
<1>15. \A j, k \in 1 .. size + 1 : outcomes'[j].position = outcomes'[k].position => j = k
  <2>1. \A k \in 1 .. size : outcomes'[k].position # n
    <3> SUFFICES ASSUME NEW k \in 1 .. size PROVE outcomes'[k].position # n
      OBVIOUS
    <3>1. outcomes[k].position \notin running
      BY <1>2 DEF SlotsInv, size
    <3> QED BY <1>4, <3>1
  <2>2. \A j, k \in 1 .. size : outcomes'[j].position = outcomes'[k].position => j = k
    BY <1>2, <1>4 DEF SlotsInv, size
  <2>3. \A k \in 1 .. size + 1 : k \in 1 .. size \/ k = size + 1
    BY <1>3
  <2> QED BY <1>4, <2>1, <2>2, <2>3
<1>16. SlotsWellUsed'
  <2>1. Concurrency \in Nat
    BY BatchAssumption
  <2>2. /\ Cardinality(running) <= Concurrency
        /\ waiting # <<>> => Cardinality(running) = Concurrency
    BY <1>1, <1>2 DEF SlotsInv, SlotsWellUsed
  <2> QED BY <1>6, <1>10, <1>12, <2>1, <2>2 DEF SlotsWellUsed
<1>17. SlotsInv'
  <2>1. Len(ids') = total /\ Len(outcomes') = size + 1 /\ Len(waiting') = Len(waiting')
    BY <1>1, <1>4 DEF total, left, size
  <2>2. Cardinality(running') + Len(outcomes') = Started'
    <3>1. Cardinality(running') \in Nat
      <4>1. IsFiniteSet(1 .. Started')
        BY <1>10, FS_Interval
      <4> QED BY <1>11, <4>1, FS_Subset, FS_CardinalityType
    <3> QED BY <1>3, <1>13, <2>1, <3>1
  <2> QED BY <1>4, <1>10, <1>11, <1>14, <1>15, <1>16, <2>1, <2>2 DEF SlotsInv
<1> QED BY <1>8, <1>9, <1>17 DEF BatchInv

LEMMA BatchStep == BatchInv /\ BatchNext => BatchInv'
BY AskKeeps, EndKeeps DEF BatchNext, OperationAnswers

\* Every video of an answered batch has one outcome: the places at which operations
\* have ended are a permutation of those in the batch.
LEMMA EveryVideoOnce ==
    ASSUME BatchInv, batchStage = "done"
    PROVE  LET position == [k \in 1 .. Len(ids) |-> outcomes[k].position]
           IN  /\ Len(ids) \in Nat /\ Len(outcomes) = Len(ids)
               /\ DOMAIN outcomes = 1 .. Len(ids) /\ DOMAIN ids = 1 .. Len(ids)
               /\ \A k \in 1 .. Len(ids) : outcomes[k].outcome \in Outcomes
               /\ position \in Bijection(1 .. Len(ids), 1 .. Len(ids))
<1> DEFINE size == Len(ids)
           position == [k \in 1 .. size |-> outcomes[k].position]
<1>1. /\ ids \in Seq(Videos) /\ waiting \in Seq(Nat)
      /\ outcomes \in Seq([position : Nat, outcome : Outcomes]) /\ Len(outcomes) = Len(ids)
  BY DEF BatchInv, VideosInv, SlotsInv, AnswerInv
<1>2. size \in Nat /\ Len(waiting) \in Nat /\ DOMAIN outcomes = 1 .. size /\ DOMAIN ids = 1 .. size
  BY <1>1
<1>3. Started \in Int /\ Started <= size
  BY <1>2 DEF Started
<1>4. /\ \A k \in 1 .. size : outcomes[k].position \in (1 .. Started) \ running
      /\ \A j, k \in 1 .. size : outcomes[j].position = outcomes[k].position => j = k
  BY <1>1 DEF BatchInv, SlotsInv
<1>5. 1 .. Started \subseteq 1 .. size
  BY <1>2, <1>3
<1>6. \A k \in 1 .. size : outcomes[k].outcome \in Outcomes
  <2>1. \A k \in 1 .. size : outcomes[k] \in [position : Nat, outcome : Outcomes]
    BY <1>1, ElementOfSeq
  <2> QED BY <2>1
<1> HIDE DEF size
<1>7. position \in Injection(1 .. size, 1 .. size)
  <2>1. position \in [1 .. size -> 1 .. size]
    BY <1>4, <1>5
  <2>2. \A j, k \in 1 .. size : position[j] = position[k] => j = k
    BY <1>4
  <2> QED BY <2>1, <2>2 DEF Injection, IsInjective
<1>8. position \in Surjection(1 .. size, 1 .. size)
  <2>1. IsFiniteSet(1 .. size)
    BY <1>2, FS_Interval
  <2> QED BY <1>7, <2>1, FS_Injection
<1>9. position \in Bijection(1 .. size, 1 .. size)
  BY <1>7, <1>8 DEF Bijection
<1> QED BY <1>1, <1>2, <1>6, <1>9 DEF size

\* A batch is answered with the outcome of every video, and totals of all of them.
LEMMA BatchIsAnswered == BatchInv => BatchAnswersEveryVideo
<1> SUFFICES ASSUME BatchInv, batchStage = "done" PROVE BatchAnswersEveryVideo
  BY DEF BatchAnswersEveryVideo
<1> DEFINE size == Len(ids)
           position == [k \in 1 .. size |-> outcomes[k].position]
           count(k) == outcomes[k].outcome.comments
<1>1. /\ size \in Nat /\ Len(outcomes) = size
      /\ DOMAIN outcomes = 1 .. size /\ DOMAIN ids = 1 .. size
      /\ \A k \in 1 .. size : outcomes[k].outcome \in Outcomes
      /\ position \in Bijection(1 .. size, 1 .. size)
  BY EveryVideoOnce
<1>2. /\ position \in [1 .. size -> 1 .. size]
      /\ \A j, k \in 1 .. size : position[j] = position[k] => j = k
      /\ \A n \in 1 .. size : \E k \in 1 .. size : position[k] = n
  BY <1>1 DEF Bijection, Injection, Surjection, IsInjective
<1>3. ToSet(ids) = ToSet(input) \ {Blank} /\ IsInjective(ids) /\ items = InOrder(outcomes)
  BY DEF BatchInv, VideosInv, AnswerInv
<1> HIDE DEF size
<1>4. \A k \in 1 .. size : position[k] = outcomes[k].position
  OBVIOUS
<1> HIDE DEF position
<1>5. DOMAIN items = 1 .. size
  BY <1>1, <1>3 DEF InOrder
<1>6. \A k \in 1 .. size :
         items[position[k]] = Item(ids[position[k]], outcomes[k].outcome)
  <2> SUFFICES ASSUME NEW k \in 1 .. size
               PROVE  items[position[k]] = Item(ids[position[k]], outcomes[k].outcome)
    OBVIOUS
  <2> DEFINE n == position[k]
  <2>1. n \in 1 .. size
    BY <1>2
  <2>2. \A j \in 1 .. size : outcomes[j].position = n <=> j = k
    BY <1>2, <1>4
  <2> HIDE DEF n
  <2>3. (CHOOSE j \in DOMAIN outcomes : outcomes[j].position = n) = k
    BY <1>1, <2>2
  <2>4. items[n] = Item(ids[n],
                        outcomes[CHOOSE j \in DOMAIN outcomes : outcomes[j].position = n].outcome)
    BY <1>1, <1>3, <2>1 DEF InOrder
  <2> QED BY <2>3, <2>4 DEF n
<1>7. /\ \A k \in 1 .. size : items[position[k]].available <=> count(k) > 0
      /\ \A k \in 1 .. size : items[position[k]].comments = count(k)
  <2> SUFFICES ASSUME NEW k \in 1 .. size
               PROVE  /\ items[position[k]].available <=> count(k) > 0
                      /\ items[position[k]].comments = count(k)
    OBVIOUS
  <2>1. items[position[k]] = Item(ids[position[k]], outcomes[k].outcome)
    BY <1>6
  <2>2. /\ items[position[k]].available = (count(k) > 0)
        /\ items[position[k]].comments = count(k)
    BY <2>1 DEF Item
  <2> QED BY <2>2
<1>8. \A k \in 1 .. size : count(k) \in 0 .. MaxComments
  BY <1>1, BatchAssumption DEF Outcomes
<1> HIDE DEF count
<1>9. IsFiniteSet(1 .. size) /\ IsFiniteSet(1 .. MaxComments)
  BY <1>1, FS_Interval, BatchAssumption
<1>10. Succeeded = Cardinality({k \in 1 .. size : count(k) > 0})
  <2> DEFINE S == {k \in 1 .. size : count(k) > 0}
             T == {n \in 1 .. size : items[n].available}
             f == [k \in S |-> position[k]]
  <2>1. IsFiniteSet(S)
    <3>1. S \in SUBSET (1 .. size)
      OBVIOUS
    <3> QED BY <1>9, <3>1, FS_Subset
  <2>2. f \in Bijection(S, T)
    <3>1. f \in [S -> T]
      BY <1>2, <1>7
    <3>2. \A j, k \in S : f[j] = f[k] => j = k
      BY <1>2
    <3>3. \A n \in T : \E k \in S : f[k] = n
      BY <1>2, <1>7
    <3> QED BY <3>1, <3>2, <3>3 DEF Bijection, Injection, Surjection, IsInjective
  <2> HIDE DEF S, T, f
  <2>3. Cardinality(T) = Cardinality(S)
    BY <2>1, <2>2, FS_Bijection DEF ExistsBijection
  <2> QED BY <1>5, <2>3 DEF Succeeded, S, T
<1>11. TotalComments = Cardinality(UNION {{k} \X (1 .. count(k)) : k \in 1 .. size})
  <2> DEFINE S == UNION {{k} \X (1 .. count(k)) : k \in 1 .. size}
             T == UNION {{n} \X (1 .. items[n].comments) : n \in 1 .. size}
             f == [p \in S |-> <<position[p[1]], p[2]>>]
  <2>1. \A p : p \in S <=> \E k \in 1 .. size : \E i \in 1 .. count(k) : p = <<k, i>>
    OBVIOUS
  <2>2. \A p : p \in T <=> \E n \in 1 .. size : \E i \in 1 .. items[n].comments : p = <<n, i>>
    OBVIOUS
  <2>3. IsFiniteSet(S)
    <3>1. S \in SUBSET ((1 .. size) \X (1 .. MaxComments))
      <4>1. \A k \in 1 .. size : 1 .. count(k) \subseteq 1 .. MaxComments
        BY <1>8, BatchAssumption
      <4> QED BY <2>1, <4>1
    <3>2. IsFiniteSet((1 .. size) \X (1 .. MaxComments))
      BY <1>9, FS_Product
    <3> QED BY <3>1, <3>2, FS_Subset
  <2>4. f \in Bijection(S, T)
    <3> HIDE DEF S, T
    <3>1. \A p \in S : f[p] = <<position[p[1]], p[2]>>
      OBVIOUS
    <3>2. ASSUME NEW p \in S
          PROVE  /\ f[p] \in T /\ p[1] \in 1 .. size /\ p = <<p[1], p[2]>>
      <4> PICK k \in 1 .. size : \E i \in 1 .. count(k) : p = <<k, i>>
        BY <2>1
      <4>1. PICK i \in 1 .. count(k) : p = <<k, i>>
        OBVIOUS
      <4>2. f[p] = <<position[k], i>> /\ p[1] = k /\ p[2] = i
        BY <3>1, <4>1
      <4>3. position[k] \in 1 .. size /\ i \in 1 .. items[position[k]].comments
        BY <1>2, <1>7
      <4> HIDE DEF f
      <4> QED BY <2>2, <4>1, <4>2, <4>3
    <3>3. \A p, q \in S : f[p] = f[q] => p = q
      <4> SUFFICES ASSUME NEW p \in S, NEW q \in S, f[p] = f[q] PROVE p = q
        OBVIOUS
      <4>1. position[p[1]] = position[q[1]] /\ p[2] = q[2]
        BY <3>1
      <4>2. p[1] = q[1]
        BY <1>2, <3>2, <4>1
      <4> QED BY <3>2, <4>1, <4>2
    <3>4. ASSUME NEW t \in T PROVE \E p \in S : f[p] = t
      <4> PICK n \in 1 .. size : \E i \in 1 .. items[n].comments : t = <<n, i>>
        BY <2>2
      <4>1. PICK i \in 1 .. items[n].comments : t = <<n, i>>
        OBVIOUS
      <4>2. PICK k \in 1 .. size : position[k] = n
        BY <1>2
      <4>3. <<k, i>> \in S
        BY <1>7, <2>1, <4>1, <4>2
      <4>4. f[<<k, i>>] = t
        BY <3>1, <4>1, <4>2, <4>3
      <4> QED BY <4>3, <4>4
    <3>5. f \in [S -> T]
      BY <3>2
    <3> HIDE DEF f
    <3> QED BY <3>3, <3>4, <3>5 DEF Bijection, Injection, Surjection, IsInjective
  <2> HIDE DEF S, T, f
  <2>5. Cardinality(T) = Cardinality(S)
    BY <2>3, <2>4, FS_Bijection DEF ExistsBijection
  <2> QED BY <1>5, <2>5 DEF TotalComments, S, T
<1>12. \A k \in DOMAIN outcomes :
          LET item == items[outcomes[k].position]
          IN  item = Item(ids[outcomes[k].position], outcomes[k].outcome)
  BY <1>1, <1>4, <1>6
<1>13. Requested = Len(outcomes)
  BY <1>1 DEF Requested, size
<1> QED BY <1>1, <1>3, <1>10, <1>11, <1>12, <1>13 DEF BatchAnswersEveryVideo, count

-----------------------------------------------------------------------------
(* Counters and types.                                                         *)

\* The counters of a feed are below their limits as long as it is not done.
ShortsCounters ==
    /\ ShortsTypeOK
    /\ stage # "reel" => step = 0
    /\ stage \in {"idle", "search", "reel"} => empties < EmptyLimit /\ Len(yields) < Restarts

LEMMA StepLimitPositive ==
    ASSUME found \in Seq(Shorts)
    PROVE  StepLimit \in Nat \ {0}
BY ShortsAssumption DEF StepLimit

LEMMA ShortsCountersStart == ShortsInit => ShortsCounters
<1> SUFFICES ASSUME ShortsInit PROVE ShortsCounters
  OBVIOUS
<1>1. found = <<>> /\ batch = <<>> /\ yields = <<>> /\ Len(<<>>) = 0 /\ <<>> \in Seq(Shorts)
      /\ <<>> \in Seq(Nat)
  BY DEF ShortsInit
<1>2. StepLimit \in Nat \ {0}
  BY <1>1, StepLimitPositive
<1> QED BY <1>1, <1>2, ShortsAssumption DEF ShortsInit, ShortsCounters, ShortsTypeOK

LEMMA ShortsCountersBatchEnds ==
    ASSUME ShortsCounters, stage = "reel", NEW new \in Seq(Shorts), BatchEnds(new)
    PROVE  ShortsCounters'
<1>1. /\ found' = found \o new /\ yields' = Append(yields, Len(new))
      /\ empties' = IF new = <<>> THEN empties + 1 ELSE 0
      /\ stage' \in {"done", "reel"}
      /\ stage' = "reel" => /\ Len(yields') # Restarts
                            /\ ~(new = <<>> /\ empties' >= EmptyLimit)
      /\ batch' = <<>> /\ step' = 0 /\ pos' = Nothing /\ stale' = 0 /\ dup' = 0 /\ query' = query
  BY DEF BatchEnds, FreshBatch, EmptiesAfterYield
<1>2. /\ found \in Seq(Shorts) /\ yields \in Seq(Nat) /\ Len(yields) \in Nat
      /\ empties \in 0 .. EmptyLimit /\ empties < EmptyLimit /\ Len(yields) < Restarts
      /\ query \in 1 .. Queries
  BY DEF ShortsCounters, ShortsTypeOK
<1>3. /\ found' \in Seq(Shorts) /\ Len(new) \in Nat
      /\ yields' \in Seq(Nat) /\ Len(yields') = Len(yields) + 1
  BY <1>1, <1>2
<1>4. StepLimit' \in Nat \ {0}
  <2>1. (Len(found)') \in Nat
    BY <1>3
  <2> QED BY <2>1, ShortsAssumption DEF StepLimit
<1>5. /\ Restarts \in Nat /\ EmptyLimit \in Nat \ {0} /\ StaleLimit \in Nat \ {0}
      /\ DupLimit \in Nat \ {0}
  BY ShortsAssumption
<1>6. empties' \in 0 .. EmptyLimit /\ (stage' = "reel" => empties' < EmptyLimit)
  BY <1>1, <1>2, <1>5
<1>7. Len(yields') <= Restarts /\ (stage' = "reel" => Len(yields') < Restarts)
  BY <1>1, <1>2, <1>3, <1>5
<1>8. batch' \in Seq(Shorts)
  BY <1>1
<1>9. step' \in 0 .. StepLimit' - 1 /\ stale' \in 0 .. StaleLimit - 1 /\ dup' \in 0 .. DupLimit - 1
  <2>1. \A n \in Nat \ {0} : 0 \in 0 .. n - 1
    OBVIOUS
  <2> QED BY <1>1, <1>4, <1>5, <2>1
<1> QED BY <1>1, <1>2, <1>3, <1>6, <1>7, <1>8, <1>9 DEF ShortsCounters, ShortsTypeOK

LEMMA ShortsCountersStep ==
    ASSUME ShortsInv, ShortsCounters, ShortsNext
    PROVE  ShortsCounters'
<1>1. CASE StartShorts
  BY <1>1 DEF StartShorts, reelVars, ShortsCounters, ShortsTypeOK, StepLimit
<1>2. ASSUME NEW listed \in SearchResults, SearchReturns(listed) PROVE ShortsCounters'
  <2>1. listed \in Seq(Shorts)
    <3>1. PICK n \in 0 .. PerAnswer : listed \in [1 .. n -> Shorts]
      BY DEF SearchResults
    <3>2. n \in Nat
      BY <3>1, ShortsAssumption
    <3> QED BY <3>1, <3>2
  <2>2. Fresh(listed) \in Seq(Shorts)
    BY <2>1, FreshFacts DEF ShortsInv, FoundInv
  <2>3. /\ stage = "search" /\ found' = found \o Fresh(listed)
        /\ stage' \in {"search", "reel", "done"}
        /\ query' = query \/ (query < Queries /\ query' = query + 1)
        /\ UNCHANGED <<batch, step, pos, stale, dup, empties, yields>>
    BY <1>2 DEF SearchReturns, reelVars
  <2>4. /\ found \in Seq(Shorts) /\ step = 0 /\ query \in 1 .. Queries
        /\ empties < EmptyLimit /\ Len(yields) < Restarts
    BY <2>3 DEF ShortsCounters, ShortsTypeOK
  <2>5. found' \in Seq(Shorts)
    BY <2>2, <2>3, <2>4
  <2>6. StepLimit' \in Nat \ {0}
    <3>1. (Len(found)') \in Nat
      BY <2>5
    <3> QED BY <3>1, ShortsAssumption DEF StepLimit
  <2>7. query' \in 1 .. Queries
    BY <2>3, <2>4, ShortsAssumption
  <2>8. step' \in 0 .. StepLimit' - 1 /\ step' = 0
    <3>1. step' = 0
      BY <2>3, <2>4
    <3>2. \A n \in Nat \ {0} : 0 \in 0 .. n - 1
      OBVIOUS
    <3> QED BY <2>6, <3>1, <3>2
  <2> QED BY <2>3, <2>4, <2>5, <2>7, <2>8 DEF ShortsCounters, ShortsTypeOK
<1>3. ASSUME NEW httpError \in BOOLEAN, StepFails(httpError) PROVE ShortsCounters'
  <2>1. CASE httpError /\ step = 0
    <3>1. stage' = "failed" /\ UNCHANGED <<query, found, batch, step, pos, stale, dup, empties, yields>>
      BY <1>3, <2>1 DEF StepFails, reelVars
    <3> QED BY <2>1, <3>1 DEF ShortsCounters, ShortsTypeOK, StepLimit
  <2>2. CASE ~(httpError /\ step = 0)
    <3>1. stage = "reel" /\ BatchEnds(batch)
      BY <1>3, <2>2 DEF StepFails
    <3> QED BY <3>1, ShortsCountersBatchEnds DEF ShortsCounters, ShortsTypeOK
  <2> QED BY <2>1, <2>2
<1>4. ASSUME NEW short \in Shorts \cup {Nothing}, NEW next \in Positions \cup {Nothing},
             StepReturns(short, next)
      PROVE  ShortsCounters'
  <2> DEFINE known == short \in Seen
             new == IF short = Nothing \/ known THEN batch ELSE Append(batch, short)
             dups == IF known THEN dup + 1 ELSE IF short = Nothing THEN dup ELSE 0
             stales == IF next # Nothing /\ next = pos THEN stale + 1 ELSE 0
  <2>1. batch \in Seq(Shorts) /\ stage = "reel"
    BY <1>4 DEF StepReturns, ShortsCounters, ShortsTypeOK
  <2>2. new \in Seq(Shorts)
    BY <2>1
  <2>3. CASE BatchEnds(new)
    BY <2>1, <2>2, <2>3, ShortsCountersBatchEnds
  <2>4. CASE ~BatchEnds(new)
    <3>1. /\ batch' = new /\ dup' = dups /\ stale' = stales /\ pos' = next /\ step' = step + 1
          /\ UNCHANGED <<stage, query, found, empties, yields>>
          /\ ~(known /\ dups >= DupLimit) /\ ~(stales >= StaleLimit) /\ ~(step + 1 = StepLimit)
      BY <1>4, <2>4 DEF StepReturns, Counted, TooStale
    <3>2. /\ found \in Seq(Shorts) /\ step \in 0 .. StepLimit - 1 /\ stale \in 0 .. StaleLimit - 1
          /\ dup \in 0 .. DupLimit - 1
      BY DEF ShortsCounters, ShortsTypeOK
    <3>3. DupLimit \in Nat \ {0} /\ StaleLimit \in Nat \ {0} /\ StepLimit \in Nat \ {0}
      BY <3>2, ShortsAssumption, StepLimitPositive
    <3> HIDE DEF known
    <3>4. dup' \in 0 .. DupLimit - 1
      BY <3>1, <3>2, <3>3
    <3>5. stale' \in 0 .. StaleLimit - 1
      BY <3>1, <3>2, <3>3
    <3>6. StepLimit' = StepLimit
      BY <3>1 DEF StepLimit
    <3>7. step' \in 0 .. StepLimit' - 1
      BY <3>1, <3>2, <3>3, <3>6
    <3>8. batch' \in Seq(Shorts) /\ pos' \in Positions \cup {Nothing}
      BY <2>2, <3>1
    <3> HIDE DEF new, dups, stales
    <3> QED BY <2>1, <3>1, <3>4, <3>5, <3>7, <3>8 DEF ShortsCounters, ShortsTypeOK
  <2> QED BY <2>3, <2>4
<1> QED BY <1>1, <1>2, <1>3, <1>4 DEF ShortsNext, ShortsAnswer

LEMMA ShortsCountersUntouched == ShortsCounters /\ UNCHANGED shortsVars => ShortsCounters'
BY DEF ShortsCounters, ShortsTypeOK, StepLimit, shortsVars, reelVars

\* The pages that have come, at most one for every attempt.
LEMMA TabTypesStep ==
    ASSUME TabInv, TabTypeOK, TabNext
    PROVE  TabTypeOK'
<1>1. ASSUME NEW kind \in {"videos", "playlists"}, AskTab(kind) PROVE TabTypeOK'
  BY <1>1 DEF AskTab, TabTypeOK
<1>2. ASSUME NEW page \in Pages \cup {NoTabs}, PageArrives(page) PROVE TabTypeOK'
  <2>1. /\ tabStage # "done" /\ tabAnswer' = page /\ UNCHANGED <<tabKind, tabErrors>>
        /\ IF Follows(page)
           THEN tabStage' = "follow" /\ UNCHANGED <<tabTries, tabResult>>
           ELSE TabReturned(page)
    BY <1>2 DEF PageArrives
  <2>2. CASE Follows(page)
    BY <2>1, <2>2 DEF TabTypeOK
  <2>3. CASE ~Follows(page)
    <3>1. tabTries \in Seq(Pages \cup {NoTabs}) /\ Len(tabTries) < TabAttempts
      BY <2>1 DEF TabInv
    <3>2. /\ tabTries' = Append(tabTries, page) /\ tabStage' \in {"params", "done"}
          /\ tabResult' \in {"none", "tab", "home", "changed"}
      BY <2>1, <2>3 DEF TabReturned, VideosFrom
    <3>3. tabTries' \in Seq(Pages \cup {NoTabs}) /\ Len(tabTries') = Len(tabTries) + 1
      BY <3>1, <3>2, AppendProperties
    <3>4. Len(tabTries') <= TabAttempts
      <4>1. Len(tabTries) \in Nat /\ TabAttempts \in Nat
        BY <3>1, TabAssumption DEF TabAssumption
      <4> QED BY <3>1, <3>3, <4>1
    <3> QED BY <2>1, <3>2, <3>3, <3>4 DEF TabTypeOK
  <2> QED BY <2>2, <2>3
<1>3. ASSUME NEW status \in {"400", "404", "other"}, TabRefused(status) PROVE TabTypeOK'
  <2>1. /\ tabErrors' = tabErrors \cup {<<tabStage, status>>}
        /\ tabStage \in {"params", "plain", "follow"} /\ tabStage' \in {"plain", "done"}
        /\ tabResult' \in {tabResult, "notfound", "failed"}
        /\ UNCHANGED <<tabKind, tabAnswer, tabTries>>
    BY <1>3 DEF TabRefused
  <2> QED BY <2>1 DEF TabTypeOK
<1> QED BY <1>1, <1>2, <1>3 DEF TabNext, TabAnswers

\* Two sources at most are heard.
LEMMA SeekTypesStep ==
    ASSUME SeekInv, SeekTypeOK, SeekNext
    PROVE  SeekTypeOK'
<1>1. CASE AskDetail
  BY <1>1 DEF AskDetail, SeekTypeOK
<1>2. CASE SeekFails
  BY <1>2 DEF SeekFails, SeekTypeOK
<1>3. ASSUME NEW status \in Statuses, WatchPage(status) PROVE SeekTypeOK'
  <2>1. /\ player' = status /\ said' = <<status>> /\ seekStage' \in {"done", "api"}
        /\ seekResult' \in {seekResult, "ok", "notfound", "network"}
    BY <1>3 DEF WatchPage, OutcomeOf, Statuses
  <2>2. <<status>> \in Seq(Statuses) /\ Len(<<status>>) = 1
    OBVIOUS
  <2> QED BY <2>1, <2>2 DEF SeekTypeOK
<1>4. ASSUME NEW status \in Statuses, PlayerApi(status) PROVE SeekTypeOK'
  <2>1. /\ said' = Append(said, status) /\ player' \in Statuses /\ seekStage' = "done"
        /\ seekResult' \in {"ok", "notfound", "network"} /\ seekStage = "api"
    BY <1>4 DEF PlayerApi, ApiOrPage, OutcomeOf, Statuses, SeekTypeOK
  <2>2. said = <<player>> /\ said \in Seq(Statuses)
    BY <2>1 DEF SeekInv, SeekTypeOK
  <2>3. said' \in Seq(Statuses) /\ Len(said') = Len(said) + 1
    BY <2>1, <2>2, AppendProperties
  <2>4. Len(said) = 1
    BY <2>2
  <2> QED BY <2>1, <2>3, <2>4 DEF SeekTypeOK
<1> QED BY <1>1, <1>2, <1>3, <1>4 DEF SeekNext, SeekAnswers

\* A batch is as long as it may be, and of a list that was sent.
BatchCounters == input \in Inputs \cup {<<>>} /\ Len(ids) <= MaxBatchIds

LEMMA BatchCountersStep ==
    ASSUME BatchCounters, BatchNext
    PROVE  BatchCounters'
<1>1. ASSUME NEW raw \in Inputs, AskBatch(raw) PROVE BatchCounters'
  <2>1. input' = raw /\ (ids' = ids \/ (Acceptable(Entries(raw)) /\ ids' = Entries(raw)))
    BY <1>1 DEF AskBatch
  <2>2. Acceptable(Entries(raw)) => Len(Entries(raw)) <= MaxBatchIds
    BY BatchAssumption DEF Acceptable
  <2> QED BY <2>1, <2>2 DEF BatchCounters
<1>2. CASE OperationAnswers
  BY <1>2 DEF OperationAnswers, OperationEnds, BatchCounters
<1> QED BY <1>1, <1>2 DEF BatchNext

LEMMA BatchTypes == BatchInv /\ BatchCounters => BatchTypeOK
<1> SUFFICES ASSUME BatchInv, BatchCounters PROVE BatchTypeOK
  OBVIOUS
<1>1. /\ batchStage \in {"idle", "refused", "runs", "done"} /\ ids \in Seq(Videos)
      /\ input \in Inputs \cup {<<>>} /\ Len(ids) <= MaxBatchIds
  BY DEF BatchInv, VideosInv, BatchCounters
<1>2. /\ waiting \in Seq(Nat) /\ Len(waiting) <= Len(ids)
      /\ \A k \in 1 .. Len(waiting) : waiting[k] = Started + k
      /\ running \subseteq 1 .. Started
      /\ outcomes \in Seq([position : Nat, outcome : Outcomes])
      /\ \A k \in 1 .. Len(outcomes) : outcomes[k].position \in 1 .. Started
  BY DEF BatchInv, SlotsInv
<1>3. /\ DOMAIN ids = 1 .. Len(ids) /\ Len(ids) \in Nat /\ Len(waiting) \in Nat
      /\ Len(outcomes) \in Nat
  BY <1>1, <1>2
<1>4. Started = Len(ids) - Len(waiting)
  BY DEF Started
<1>5. 1 .. Started \subseteq DOMAIN ids /\ Started \in Nat
  BY <1>2, <1>3, <1>4
<1>6. waiting \in Seq(DOMAIN ids)
  <2>1. \A k \in 1 .. Len(waiting) : waiting[k] \in DOMAIN ids
    BY <1>2, <1>3, <1>4
  <2>2. waiting \in [1 .. Len(waiting) -> DOMAIN ids]
    BY <1>2, <2>1
  <2> QED BY <1>3, <2>2
<1>7. outcomes \in Seq([position : DOMAIN ids, outcome : Outcomes])
  <2> DEFINE T == [position : DOMAIN ids, outcome : Outcomes]
  <2>1. \A k \in 1 .. Len(outcomes) : outcomes[k] \in [position : DOMAIN ids, outcome : Outcomes]
    <3> SUFFICES ASSUME NEW k \in 1 .. Len(outcomes)
                 PROVE  outcomes[k] \in [position : DOMAIN ids, outcome : Outcomes]
      OBVIOUS
    <3>1. outcomes[k] \in [position : Nat, outcome : Outcomes]
      BY <1>2, ElementOfSeq
    <3>2. outcomes[k].position \in DOMAIN ids
      BY <1>2, <1>5
    <3> QED BY <3>1, <3>2
  <2> HIDE DEF T
  <2>2. outcomes \in [1 .. Len(outcomes) -> T]
    BY <1>2, <2>1 DEF T
  <2>3. outcomes \in Seq(T)
    BY <1>3, <2>2
  <2> QED BY <2>3 DEF T
<1> QED BY <1>1, <1>2, <1>5, <1>6, <1>7 DEF BatchTypeOK

\* A task that runs has pages left, and whatever is given to a comment are replies to
\* comments of the page.
TalkCounters ==
    /\ tasks \in Seq(TaskType) /\ Len(threads) <= MaxThreads
    /\ replies \in [DOMAIN threads -> Seq(DOMAIN threads)]
    /\ \A n \in DOMAIN tasks :
          /\ tasks[n].pages <= MaxReplyPages
          /\ tasks[n].state = "runs" => tasks[n].pages < MaxReplyPages

LEMMA TalkTypes == TalkInv /\ TalkCounters => TalkTypeOK
<1> SUFFICES ASSUME TalkInv, TalkCounters PROVE TalkTypeOK
  OBVIOUS
<1>1. /\ talkStage \in {"idle", "token", "page", "replies", "done", "failed"}
      /\ threads \in Seq(BOOLEAN) /\ replies \in [DOMAIN threads -> Seq(DOMAIN threads)]
      /\ DOMAIN tasks = DOMAIN Threaded /\ DOMAIN served = DOMAIN Threaded
      /\ tasks \in Seq(TaskType)
  BY DEF TalkInv, TalkCounters
<1>2. Len(tasks) = Len(Threaded)
  <2>1. DOMAIN tasks = 1 .. Len(tasks) /\ Len(tasks) \in Nat
    BY <1>1, LenProperties
  <2>2. DOMAIN Threaded = 1 .. Len(Threaded) /\ Len(Threaded) \in Nat
    BY <1>1, ThreadedFacts
  <2>3. \A a, b \in Nat : 1 .. a = 1 .. b => a = b
    <3> SUFFICES ASSUME NEW a \in Nat, NEW b \in Nat, 1 .. a = 1 .. b PROVE a = b
      OBVIOUS
    <3>1. a > 0 => a \in 1 .. b
      OBVIOUS
    <3>2. b > 0 => b \in 1 .. a
      OBVIOUS
    <3> QED BY <3>1, <3>2
  <2> QED BY <1>1, <2>1, <2>2, <2>3
<1>3. \A n \in DOMAIN tasks :
         tasks[n].state \in {"runs", "ended", "failed"} /\ tasks[n].pages \in 0 .. MaxReplyPages
  <2> SUFFICES ASSUME NEW n \in DOMAIN tasks
               PROVE  /\ tasks[n].state \in {"runs", "ended", "failed"}
                      /\ tasks[n].pages \in 0 .. MaxReplyPages
    OBVIOUS
  <2>1. tasks[n] \in TaskType /\ tasks[n].pages <= MaxReplyPages
    BY DEF TalkInv, TalkCounters
  <2> QED BY <2>1, CommentsAssumption DEF TaskType
<1> QED BY <1>1, <1>2, <1>3 DEF TalkTypeOK

LEMMA TaskStepsCount ==
    ASSUME TalkInv, TalkInv', TalkCounters, NEW n \in DOMAIN tasks, NEW task \in TaskType,
           TaskSteps(n, task), task.pages <= MaxReplyPages,
           task.state = "runs" => task.pages < MaxReplyPages
    PROVE  TalkCounters'
<1>1. threads' = threads /\ tasks' = [tasks EXCEPT ![n] = task] /\ tasks \in Seq(TaskType)
  BY DEF TaskSteps, TalkCounters
<1>2. DOMAIN tasks' = DOMAIN tasks /\ tasks' \in Seq(TaskType)
  BY <1>1, ExceptSeq
<1>3. \A m \in DOMAIN tasks' :
         /\ tasks'[m].pages <= MaxReplyPages
         /\ tasks'[m].state = "runs" => tasks'[m].pages < MaxReplyPages
  <2> SUFFICES ASSUME NEW m \in DOMAIN tasks
               PROVE  /\ tasks'[m].pages <= MaxReplyPages
                      /\ tasks'[m].state = "runs" => tasks'[m].pages < MaxReplyPages
    BY <1>2
  <2>1. CASE m = n
    BY <1>1, <2>1
  <2>2. CASE m # n
    <3>1. tasks'[m] = tasks[m]
      BY <1>1, <2>2
    <3> QED BY <3>1 DEF TalkCounters
  <2> QED BY <2>1, <2>2
<1>4. replies' \in [DOMAIN threads -> Seq(DOMAIN threads)]
  <2>1. replies \in [DOMAIN threads -> Seq(DOMAIN threads)]
    BY DEF TalkCounters
  <2>2. CASE AllEnded(tasks')
    <3>1. replies' = [c \in DOMAIN replies |->
                        IF \E i \in DOMAIN tasks : Pending[i] = c
                        THEN ResultOf(tasks'[CHOOSE i \in DOMAIN tasks : Pending[i] = c])
                        ELSE replies[c]]
      BY <2>2 DEF TaskSteps
    <3>2. ASSUME NEW m \in DOMAIN tasks
          PROVE  ResultOf(tasks'[m]) \in Seq(DOMAIN threads)
      <4>1. /\ tasks'[m] \in TaskType
            /\ \A k \in DOMAIN tasks'[m].got : tasks'[m].got[k] = Threaded'[m]
        BY <1>2 DEF TalkInv
      <4>2. Threaded'[m] \in DOMAIN threads
        <5>1. Threaded' = Threaded /\ threads \in Seq(BOOLEAN) /\ m \in DOMAIN Threaded
          BY <1>1 DEF Threaded, TalkInv
        <5> QED BY <5>1, ThreadedFacts
      <4> DEFINE got == tasks'[m].got
                 T == DOMAIN threads
      <4>3. got \in Seq(Nat)
        BY <4>1 DEF TaskType
      <4>4. \A k \in DOMAIN got : got[k] \in T
        BY <4>1, <4>2
      <4> HIDE DEF got, T
      <4>5. got \in Seq(T)
        BY <4>3, <4>4
      <4>6. <<>> \in Seq(T)
        OBVIOUS
      <4> QED BY <4>5, <4>6 DEF ResultOf, got, T
    <3>3. \A c \in DOMAIN replies :
             (\E i \in DOMAIN tasks : Pending[i] = c)
                => (CHOOSE i \in DOMAIN tasks : Pending[i] = c) \in DOMAIN tasks
      OBVIOUS
    <3> QED BY <2>1, <3>1, <3>2, <3>3
  <2>3. CASE ~AllEnded(tasks')
    BY <2>1, <2>3 DEF TaskSteps
  <2> QED BY <2>2, <2>3
<1> QED BY <1>1, <1>2, <1>3, <1>4 DEF TalkCounters

LEMMA TalkCountersStep ==
    ASSUME TalkInv, TalkInv', TalkCounters, TalkNext
    PROVE  TalkCounters'
<1>1. CASE AskComments \/ CommentsRefused \/ \E given \in BOOLEAN : TokenArrives(given)
  BY <1>1 DEF AskComments, CommentsRefused, TokenArrives, TalkCounters
<1>2. ASSUME NEW page \in UpTo(MaxThreads, BOOLEAN), CommentsArrive(page)
      PROVE  TalkCounters'
  <2> DEFINE fetched == Cardinality({n \in DOMAIN page : page[n]})
             D == DOMAIN page
  <2>1. /\ threads' = page /\ replies' = [n \in D |-> <<>>]
        /\ tasks' = [n \in 1 .. fetched |-> Task("runs", 0, <<>>)]
    BY <1>2 DEF CommentsArrive
  <2>2. page \in Seq(BOOLEAN) /\ Len(page) <= MaxThreads
    <3>1. PICK k \in 0 .. MaxThreads : page \in [1 .. k -> BOOLEAN]
      BY DEF UpTo
    <3>2. k \in Nat /\ k <= MaxThreads
      BY <3>1, CommentsAssumption
    <3> QED BY <3>1, <3>2
  <2>3. fetched \in Nat
    <3>1. DOMAIN page = 1 .. Len(page) /\ Len(page) \in Nat
      BY <2>2
    <3>2. IsFiniteSet(1 .. Len(page))
      BY <3>1, FS_Interval
    <3>3. {n \in DOMAIN page : page[n]} \in SUBSET (1 .. Len(page))
      BY <3>1
    <3> QED BY <3>2, <3>3, FS_Subset, FS_CardinalityType
  <2> HIDE DEF fetched
  <2>4. <<>> \in Seq(Nat) /\ <<>> \in Seq(D)
    OBVIOUS
  <2>5. Task("runs", 0, <<>>) \in TaskType /\ Task("runs", 0, <<>>).pages = 0
    BY <2>4 DEF Task, TaskType
  <2>6. tasks' \in Seq(TaskType)
    BY <2>1, <2>3, <2>5
  <2>7. \A n \in DOMAIN tasks' : tasks'[n].pages = 0
    BY <2>1, <2>5
  <2>8. replies' \in [D -> Seq(D)]
    BY <2>1, <2>4
  <2>9. MaxReplyPages \in Nat \ {0}
    BY CommentsAssumption
  <2> QED BY <2>1, <2>2, <2>6, <2>7, <2>8, <2>9 DEF TalkCounters
<1>3. ASSUME NEW n \in DOMAIN tasks, NEW count \in 0 .. MaxReplies, NEW more \in BOOLEAN,
             RepliesArrive(n, count, more)
      PROVE  TalkCounters'
  <2> DEFINE pages == tasks[n].pages + 1
             state == IF more /\ PagesLeft(pages) THEN "runs" ELSE "ended"
             task == Task(state, pages, tasks[n].got \o [k \in 1 .. count |-> Threaded[n]])
  <2>1. TaskSteps(n, task) /\ tasks[n].state = "runs" /\ task = tasks'[n]
    BY <1>3 DEF RepliesArrive, TaskSteps
  <2>2. task.pages = pages /\ task.state = state
    BY DEF Task
  <2>3. tasks[n].pages \in Nat /\ tasks[n].pages < MaxReplyPages /\ MaxReplyPages \in Nat
    BY <2>1, CommentsAssumption DEF TalkInv, TalkCounters, TaskType
  <2>4. DOMAIN tasks' = DOMAIN tasks
    BY <2>1 DEF TaskSteps
  <2>5. task \in TaskType
    BY <2>1, <2>4 DEF TalkInv
  <2>6. task.pages <= MaxReplyPages /\ (task.state = "runs" => task.pages < MaxReplyPages)
    BY <2>2, <2>3 DEF PagesLeft
  <2> HIDE DEF task
  <2> QED BY <2>1, <2>5, <2>6, TaskStepsCount
<1>4. ASSUME NEW n \in DOMAIN tasks, RepliesFail(n) PROVE TalkCounters'
  <2> DEFINE task == [tasks[n] EXCEPT !.state = "failed"]
  <2>1. TaskSteps(n, task)
    BY <1>4 DEF RepliesFail
  <2>2. tasks[n] \in TaskType /\ tasks[n].pages <= MaxReplyPages
    BY DEF TalkInv, TalkCounters
  <2>3. task \in TaskType /\ task.pages = tasks[n].pages /\ task.state = "failed"
    BY <2>2 DEF TaskType
  <2> HIDE DEF task
  <2> QED BY <2>1, <2>2, <2>3, TaskStepsCount
<1> QED BY <1>1, <1>2, <1>3, <1>4 DEF TalkNext, TalkAnswers

-----------------------------------------------------------------------------
(* How many answers a call can still get.  What YouTube answers is its own      *)
(* affair; that there is an end to it is not.                                   *)

\* A batch of steps is the longest when nothing has been found.
MostSteps == IF Limit + SpareSteps > MinSteps THEN Limit + SpareSteps ELSE MinSteps

\* The steps of the batches to come, and the searches before them.
ShortsLeft ==
    IF stage \in {"search", "reel"}
    THEN (Restarts - Len(yields)) * MostSteps - step
         + (IF stage = "search" THEN Queries - query + 1 ELSE 0)
    ELSE 0

\* Three requests for an attempt: with params, then without or for the link.
TabLeft ==
    CASE tabStage = "params" -> 3 * (TabAttempts - Len(tabTries))
      [] tabStage = "plain"  -> 3 * (TabAttempts - Len(tabTries)) - 1
      [] tabStage = "follow" -> 3 * (TabAttempts - Len(tabTries)) - 2
      [] OTHER -> 0

\* The pages of replies that tasks may still ask for.
PagesToCome ==
    {page \in (DOMAIN tasks) \X (1 .. MaxReplyPages) :
        tasks[page[1]].state = "runs" /\ tasks[page[1]].pages < page[2]}

TalkLeft ==
    CASE talkStage = "token" -> MaxThreads * MaxReplyPages + 2
      [] talkStage = "page"  -> MaxThreads * MaxReplyPages + 1
      [] talkStage = "replies" -> Cardinality(PagesToCome)
      [] OTHER -> 0

SeekLeft ==
    CASE seekStage = "watch" -> 2
      [] seekStage = "api"   -> 1
      [] OTHER -> 0

BatchLeft == IF batchStage = "runs" THEN Len(ids) - Len(outcomes) ELSE 0

AnswersLeft == ShortsLeft + TabLeft + TalkLeft + SeekLeft + BatchLeft

\* What begins a call.
CallStarts ==
    \/ StartShorts
    \/ \E kind \in {"videos", "playlists"} : AskTab(kind)
    \/ AskComments
    \/ AskDetail
    \/ \E raw \in Inputs : AskBatch(raw)

LEMMA OneBatchLess ==
    ASSUME NEW r \in Nat \ {0}, NEW m \in Nat
    PROVE  r * m = (r - 1) * m + m /\ (r - 1) * m \in Nat /\ r * m \in Nat
<1>1. r - 1 \in Nat
  OBVIOUS
<1> QED BY <1>1

\* What bounds the answers of a feed.
LEMMA ShortsNumbers ==
    ASSUME ShortsCounters
    PROVE  /\ StepLimit <= MostSteps /\ MostSteps \in Nat \ {0} /\ step \in Nat
           /\ step < MostSteps /\ Len(yields) \in Nat /\ Restarts \in Nat
           /\ query \in Nat /\ query <= Queries /\ Queries \in Nat
           /\ stage \in {"search", "reel"} => Restarts - Len(yields) \in Nat \ {0}
<1>1. /\ found \in Seq(Shorts) /\ step \in 0 .. StepLimit - 1 /\ yields \in Seq(Nat)
      /\ query \in 1 .. Queries
      /\ stage \in {"search", "reel"} => Len(yields) < Restarts
  BY DEF ShortsCounters, ShortsTypeOK
<1>2. /\ Restarts \in Nat /\ Queries \in Nat /\ Limit \in Nat /\ SpareSteps \in Nat
      /\ MinSteps \in Nat \ {0}
  BY ShortsAssumption
<1>3. Len(found) \in Nat /\ Len(yields) \in Nat
  BY <1>1
<1>4. StepLimit <= MostSteps /\ MostSteps \in Nat \ {0} /\ StepLimit \in Nat \ {0}
  BY <1>2, <1>3 DEF StepLimit, MostSteps
<1>5. step \in Nat /\ step < MostSteps
  BY <1>1, <1>4
<1> QED BY <1>1, <1>2, <1>3, <1>4, <1>5

LEMMA ShortsLeftType == ShortsCounters => ShortsLeft \in Nat
<1> SUFFICES ASSUME ShortsCounters PROVE ShortsLeft \in Nat
  OBVIOUS
<1> DEFINE r == Restarts - Len(yields)
<1>1. /\ MostSteps \in Nat \ {0} /\ step \in Nat /\ step < MostSteps
      /\ query \in Nat /\ query <= Queries /\ Queries \in Nat
      /\ stage \in {"search", "reel"} => r \in Nat \ {0}
  BY ShortsNumbers
<1>2. CASE stage \in {"search", "reel"}
  <2>1. r * MostSteps = (r - 1) * MostSteps + MostSteps /\ (r - 1) * MostSteps \in Nat
    BY <1>1, <1>2, OneBatchLess
  <2>2. r * MostSteps - step \in Nat
    <3> DEFINE a == (r - 1) * MostSteps
               b == r * MostSteps
    <3>1. b = a + MostSteps /\ a \in Nat
      BY <2>1
    <3> HIDE DEF a, b, r
    <3>2. b - step \in Nat
      BY <1>1, <3>1
    <3> QED BY <3>2 DEF b
  <2> DEFINE c == r * MostSteps - step
  <2>3. ShortsLeft = c + (IF stage = "search" THEN Queries - query + 1 ELSE 0)
    BY <1>2 DEF ShortsLeft
  <2>4. c \in Nat
    BY <2>2
  <2> HIDE DEF c
  <2> QED BY <1>1, <2>3, <2>4
<1>3. CASE stage \notin {"search", "reel"}
  BY <1>3 DEF ShortsLeft
<1> QED BY <1>2, <1>3

\* A batch that ends is one of those that were left.
LEMMA BatchEndsCounts ==
    ASSUME ShortsCounters, stage = "reel", NEW new \in Seq(Shorts), BatchEnds(new)
    PROVE  ShortsLeft' < ShortsLeft
<1> DEFINE r == Restarts - Len(yields)
           a == (r - 1) * MostSteps
           b == r * MostSteps
<1>1. /\ stage' \in {"done", "reel"} /\ step' = 0 /\ yields' = Append(yields, Len(new))
  BY DEF BatchEnds, FreshBatch
<1>2. Len(yields') = Len(yields) + 1
  <2>1. yields \in Seq(Nat) /\ Len(new) \in Nat
    BY DEF ShortsCounters, ShortsTypeOK
  <2> QED BY <1>1, <2>1, AppendProperties
<1>3. /\ MostSteps \in Nat \ {0} /\ step \in Nat /\ step < MostSteps
      /\ Len(yields) \in Nat /\ Restarts \in Nat /\ r \in Nat \ {0}
  BY ShortsNumbers
<1>4. b = a + MostSteps /\ a \in Nat
  BY <1>3, OneBatchLess
<1>5. ShortsLeft = b - step
  BY <1>3, <1>4 DEF ShortsLeft
<1>6. ShortsLeft' = IF stage' = "reel" THEN a ELSE 0
  <2>1. CASE stage' = "reel"
    <3>1. Restarts - Len(yields') = r - 1
      BY <1>2, <1>3
    <3>2. ShortsLeft' = (Restarts - Len(yields')) * MostSteps - 0 + 0
      BY <1>1, <2>1 DEF ShortsLeft, MostSteps
    <3> QED BY <1>4, <2>1, <3>1, <3>2
  <2>2. CASE stage' = "done"
    BY <2>2 DEF ShortsLeft
  <2> QED BY <1>1, <2>1, <2>2
<1> HIDE DEF a, b, r
<1> QED BY <1>3, <1>4, <1>5, <1>6

LEMMA ShortsAnswerCounts ==
    ASSUME ShortsInv, ShortsCounters, ShortsCounters', ShortsAnswer
    PROVE  ShortsLeft' < ShortsLeft
<1> DEFINE b == (Restarts - Len(yields)) * MostSteps
<1>1. /\ MostSteps \in Nat \ {0} /\ step \in Nat /\ step < MostSteps
      /\ query \in Nat /\ query <= Queries /\ Queries \in Nat
      /\ stage \in {"search", "reel"} => b \in Nat /\ b > step
  <2>1. /\ MostSteps \in Nat \ {0} /\ step \in Nat /\ step < MostSteps
        /\ query \in Nat /\ query <= Queries /\ Queries \in Nat
        /\ stage \in {"search", "reel"} => Restarts - Len(yields) \in Nat \ {0}
    BY ShortsNumbers
  <2>2. ASSUME stage \in {"search", "reel"} PROVE b \in Nat /\ b > step
    <3> DEFINE a == (Restarts - Len(yields) - 1) * MostSteps
    <3>1. b = a + MostSteps /\ a \in Nat /\ b \in Nat
      BY <2>1, <2>2, OneBatchLess
    <3> HIDE DEF a, b
    <3> QED BY <2>1, <3>1
  <2> QED BY <2>1, <2>2
<1>2. ShortsLeft = IF stage = "search" THEN b - step + (Queries - query + 1)
                   ELSE IF stage = "reel" THEN b - step + 0 ELSE 0
  BY DEF ShortsLeft
<1>3. ASSUME NEW listed \in SearchResults, SearchReturns(listed) PROVE ShortsLeft' < ShortsLeft
  <2>1. /\ stage = "search" /\ UNCHANGED <<step, yields>>
        /\ \/ stage' = "search" /\ query' = query + 1
           \/ stage' \in {"reel", "done"} /\ query' = query
    BY <1>3 DEF SearchReturns, reelVars
  <2>2. ShortsLeft' = IF stage' = "search" THEN b - step + (Queries - query' + 1)
                      ELSE IF stage' = "reel" THEN b - step + 0 ELSE 0
    BY <2>1 DEF ShortsLeft, MostSteps
  <2> HIDE DEF b
  <2> QED BY <1>1, <1>2, <2>1, <2>2
<1>4. ASSUME NEW httpError \in BOOLEAN, StepFails(httpError) PROVE ShortsLeft' < ShortsLeft
  <2>1. CASE httpError /\ step = 0
    <3>1. stage = "reel" /\ stage' = "failed"
      BY <1>4, <2>1 DEF StepFails
    <3>2. ShortsLeft' = 0
      BY <3>1 DEF ShortsLeft
    <3> HIDE DEF b
    <3> QED BY <1>1, <1>2, <3>1, <3>2
  <2>2. CASE ~(httpError /\ step = 0)
    <3>1. stage = "reel" /\ BatchEnds(batch) /\ batch \in Seq(Shorts)
      BY <1>4, <2>2 DEF StepFails, ShortsCounters, ShortsTypeOK
    <3> QED BY <3>1, BatchEndsCounts
  <2> QED BY <2>1, <2>2
<1>5. ASSUME NEW short \in Shorts \cup {Nothing}, NEW next \in Positions \cup {Nothing},
             StepReturns(short, next)
      PROVE  ShortsLeft' < ShortsLeft
  <2> DEFINE known == short \in Seen
             new == IF short = Nothing \/ known THEN batch ELSE Append(batch, short)
  <2>1. stage = "reel" /\ batch \in Seq(Shorts)
    BY <1>5 DEF StepReturns, ShortsCounters, ShortsTypeOK
  <2>2. new \in Seq(Shorts)
    BY <2>1
  <2>3. CASE BatchEnds(new)
    BY <2>1, <2>2, <2>3, BatchEndsCounts
  <2>4. CASE ~BatchEnds(new)
    <3>1. step' = step + 1 /\ UNCHANGED <<stage, yields>>
      BY <1>5, <2>4 DEF StepReturns, Counted
    <3>2. ShortsLeft' = b - step' + 0
      BY <2>1, <3>1 DEF ShortsLeft, MostSteps
    <3> HIDE DEF b
    <3> QED BY <1>1, <1>2, <2>1, <3>1, <3>2
  <2> QED BY <2>3, <2>4
<1> QED BY <1>3, <1>4, <1>5 DEF ShortsAnswer

LEMMA TabLeftType == TabInv => TabLeft \in Nat
<1> SUFFICES ASSUME TabInv PROVE TabLeft \in Nat
  OBVIOUS
<1>1. /\ TabAttempts \in Nat /\ Len(tabTries) \in Nat
      /\ tabStage # "done" => Len(tabTries) < TabAttempts
  BY TabAssumption DEF TabInv, TabAssumption
<1> QED BY <1>1 DEF TabLeft

\* Another attempt, or one of the two requests that an attempt may need besides.
LEMMA TabAnswerCounts ==
    ASSUME TabInv, TabInv', TabAnswers
    PROVE  TabLeft' < TabLeft
<1>1. /\ TabAttempts \in Nat /\ tabTries \in Seq(Pages \cup {NoTabs}) /\ Len(tabTries) \in Nat
      /\ tabStage # "done" => Len(tabTries) < TabAttempts
  BY TabAssumption DEF TabInv, TabAssumption
<1>2. ASSUME NEW page \in Pages \cup {NoTabs}, PageArrives(page) PROVE TabLeft' < TabLeft
  <2>1. tabStage \in {"params", "plain", "follow"}
    BY <1>2 DEF PageArrives
  <2>2. CASE Follows(page)
    <3>1. tabStage \in {"params", "plain"} /\ tabStage' = "follow" /\ tabTries' = tabTries
      BY <1>2, <2>1, <2>2 DEF PageArrives, Follows
    <3> QED BY <1>1, <3>1 DEF TabLeft
  <2>3. CASE ~Follows(page)
    <3>1. tabTries' = Append(tabTries, page) /\ tabStage' \in {"params", "done"}
      BY <1>2, <2>3 DEF PageArrives, TabReturned
    <3>2. Len(tabTries') = Len(tabTries) + 1
      BY <1>1, <3>1, AppendProperties
    <3> QED BY <1>1, <2>1, <3>1, <3>2 DEF TabLeft
  <2> QED BY <2>2, <2>3
<1>3. ASSUME NEW status \in {"400", "404", "other"}, TabRefused(status) PROVE TabLeft' < TabLeft
  <2>1. /\ tabStage \in {"params", "plain", "follow"} /\ tabTries' = tabTries
        /\ tabStage' = "done" \/ (tabStage = "params" /\ tabStage' = "plain")
    BY <1>3 DEF TabRefused, Forgiven
  <2> QED BY <1>1, <2>1 DEF TabLeft
<1> QED BY <1>2, <1>3 DEF TabAnswers

LEMMA SeekAnswerCounts ==
    ASSUME SeekAnswers
    PROVE  SeekLeft' < SeekLeft
BY DEF SeekAnswers, WatchPage, PlayerApi, SeekFails, SeekLeft

LEMMA BatchLeftType == BatchInv => BatchLeft \in Nat
<1> SUFFICES ASSUME BatchInv PROVE BatchLeft \in Nat
  OBVIOUS
<1>1. ids \in Seq(Videos) /\ outcomes \in Seq([position : Nat, outcome : Outcomes])
      /\ (batchStage = "runs" => Len(outcomes) < Len(ids))
  BY DEF BatchInv, VideosInv, SlotsInv, AnswerInv
<1>2. Len(ids) \in Nat /\ Len(outcomes) \in Nat
  BY <1>1
<1> QED BY <1>1, <1>2 DEF BatchLeft

LEMMA BatchAnswerCounts ==
    ASSUME BatchInv, BatchInv', OperationAnswers
    PROVE  BatchLeft' < BatchLeft
<1>1. PICK n \in running, outcome \in Outcomes : OperationEnds(n, outcome)
  BY DEF OperationAnswers
<1>2. /\ batchStage = "runs" /\ ids' = ids /\ batchStage' \in {"runs", "done"}
      /\ outcomes' = Append(outcomes, [position |-> n, outcome |-> outcome])
  BY <1>1 DEF OperationEnds
<1>3. Len(outcomes') = Len(outcomes) + 1
  BY <1>2, OneMoreOutcome DEF BatchInv
<1>4. ids \in Seq(Videos) /\ outcomes \in Seq([position : Nat, outcome : Outcomes])
      /\ Len(outcomes) < Len(ids)
  BY <1>2 DEF BatchInv, VideosInv, SlotsInv, AnswerInv
<1>5. Len(ids) \in Nat /\ Len(outcomes) \in Nat
  BY <1>4
<1> QED BY <1>2, <1>3, <1>4, <1>5 DEF BatchLeft

\* A page of comments has at most MaxThreads threads, each some pages of replies.
LEMMA PagesToComeBound ==
    TalkInv /\ TalkCounters =>
        /\ IsFiniteSet(PagesToCome) /\ Cardinality(PagesToCome) \in Nat
        /\ Cardinality(PagesToCome) <= MaxThreads * MaxReplyPages
<1> SUFFICES ASSUME TalkInv, TalkCounters
             PROVE  /\ IsFiniteSet(PagesToCome) /\ Cardinality(PagesToCome) \in Nat
                    /\ Cardinality(PagesToCome) <= MaxThreads * MaxReplyPages
  OBVIOUS
<1>1. /\ threads \in Seq(BOOLEAN) /\ Len(threads) <= MaxThreads /\ MaxThreads \in Nat
      /\ MaxReplyPages \in Nat /\ DOMAIN tasks = 1 .. Cardinality(Tokens)
  BY CommentsAssumption, ThreadedFacts DEF TalkInv, TalkCounters
<1>2. Cardinality(Tokens) \in Nat /\ Cardinality(Tokens) <= Len(threads)
  <2>1. DOMAIN threads = 1 .. Len(threads) /\ Len(threads) \in Nat
    BY <1>1
  <2> DEFINE size == Len(threads)
  <2>2. Tokens \in SUBSET (1 .. size)
    BY <2>1 DEF Tokens
  <2>3. size \in Nat
    BY <2>1
  <2> HIDE DEF size
  <2>4. IsFiniteSet(1 .. size) /\ Cardinality(1 .. size) = size
    BY <2>3, FS_Interval
  <2>5. Cardinality(Tokens) <= size
    BY <2>2, <2>4, FS_Subset
  <2>6. Cardinality(Tokens) \in Nat
    BY <1>1, ThreadedFacts
  <2> QED BY <2>5, <2>6 DEF size
<1> DEFINE S == 1 .. MaxThreads
           T == 1 .. MaxReplyPages
<1>3. IsFiniteSet(S) /\ Cardinality(S) = MaxThreads
  BY <1>1, FS_Interval
<1>4. IsFiniteSet(T) /\ Cardinality(T) = MaxReplyPages
  BY <1>1, FS_Interval
<1>5. DOMAIN tasks \subseteq S
  <2>1. Len(threads) \in Nat
    BY <1>1
  <2> QED BY <1>1, <1>2, <2>1
<1>6. PagesToCome \in SUBSET (S \X T)
  BY <1>5 DEF PagesToCome
<1> HIDE DEF S, T
<1>7. IsFiniteSet(S \X T) /\ Cardinality(S \X T) = MaxThreads * MaxReplyPages
  BY <1>3, <1>4, FS_Product
<1> QED BY <1>6, <1>7, FS_Subset, FS_CardinalityType

LEMMA TalkLeftType == TalkInv /\ TalkCounters => TalkLeft \in Nat
<1> SUFFICES ASSUME TalkInv, TalkCounters PROVE TalkLeft \in Nat
  OBVIOUS
<1>1. Cardinality(PagesToCome) \in Nat
  BY PagesToComeBound
<1>2. MaxThreads * MaxReplyPages \in Nat
  BY CommentsAssumption
<1> QED BY <1>1, <1>2 DEF TalkLeft

\* The page a task was waiting for is no longer to come.
LEMMA TaskStepCounts ==
    ASSUME TalkInv, TalkCounters, NEW n \in DOMAIN tasks, NEW task, talkStage = "replies",
           tasks[n].state = "runs", TaskSteps(n, task),
           task.state = "runs" => task.pages = tasks[n].pages + 1
    PROVE  TalkLeft' < TalkLeft
<1> DEFINE now == <<n, tasks[n].pages + 1>>
           old == PagesToCome
           new == PagesToCome'
<1>1. IsFiniteSet(old) /\ Cardinality(old) \in Nat
  BY PagesToComeBound
<1>2. now \in old
  <2>1. /\ tasks[n].pages \in Nat /\ tasks[n].pages < MaxReplyPages /\ MaxReplyPages \in Nat
    BY CommentsAssumption DEF TalkInv, TalkCounters, TaskType
  <2>2. tasks[n].pages + 1 \in 1 .. MaxReplyPages /\ tasks[n].pages < tasks[n].pages + 1
    BY <2>1
  <2> QED BY <2>2 DEF PagesToCome
<1>3. new \in SUBSET (old \ {now})
  <2>1. /\ tasks' = [tasks EXCEPT ![n] = task] /\ DOMAIN tasks' = DOMAIN tasks
        /\ tasks'[n] = task
    BY DEF TaskSteps
  <2>2. tasks[n].pages \in Nat
    BY DEF TalkInv, TaskType
  <2>3. ASSUME NEW m \in DOMAIN tasks, NEW k \in 1 .. MaxReplyPages, <<m, k>> \in new
        PROVE  <<m, k>> \in old \ {now}
    <3>1. tasks'[m].state = "runs" /\ tasks'[m].pages < k
      BY <2>3 DEF PagesToCome
    <3>2. CASE m = n
      <4>1. tasks[n].pages + 1 < k
        BY <2>1, <3>1, <3>2
      <4>2. tasks[n].pages < k /\ k # tasks[n].pages + 1
        BY <2>2, <4>1, CommentsAssumption
      <4> QED BY <3>2, <4>2 DEF PagesToCome
    <3>3. CASE m # n
      <4>1. tasks'[m] = tasks[m]
        BY <2>1, <3>3
      <4> QED BY <3>1, <3>3, <4>1 DEF PagesToCome
    <3> QED BY <3>2, <3>3
  <2>4. new \subseteq (DOMAIN tasks) \X (1 .. MaxReplyPages)
    BY <2>1 DEF PagesToCome
  <2> HIDE DEF new, old, now
  <2> QED BY <2>3, <2>4
<1> HIDE DEF now, old, new
<1>4. IsFiniteSet(old \ {now}) /\ Cardinality(old \ {now}) = Cardinality(old) - 1
  BY <1>1, <1>2, FS_RemoveElement
<1>5. /\ Cardinality(new) <= Cardinality(old) - 1 /\ Cardinality(new) \in Nat
  BY <1>3, <1>4, FS_Subset, FS_CardinalityType
<1>6. talkStage' \in {"replies", "done"}
  BY DEF TaskSteps
<1>7. TalkLeft = Cardinality(old) /\ TalkLeft' \in {Cardinality(new), 0}
  BY <1>6 DEF TalkLeft, old, new
<1> QED BY <1>1, <1>5, <1>7

LEMMA TalkAnswerCounts ==
    ASSUME TalkInv, TalkInv', TalkCounters, TalkCounters', TalkAnswers
    PROVE  TalkLeft' < TalkLeft
<1> DEFINE most == MaxThreads * MaxReplyPages
<1>1. most \in Nat /\ TalkLeft = CASE talkStage = "token" -> most + 2
                                   [] talkStage = "page"  -> most + 1
                                   [] talkStage = "replies" -> Cardinality(PagesToCome)
                                   [] OTHER -> 0
  BY CommentsAssumption DEF TalkLeft
<1>2. TalkLeft' = CASE talkStage' = "token" -> most + 2
                    [] talkStage' = "page"  -> most + 1
                    [] talkStage' = "replies" -> Cardinality(PagesToCome')
                    [] OTHER -> 0
  BY DEF TalkLeft
<1>3. Cardinality(PagesToCome') \in Nat /\ Cardinality(PagesToCome') <= most
  <2>1. (/\ Cardinality(PagesToCome) \in Nat
         /\ Cardinality(PagesToCome) <= MaxThreads * MaxReplyPages)'
    BY PagesToComeBound, PTL
  <2> QED BY <2>1
<1> HIDE DEF most
<1>4. ASSUME NEW given \in BOOLEAN, TokenArrives(given) PROVE TalkLeft' < TalkLeft
  <2>1. talkStage = "token" /\ talkStage' \in {"page", "done"}
    BY <1>4 DEF TokenArrives
  <2> QED BY <1>1, <1>2, <2>1
<1>5. ASSUME NEW page \in UpTo(MaxThreads, BOOLEAN), CommentsArrive(page)
      PROVE  TalkLeft' < TalkLeft
  <2>1. talkStage = "page" /\ talkStage' \in {"replies", "done"}
    BY <1>5 DEF CommentsArrive
  <2> QED BY <1>1, <1>2, <1>3, <2>1
<1>6. CASE CommentsRefused
  <2>1. talkStage \in {"token", "page"} /\ talkStage' = "failed"
    BY <1>6 DEF CommentsRefused
  <2> QED BY <1>1, <1>2, <2>1
<1>7. ASSUME NEW n \in DOMAIN tasks, NEW count \in 0 .. MaxReplies, NEW more \in BOOLEAN,
             RepliesArrive(n, count, more)
      PROVE  TalkLeft' < TalkLeft
  <2> DEFINE pages == tasks[n].pages + 1
             state == IF more /\ PagesLeft(pages) THEN "runs" ELSE "ended"
             task == Task(state, pages, tasks[n].got \o [k \in 1 .. count |-> Threaded[n]])
  <2>1. talkStage = "replies" /\ tasks[n].state = "runs" /\ TaskSteps(n, task)
    BY <1>7 DEF RepliesArrive
  <2>2. task.pages = tasks[n].pages + 1
    BY DEF Task
  <2> HIDE DEF task
  <2> QED BY <2>1, <2>2, TaskStepCounts
<1>8. ASSUME NEW n \in DOMAIN tasks, RepliesFail(n) PROVE TalkLeft' < TalkLeft
  <2> DEFINE task == [tasks[n] EXCEPT !.state = "failed"]
  <2>1. talkStage = "replies" /\ tasks[n].state = "runs" /\ TaskSteps(n, task)
    BY <1>8 DEF RepliesFail
  <2>2. task.state = "failed"
    <3>1. tasks[n] \in TaskType
      BY DEF TalkInv
    <3> QED BY <3>1 DEF TaskType
  <2> HIDE DEF task
  <2> QED BY <2>1, <2>2, TaskStepCounts
<1> QED BY <1>4, <1>5, <1>6, <1>7, <1>8 DEF TalkAnswers

-----------------------------------------------------------------------------
(* All of them.                                                                *)

CrawlInv == ShortsInv /\ TabInv /\ TalkInv /\ SeekInv /\ BatchInv

LEMMA CrawlStart == CrawlInit => CrawlInv
BY ShortsStart, TabStart, TalkStart, SeekStart, BatchStart DEF CrawlInit, CrawlInv

\* A step of one of them is none of the others.
LEMMA CrawlStep == CrawlInv /\ [CrawlNext]_crawlVars => CrawlInv'
<1> SUFFICES ASSUME CrawlInv, [CrawlNext]_crawlVars PROVE CrawlInv'
  OBVIOUS
<1> USE DEF CrawlInv
<1>1. CASE ShortsNext /\ UNCHANGED <<tabVars, talkVars, seekVars, batchVars>>
  BY <1>1, ShortsStep, TabUntouched, TalkUntouched, SeekUntouched, BatchUntouched
<1>2. CASE TabNext /\ UNCHANGED <<shortsVars, talkVars, seekVars, batchVars>>
  BY <1>2, ShortsUntouched, TabStep, TalkUntouched, SeekUntouched, BatchUntouched
<1>3. CASE TalkNext /\ UNCHANGED <<shortsVars, tabVars, seekVars, batchVars>>
  BY <1>3, ShortsUntouched, TabUntouched, TalkStep, SeekUntouched, BatchUntouched
<1>4. CASE SeekNext /\ UNCHANGED <<shortsVars, tabVars, talkVars, batchVars>>
  BY <1>4, ShortsUntouched, TabUntouched, TalkUntouched, SeekStep, BatchUntouched
<1>5. CASE BatchNext /\ UNCHANGED <<shortsVars, tabVars, talkVars, seekVars>>
  BY <1>5, ShortsUntouched, TabUntouched, TalkUntouched, SeekUntouched, BatchStep
<1>6. CASE UNCHANGED crawlVars
  BY <1>6, ShortsUntouched, TabUntouched, TalkUntouched, SeekUntouched, BatchUntouched
     DEF crawlVars
<1> QED BY <1>1, <1>2, <1>3, <1>4, <1>5, <1>6 DEF CrawlNext

LEMMA CrawlInvariant == CrawlSpec => []CrawlInv
BY CrawlStart, CrawlStep, PTL DEF CrawlSpec

\* What the counters add to the invariant.
CrawlCounters == ShortsCounters /\ TabTypeOK /\ TalkCounters /\ SeekTypeOK /\ BatchCounters

LEMMA CrawlCountersStart == CrawlInit => CrawlCounters
<1> SUFFICES ASSUME CrawlInit PROVE CrawlCounters
  OBVIOUS
<1>1. ShortsCounters
  BY ShortsCountersStart DEF CrawlInit
<1>2. TabTypeOK
  BY TabAssumption DEF CrawlInit, TabInit, TabTypeOK, TabAssumption
<1>3. TalkCounters
  <2>1. threads = <<>> /\ replies = <<>> /\ tasks = <<>> /\ MaxThreads \in Nat
    BY CommentsAssumption DEF CrawlInit, TalkInit
  <2>2. /\ DOMAIN threads = {} /\ DOMAIN tasks = {} /\ Len(threads) = 0
        /\ tasks \in Seq(TaskType)
    BY <2>1
  <2>3. replies \in [{} -> Seq({})]
    BY <2>1
  <2> QED BY <2>1, <2>2, <2>3 DEF TalkCounters
<1>4. SeekTypeOK
  BY DEF CrawlInit, SeekInit, SeekTypeOK, Statuses
<1>5. BatchCounters
  <2>1. input = <<>> /\ Len(ids) = 0
    BY DEF CrawlInit, BatchInit
  <2> QED BY <2>1, BatchAssumption DEF BatchCounters
<1> QED BY <1>1, <1>2, <1>3, <1>4, <1>5 DEF CrawlCounters

LEMMA CountersUntouched ==
    /\ TabTypeOK /\ UNCHANGED tabVars => TabTypeOK'
    /\ TalkCounters /\ UNCHANGED talkVars => TalkCounters'
    /\ SeekTypeOK /\ UNCHANGED seekVars => SeekTypeOK'
    /\ BatchCounters /\ UNCHANGED batchVars => BatchCounters'
BY DEF TabTypeOK, tabVars, TalkCounters, talkVars, SeekTypeOK, seekVars, BatchCounters, batchVars

LEMMA CrawlCountersStep ==
    ASSUME CrawlInv, CrawlInv', CrawlCounters, [CrawlNext]_crawlVars
    PROVE  CrawlCounters'
<1> USE DEF CrawlInv, CrawlCounters
<1>1. CASE ShortsNext /\ UNCHANGED <<tabVars, talkVars, seekVars, batchVars>>
  BY <1>1, ShortsCountersStep, CountersUntouched
<1>2. CASE TabNext /\ UNCHANGED <<shortsVars, talkVars, seekVars, batchVars>>
  BY <1>2, ShortsCountersUntouched, TabTypesStep, CountersUntouched
<1>3. CASE TalkNext /\ UNCHANGED <<shortsVars, tabVars, seekVars, batchVars>>
  BY <1>3, ShortsCountersUntouched, TalkCountersStep, CountersUntouched
<1>4. CASE SeekNext /\ UNCHANGED <<shortsVars, tabVars, talkVars, batchVars>>
  BY <1>4, ShortsCountersUntouched, SeekTypesStep, CountersUntouched
<1>5. CASE BatchNext /\ UNCHANGED <<shortsVars, tabVars, talkVars, seekVars>>
  BY <1>5, ShortsCountersUntouched, BatchCountersStep, CountersUntouched
<1>6. CASE UNCHANGED crawlVars
  BY <1>6, ShortsCountersUntouched, CountersUntouched DEF crawlVars
<1> QED BY <1>1, <1>2, <1>3, <1>4, <1>5, <1>6 DEF CrawlNext

LEMMA CrawlNumbers == CrawlSpec => [](CrawlInv /\ CrawlCounters)
BY CrawlStart, CrawlStep, CrawlCountersStart, CrawlCountersStep, PTL DEF CrawlSpec

\* A step of one call leaves what the others can still get.
LEMMA LeftUntouched ==
    /\ UNCHANGED shortsVars => ShortsLeft' = ShortsLeft
    /\ UNCHANGED tabVars => TabLeft' = TabLeft
    /\ UNCHANGED talkVars => TalkLeft' = TalkLeft
    /\ UNCHANGED seekVars => SeekLeft' = SeekLeft
    /\ UNCHANGED batchVars => BatchLeft' = BatchLeft
BY DEF shortsVars, reelVars, ShortsLeft, MostSteps, tabVars, TabLeft, talkVars, TalkLeft,
       PagesToCome, seekVars, SeekLeft, batchVars, BatchLeft

LeftInNat ==
    /\ ShortsLeft \in Nat /\ TabLeft \in Nat /\ TalkLeft \in Nat /\ SeekLeft \in Nat
    /\ BatchLeft \in Nat

LEMMA LeftTypes == CrawlInv /\ CrawlCounters => LeftInNat
<1>1. SeekLeft \in Nat
  BY DEF SeekLeft
<1> QED BY <1>1, ShortsLeftType, TabLeftType, TalkLeftType, BatchLeftType
        DEF CrawlInv, CrawlCounters, LeftInNat

LEMMA AnswersCount ==
    ASSUME CrawlInv, CrawlInv', CrawlCounters, CrawlCounters', CrawlNext, ~CallStarts
    PROVE  AnswersLeft' < AnswersLeft
<1>1. /\ ShortsLeft \in Nat /\ TabLeft \in Nat /\ TalkLeft \in Nat /\ SeekLeft \in Nat
      /\ BatchLeft \in Nat
  BY LeftTypes DEF LeftInNat
<1>2. /\ ShortsLeft' \in Nat /\ TabLeft' \in Nat /\ TalkLeft' \in Nat /\ SeekLeft' \in Nat
      /\ BatchLeft' \in Nat
  <2>1. LeftInNat'
    BY LeftTypes, PTL
  <2> QED BY <2>1 DEF LeftInNat
<1>0. SUFFICES /\ ShortsLeft' < ShortsLeft \/ ShortsLeft' = ShortsLeft
               /\ TabLeft' < TabLeft \/ TabLeft' = TabLeft
               /\ TalkLeft' < TalkLeft \/ TalkLeft' = TalkLeft
               /\ SeekLeft' < SeekLeft \/ SeekLeft' = SeekLeft
               /\ BatchLeft' < BatchLeft \/ BatchLeft' = BatchLeft
               /\ \/ ShortsLeft' < ShortsLeft \/ TabLeft' < TabLeft \/ TalkLeft' < TalkLeft
                  \/ SeekLeft' < SeekLeft \/ BatchLeft' < BatchLeft
  <2> DEFINE a == ShortsLeft  v == ShortsLeft'
             b == TabLeft     w == TabLeft'
             c == TalkLeft    x == TalkLeft'
             d == SeekLeft    y == SeekLeft'
             e == BatchLeft   z == BatchLeft'
             all == AnswersLeft   rest == AnswersLeft'
  <2>1. /\ {a, b, c, d, e, v, w, x, y, z} \subseteq Nat
        /\ v < a \/ v = a
        /\ w < b \/ w = b
        /\ x < c \/ x = c
        /\ y < d \/ y = d
        /\ z < e \/ z = e
        /\ v < a \/ w < b \/ x < c \/ y < d \/ z < e
        /\ all = a + b + c + d + e /\ rest = v + w + x + y + z
    BY <1>0, <1>1, <1>2 DEF AnswersLeft
  <2> HIDE DEF a, b, c, d, e, v, w, x, y, z, all, rest
  <2>2. rest < all
    BY <2>1
  <2> QED BY <2>2 DEF rest, all
<1> USE DEF CrawlInv, CrawlCounters
<1>3. CASE ShortsNext /\ UNCHANGED <<tabVars, talkVars, seekVars, batchVars>>
  <2>1. ShortsLeft' < ShortsLeft
    BY <1>3, ShortsAnswerCounts DEF ShortsNext, CallStarts
  <2>2. /\ TabLeft' = TabLeft /\ TalkLeft' = TalkLeft
        /\ SeekLeft' = SeekLeft /\ BatchLeft' = BatchLeft
    BY <1>3, LeftUntouched
  <2> QED BY <2>1, <2>2
<1>4. CASE TabNext /\ UNCHANGED <<shortsVars, talkVars, seekVars, batchVars>>
  <2>1. TabLeft' < TabLeft
    BY <1>4, TabAnswerCounts DEF TabNext, CallStarts
  <2>2. /\ ShortsLeft' = ShortsLeft /\ TalkLeft' = TalkLeft
        /\ SeekLeft' = SeekLeft /\ BatchLeft' = BatchLeft
    BY <1>4, LeftUntouched
  <2> QED BY <2>1, <2>2
<1>5. CASE TalkNext /\ UNCHANGED <<shortsVars, tabVars, seekVars, batchVars>>
  <2>1. TalkLeft' < TalkLeft
    BY <1>5, TalkAnswerCounts DEF TalkNext, CallStarts
  <2>2. /\ ShortsLeft' = ShortsLeft /\ TabLeft' = TabLeft
        /\ SeekLeft' = SeekLeft /\ BatchLeft' = BatchLeft
    BY <1>5, LeftUntouched
  <2> QED BY <2>1, <2>2
<1>6. CASE SeekNext /\ UNCHANGED <<shortsVars, tabVars, talkVars, batchVars>>
  <2>1. SeekLeft' < SeekLeft
    BY <1>6, SeekAnswerCounts DEF SeekNext, CallStarts
  <2>2. /\ ShortsLeft' = ShortsLeft /\ TabLeft' = TabLeft
        /\ TalkLeft' = TalkLeft /\ BatchLeft' = BatchLeft
    BY <1>6, LeftUntouched
  <2> QED BY <2>1, <2>2
<1>7. CASE BatchNext /\ UNCHANGED <<shortsVars, tabVars, talkVars, seekVars>>
  <2>1. BatchLeft' < BatchLeft
    BY <1>7, BatchAnswerCounts DEF BatchNext, CallStarts
  <2>2. /\ ShortsLeft' = ShortsLeft /\ TabLeft' = TabLeft
        /\ TalkLeft' = TalkLeft /\ SeekLeft' = SeekLeft
    BY <1>7, LeftUntouched
  <2> QED BY <2>1, <2>2
<1> QED BY <1>3, <1>4, <1>5, <1>6, <1>7 DEF CrawlNext

\* get_shorts_feed: whatever searches and reels answer, known shorts among it, none is
\* collected twice.
THEOREM ShortsAreDistinct == CrawlSpec => []NoShortTwice
<1>1. CrawlInv => NoShortTwice
  BY DEF CrawlInv, ShortsInv, FoundInv
<1> QED BY <1>1, CrawlInvariant, PTL

\* get_shorts_feed: less than what was asked for is returned only after all batches,
\* or after EmptyLimit of them in a row without a new short.
THEOREM FeedsAreExhaustive == CrawlSpec => []ShortOnlyIfExhausted
<1>1. CrawlInv => ShortOnlyIfExhausted
  BY DEF CrawlInv, ShortsInv, EmptiesInv
<1> QED BY <1>1, CrawlInvariant, PTL

\* fetch_channel_tab, _fetch_playlists_tab: the result is what the last page shows;
\* playlists are missing after all attempts only, and a channel only where YouTube has
\* said so.
THEOREM TabResultsAreEarned == CrawlSpec => []TabResultIsEarned
<1>1. CrawlInv => TabResultIsEarned
  BY DEF CrawlInv, TabInv
<1> QED BY <1>1, CrawlInvariant, PTL

\* get_video_comments: every comment is given the replies to itself, all or none.
THEOREM RepliesFindTheirComments == CrawlSpec => []RepliesOfTheirOwn
<1>1. CrawlInv => RepliesOfTheirOwn
  BY DEF CrawlInv, TalkInv
<1> QED BY <1>1, CrawlInvariant, PTL

\* get_video_comments: tasks for replies end before the call does, and do not fail it.
THEOREM RepliesCostNoComments == CrawlSpec => []CommentsNotLost
<1>1. CrawlInv => CommentsNotLost
  BY DEF CrawlInv, TalkInv
<1> QED BY <1>1, CrawlInvariant, PTL

\* get_video_detail: a video is found or missing on the word of a source, and an API
\* that has nothing to say takes nothing back.
THEOREM VerdictsAreEarned == CrawlSpec => []VerdictIsEarned
<1>1. CrawlInv => VerdictIsEarned
  BY DEF CrawlInv, SeekInv
<1> QED BY <1>1, CrawlInvariant, PTL

\* _batch: an accepted batch is answered with one item for every video, with its own
\* outcome, and with totals that count every outcome once.
THEOREM BatchesAnswerEveryVideo == CrawlSpec => []BatchAnswersEveryVideo
<1>1. CrawlInv => BatchAnswersEveryVideo
  BY BatchIsAnswered DEF CrawlInv
<1> QED BY <1>1, CrawlInvariant, PTL

\* _batch: the semaphore is never exceeded, and none of its slots is lost.
THEOREM BatchesUseTheirSlots == CrawlSpec => []SlotsWellUsed
<1>1. CrawlInv => SlotsWellUsed
  BY DEF CrawlInv, BatchInv, SlotsInv
<1> QED BY <1>1, CrawlInvariant, PTL

\* The counters of the five operations stay below their limits: batches and steps of
\* a feed, attempts at a tab, pages of replies, the videos of a batch.
THEOREM CrawlersTyped == CrawlSpec => []CrawlTypeOK
<1>1. CrawlInv /\ CrawlCounters => CrawlTypeOK
  BY TalkTypes, BatchTypes DEF CrawlInv, CrawlCounters, ShortsCounters, CrawlTypeOK
<1> QED BY <1>1, CrawlNumbers, PTL

\* No call goes on for ever, whatever YouTube answers: how many answers the calls under
\* way can still get is a natural number, and every step that does not begin a call
\* makes it smaller.
THEOREM AnswersRunOut ==
    CrawlSpec => [](AnswersLeft \in Nat) /\ [][CallStarts \/ AnswersLeft' < AnswersLeft]_crawlVars
<1>1. CrawlInv /\ CrawlCounters => AnswersLeft \in Nat
  <2> SUFFICES ASSUME CrawlInv, CrawlCounters PROVE AnswersLeft \in Nat
    OBVIOUS
  <2> QED BY LeftTypes DEF LeftInNat, AnswersLeft
<1>2. CrawlInv /\ CrawlCounters /\ (CrawlInv /\ CrawlCounters)' /\ [CrawlNext]_crawlVars
         => [CallStarts \/ AnswersLeft' < AnswersLeft]_crawlVars
  BY AnswersCount
<1> QED BY <1>1, <1>2, CrawlNumbers, PTL DEF CrawlSpec
=============================================================================
