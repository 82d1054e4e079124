---------------------------- MODULE SequenceFacts ----------------------------
(* Facts about sequences.  Without duplicates: the order in which the entries   *)
(* of a cache go is such a one, of the OrderedDict of app/services/cache.py and *)
(* of the sorted _store of app/crawlers/tiktok/cache.py.  Put together: what a   *)
(* recursion along a sequence computes, and where the elements of joined and    *)
(* flattened sequences stand, as signatures are put together.                   *)
EXTENDS Integers, SequencesExt, FiniteSetTheorems, SequenceTheorems, TLAPS

-----------------------------------------------------------------------------
(* Without duplicates.                                                         *)

Distinct(s) == \A i, j \in DOMAIN s : s[i] = s[j] => i = j

\* Deleting a position closes the gap and keeps everything else in place.
LEMMA RemoveAtElements ==
    ASSUME NEW S, NEW s \in Seq(S), NEW i \in 1 .. Len(s)
    PROVE  /\ RemoveAt(s, i) \in Seq(S)
           /\ Len(RemoveAt(s, i)) = Len(s) - 1
           /\ \A j \in 1 .. Len(s) - 1 :
                 RemoveAt(s, i)[j] = IF j < i THEN s[j] ELSE s[j + 1]
<1> DEFINE l == SubSeq(s, 1, i - 1)
           r == SubSeq(s, i + 1, Len(s))
<1>1. /\ l \in Seq(S) /\ Len(l) = i - 1
      /\ \A j \in 1 .. i - 1 : l[j] = s[j]
  OBVIOUS
<1>2. /\ r \in Seq(S) /\ Len(r) = Len(s) - i
      /\ \A j \in 1 .. Len(s) - i : r[j] = s[i + j]
  OBVIOUS
<1> HIDE DEF l, r
<1>3. /\ l \o r \in Seq(S)
      /\ Len(l \o r) = Len(s) - 1
      /\ \A j \in 1 .. Len(s) - 1 :
            (l \o r)[j] = IF j <= Len(l) THEN l[j] ELSE r[j - Len(l)]
  <2>1. /\ l \o r \in Seq(S)
        /\ Len(l \o r) = Len(l) + Len(r)
        /\ \A j \in 1 .. Len(l) + Len(r) :
              (l \o r)[j] = IF j <= Len(l) THEN l[j] ELSE r[j - Len(l)]
    BY <1>1, <1>2, ConcatProperties
  <2>2. Len(l) + Len(r) = Len(s) - 1
    BY <1>1, <1>2
  <2> QED BY <2>1, <2>2
<1>4. \A j \in 1 .. Len(s) - 1 : (l \o r)[j] = IF j < i THEN s[j] ELSE s[j + 1]
  BY <1>1, <1>2, <1>3
<1> QED BY <1>3, <1>4 DEF l, r, RemoveAt

\* Deleting one of the keys of a sequence without duplicates leaves the others.
LEMMA RemoveAtDistinct ==
    ASSUME NEW S, NEW s \in Seq(S), NEW i \in 1 .. Len(s), Distinct(s)
    PROVE  /\ Distinct(RemoveAt(s, i))
           /\ ToSet(RemoveAt(s, i)) = ToSet(s) \ {s[i]}
<1> DEFINE r == RemoveAt(s, i)
<1>1. /\ r \in Seq(S)
      /\ Len(r) = Len(s) - 1
      /\ \A j \in 1 .. Len(s) - 1 : r[j] = IF j < i THEN s[j] ELSE s[j + 1]
  BY RemoveAtElements
<1> HIDE DEF r
<1>2. DOMAIN r = 1 .. Len(s) - 1 /\ DOMAIN s = 1 .. Len(s)
  BY <1>1
<1>3. Distinct(r)
  <2>1. SUFFICES ASSUME NEW a \in 1 .. Len(s) - 1, NEW b \in 1 .. Len(s) - 1,
                        r[a] = r[b]
                 PROVE  a = b
    BY <1>2 DEF Distinct
  <2> DEFINE at(j) == IF j < i THEN j ELSE j + 1
  <2>2. /\ at(a) \in 1 .. Len(s) /\ at(b) \in 1 .. Len(s)
        /\ r[a] = s[at(a)] /\ r[b] = s[at(b)]
    BY <1>1
  <2>3. at(a) = at(b)
    BY <2>1, <2>2, <1>2 DEF Distinct
  <2> QED BY <2>3
<1>4. ASSUME NEW j \in 1 .. Len(s) - 1
      PROVE  r[j] \in ToSet(s) \ {s[i]}
  <2>1. PICK m \in 1 .. Len(s) : r[j] = s[m] /\ m # i
    BY <1>1
  <2> QED BY <2>1, <1>2 DEF Distinct, ToSet
<1>5. ASSUME NEW e \in ToSet(s) \ {s[i]}
      PROVE  e \in ToSet(r)
  <2>1. PICK m \in 1 .. Len(s) : e = s[m] /\ m # i
    BY <1>2 DEF ToSet
  <2>2. CASE m < i
    <3>1. m \in 1 .. Len(s) - 1 /\ r[m] = e
      BY <1>1, <2>1, <2>2
    <3> QED BY <3>1, <1>2 DEF ToSet
  <2>3. CASE m > i
    <3>1. m - 1 \in 1 .. Len(s) - 1 /\ r[m - 1] = e
      BY <1>1, <2>1, <2>3
    <3> QED BY <3>1, <1>2 DEF ToSet
  <2> QED BY <2>1, <2>2, <2>3
<1>6. ToSet(r) \subseteq ToSet(s) \ {s[i]}
  BY <1>4, <1>2 DEF ToSet
<1> QED BY <1>3, <1>5, <1>6 DEF r

\* Appending a new key keeps a sequence free of duplicates.
LEMMA AppendDistinct ==
    ASSUME NEW S, NEW s \in Seq(S), Distinct(s), NEW e \in S, e \notin ToSet(s)
    PROVE  /\ Append(s, e) \in Seq(S)
           /\ Distinct(Append(s, e))
           /\ ToSet(Append(s, e)) = ToSet(s) \cup {e}
           /\ Len(Append(s, e)) = Len(s) + 1
<1> DEFINE r == Append(s, e)
<1>1. /\ r \in Seq(S) /\ Len(r) = Len(s) + 1
      /\ r[Len(s) + 1] = e
      /\ \A j \in 1 .. Len(s) : r[j] = s[j]
      /\ DOMAIN r = 1 .. Len(s) + 1 /\ DOMAIN s = 1 .. Len(s)
  OBVIOUS
<1> HIDE DEF r
<1>2. \A j \in 1 .. Len(s) : s[j] \in ToSet(s)
  BY <1>1 DEF ToSet
<1>3. Distinct(r)
  BY <1>1, <1>2 DEF Distinct
<1>4. ToSet(r) = ToSet(s) \cup {e}
  BY <1>1 DEF ToSet
<1> QED BY <1>1, <1>3, <1>4 DEF r

\* A sequence without duplicates has as many elements as positions.
LEMMA DistinctCardinality ==
    ASSUME NEW S, NEW s \in Seq(S), Distinct(s)
    PROVE  IsFiniteSet(ToSet(s)) /\ Cardinality(ToSet(s)) = Len(s)
<1>1. DOMAIN s = 1 .. Len(s) /\ Len(s) \in Nat /\ s \in [1 .. Len(s) -> ToSet(s)]
  BY DEF ToSet
<1>2. s \in Bijection(1 .. Len(s), ToSet(s))
  BY <1>1 DEF Bijection, Injection, Surjection, IsInjective, Distinct, ToSet
<1>3. ExistsBijection(1 .. Len(s), ToSet(s))
  BY <1>2 DEF ExistsBijection
<1> QED BY <1>1, <1>3, FS_CountingElements, FS_NatBijection

-----------------------------------------------------------------------------
(* Put together.                                                             *)

\* Natural numbers have a least one.
LEMMA LeastNatural ==
    ASSUME NEW S \in SUBSET Nat, S # {}
    PROVE  \E n \in S : \A m \in S : n <= m
<1> DEFINE less == {p \in Nat \X Nat : p[1] < p[2]}
<1>1. IsWellFoundedOn(less, Nat)
  BY NatLessThanWellFounded, Zenon DEF OpToRel
<1>2. PICK n \in S : \A m \in S : ~ (<<m, n>> \in less)
  <2> HIDE DEF less
  <2> QED BY <1>1, WFMin
<1>3. ASSUME NEW m \in S PROVE n <= m
  <2>1. n \in Nat /\ m \in Nat /\ <<m, n>> \notin less
    BY <1>2
  <2>2. ~ (m < n)
    <3>1. <<m, n>>[1] = m /\ <<m, n>>[2] = n /\ <<m, n>> \in Nat \X Nat
      BY <2>1
    <3> QED BY <2>1, <3>1
  <2> QED BY <2>1, <2>2
<1> QED BY <1>3

\* Induction up to a number, on a set in place of a predicate.
LEMMA CountUp ==
    ASSUME NEW n \in Nat, NEW S, 0 \in S, \A i \in 1 .. n : i - 1 \in S => i \in S
    PROVE  0 .. n \subseteq S /\ n \in S
<1> DEFINE missing == {i \in 0 .. n : i \notin S}
<1>1. SUFFICES ASSUME missing # {} PROVE FALSE
  <2>1. n \in 0 .. n
    OBVIOUS
  <2> QED BY <2>1
<1>2. PICK i \in missing : \A m \in missing : i <= m
  <2>1. missing \in SUBSET Nat
    OBVIOUS
  <2> QED BY <1>1, <2>1, LeastNatural
<1>3. i \in 1 .. n /\ i - 1 \in 0 .. n /\ i \notin S
  OBVIOUS
<1>4. i - 1 \notin missing
  BY <1>2, <1>3
<1> QED BY <1>3, <1>4

\* Where the elements of two sequences stand when they are joined.
LEMMA Joined ==
    ASSUME NEW S, NEW s \in Seq(S), NEW t \in Seq(S)
    PROVE  /\ s \o t \in Seq(S) /\ Len(s \o t) = Len(s) + Len(t)
           /\ \A i \in 1 .. Len(s) : (s \o t)[i] = s[i]
           /\ \A i \in 1 .. Len(t) : (s \o t)[Len(s) + i] = t[i]
<1> DEFINE r == s \o t
<1>1. /\ r \in Seq(S) /\ Len(r) = Len(s) + Len(t)
      /\ \A i \in 1 .. Len(s) + Len(t) : r[i] = IF i <= Len(s) THEN s[i] ELSE t[i - Len(s)]
  BY ConcatProperties
<1>2. Len(s) \in Nat /\ Len(t) \in Nat
  OBVIOUS
<1> HIDE DEF r
<1>3. ASSUME NEW i \in 1 .. Len(s) PROVE r[i] = s[i]
  BY <1>1, <1>2
<1>4. ASSUME NEW i \in 1 .. Len(t) PROVE r[Len(s) + i] = t[i]
  <2>1. Len(s) + i \in 1 .. Len(s) + Len(t) /\ ~ (Len(s) + i <= Len(s))
        /\ (Len(s) + i) - Len(s) = i
    BY <1>2
  <2> QED BY <1>1, <2>1
<1> QED BY <1>1, <1>3, <1>4 DEF r

\* What a recursion of so many steps computes, step by step.
Recursions(T, base, m, step) ==
    {f \in [0 .. m -> T] : f[0] = base /\ \A n \in 1 .. m : f[n] = step[n][f[n - 1]]}

LEMMA RecursionExists ==
    ASSUME NEW T, NEW base \in T, NEW m \in Nat, NEW step \in [1 .. m -> [T -> T]]
    PROVE  Recursions(T, base, m, step) # {}
<1> DEFINE solved == {k \in Nat : Recursions(T, base, k, step) # {}}
<1>1. 0 \in solved
  <2>1. [n \in 0 .. 0 |-> base] \in Recursions(T, base, 0, step)
    BY DEF Recursions
  <2> QED BY <2>1
<1>2. ASSUME NEW k \in 1 .. m, k - 1 \in solved PROVE k \in solved
  <2>1. PICK f : f \in Recursions(T, base, k - 1, step)
    BY <1>2
  <2>2. /\ f \in [0 .. k - 1 -> T] /\ f[0] = base
        /\ \A n \in 1 .. k - 1 : f[n] = step[n][f[n - 1]]
    BY <2>1 DEF Recursions
  <2> DEFINE last == step[k][f[k - 1]]
             g == [n \in 0 .. k |-> IF n < k THEN f[n] ELSE last]
  <2>3. last \in T
    <3>1. f[k - 1] \in T /\ step[k] \in [T -> T]
      BY <2>2
    <3> QED BY <3>1
  <2>4. g \in [0 .. k -> T] /\ g[0] = base
    BY <2>2, <2>3
  <2>5. ASSUME NEW n \in 1 .. k PROVE g[n] = step[n][g[n - 1]]
    <3>1. n - 1 \in 0 .. k - 1 /\ g[n - 1] = f[n - 1]
      OBVIOUS
    <3>2. CASE n < k
      <4>1. n \in 1 .. k - 1 /\ g[n] = f[n]
        BY <3>2
      <4> QED BY <2>2, <3>1, <4>1
    <3>3. CASE n = k
      <4>1. g[n] = last
        BY <3>3
      <4> QED BY <3>1, <3>3, <4>1
    <3> QED BY <3>2, <3>3
  <2> HIDE DEF g
  <2>6. g \in Recursions(T, base, k, step)
    BY <2>4, <2>5 DEF Recursions
  <2> QED BY <2>6
<1> HIDE DEF solved
<1>3. m \in solved
  BY <1>1, <1>2, CountUp
<1> QED BY <1>3 DEF solved

\* What FlattenSeq has put together after each of the sequences.
LEMMA FlattenSteps ==
    ASSUME NEW S, NEW parts \in Seq(Seq(S))
    PROVE  \E f \in [0 .. Len(parts) -> Seq(S)] :
              /\ f[0] = <<>> /\ FlattenSeq(parts) = f[Len(parts)]
              /\ \A n \in 1 .. Len(parts) : f[n] = f[n - 1] \o parts[n]
<1> DEFINE T == Seq(S)
           step == [n \in 1 .. Len(parts) |-> [t \in T |-> t \o parts[n]]]
<1>1. <<>> \in T /\ parts \in Seq(T) /\ Len(parts) \in Nat
  OBVIOUS
<1>2. step \in [1 .. Len(parts) -> [T -> T]]
  OBVIOUS
<1>3. \A n \in 1 .. Len(parts), t \in T : step[n][t] = t \o parts[n]
  OBVIOUS
<1>4. \A t \in T : <<>> \o t = t
  BY ConcatEmptySeq
<1> HIDE DEF step, T
<1>5. PICK f \in [0 .. Len(parts) -> T] :
          f[0] = <<>> /\ \A n \in 1 .. Len(parts) : f[n] = step[n][f[n - 1]]
  <2>1. Recursions(T, <<>>, Len(parts), step) # {}
    BY <1>1, <1>2, RecursionExists
  <2> QED BY <2>1 DEF Recursions
<1>6. ASSUME NEW n \in 1 .. Len(parts) PROVE f[n] = f[n - 1] \o parts[n]
  <2>1. n - 1 \in 0 .. Len(parts)
    BY <1>1
  <2>2. f[n - 1] \in T
    BY <2>1
  <2> QED BY <1>3, <1>5, <2>2
<1>7. 1 \in 1 .. Len(parts) => f[1] = parts[1]
  <2> HAVE 1 \in 1 .. Len(parts)
  <2>1. f[1] = f[0] \o parts[1] /\ parts[1] \in T
    <3>1. f[1] = f[1 - 1] \o parts[1]
      BY <1>6
    <3> QED BY <1>1, <3>1
  <2> QED BY <1>4, <1>5, <2>1
<1>8. CASE Len(parts) = 0
  <2>1. parts = <<>> /\ FlattenSeq(parts) = parts
    BY <1>8 DEF FlattenSeq
  <2> QED BY <1>5, <1>6, <1>8, <2>1 DEF T
<1>9. CASE Len(parts) # 0
  <2> DEFINE Def(g) == [i \in 1 .. Len(parts) |->
                           IF i = 1 THEN parts[i] ELSE g[i - 1] \o parts[i]]
             flatten == CHOOSE g : g = Def(g)
             g == [i \in 1 .. Len(parts) |-> f[i]]
  <2>1. ASSUME NEW i \in 1 .. Len(parts)
        PROVE  g[i] = IF i = 1 THEN parts[i] ELSE g[i - 1] \o parts[i]
    <3>1. i # 1 => i - 1 \in 1 .. Len(parts)
      OBVIOUS
    <3>2. i # 1 => f[i] = f[i - 1] \o parts[i]
      BY <1>6
    <3>3. g[i] = f[i] /\ (i # 1 => g[i - 1] = f[i - 1])
      BY <3>1
    <3> HIDE DEF g
    <3> QED BY <1>7, <3>2, <3>3
  <2>2. g = Def(g)
    BY <2>1
  <2>3. flatten = Def(flatten)
    BY <2>2
  <2> HIDE DEF flatten, g
  <2>4. ASSUME NEW i \in 1 .. Len(parts)
        PROVE  flatten[i] = IF i = 1 THEN parts[i] ELSE flatten[i - 1] \o parts[i]
    BY <2>3
  <2> HIDE DEF Def
  <2> DEFINE same == {i \in Nat : i = 0 \/ flatten[i] = f[i]}
  <2>5. ASSUME NEW i \in 1 .. Len(parts), i - 1 \in same PROVE flatten[i] = f[i]
    <3>1. CASE i = 1
      BY <1>7, <2>4, <3>1
    <3>2. CASE i # 1
      <4>1. f[i] = f[i - 1] \o parts[i]
        BY <1>6
      <4>2. flatten[i] = flatten[i - 1] \o parts[i]
        BY <2>4, <3>2
      <4>3. flatten[i - 1] = f[i - 1]
        BY <2>5, <3>2
      <4> QED BY <4>1, <4>2, <4>3
    <3> QED BY <3>1, <3>2
  <2>6. Len(parts) \in same
    <3>1. 0 \in same
      OBVIOUS
    <3>2. \A i \in 1 .. Len(parts) : i - 1 \in same => i \in same
      BY <2>5
    <3> HIDE DEF same
    <3> QED BY <1>1, <3>1, <3>2, CountUp
  <2>7. flatten[Len(parts)] = f[Len(parts)]
    BY <1>9, <2>6
  <2>8. FlattenSeq(parts) = flatten[Len(parts)]
    BY <1>9 DEF FlattenSeq, flatten, Def
  <2> QED BY <1>5, <1>6, <2>7, <2>8 DEF T
<1> QED BY <1>8, <1>9

\* Blocks of the same length stand in it at multiples of that length.
LEMMA FlattenBlocks ==
    ASSUME NEW S, NEW w \in {3, 4}, NEW parts \in Seq(Seq(S)),
           \A n \in 1 .. Len(parts) : Len(parts[n]) = w
    PROVE  /\ FlattenSeq(parts) \in Seq(S) /\ Len(FlattenSeq(parts)) = w * Len(parts)
           /\ \A n \in 1 .. Len(parts), j \in 1 .. w :
                 FlattenSeq(parts)[w * (n - 1) + j] = parts[n][j]
<1> DEFINE T == Seq(S)
<1>1. PICK f \in [0 .. Len(parts) -> T] :
         /\ f[0] = <<>> /\ FlattenSeq(parts) = f[Len(parts)]
         /\ \A n \in 1 .. Len(parts) : f[n] = f[n - 1] \o parts[n]
  BY FlattenSteps
<1>2. parts \in Seq(T) /\ Len(parts) \in Nat /\ Len(<<>>) = 0
  OBVIOUS
<1>3. \A s, t \in T : /\ Len(s \o t) = Len(s) + Len(t) /\ Len(s) \in Nat
                      /\ \A i \in 1 .. Len(s) + Len(t) :
                            (s \o t)[i] = IF i <= Len(s) THEN s[i] ELSE t[i - Len(s)]
  BY ConcatProperties
<1> HIDE DEF T
<1> DEFINE placed == {k \in Nat : /\ Len(f[k]) = w * k
                                  /\ \A n \in 1 .. k, j \in 1 .. w :
                                        f[k][w * (n - 1) + j] = parts[n][j]}
<1>4. ASSUME NEW k \in 1 .. Len(parts), k - 1 \in placed PROVE k \in placed
  <2>1. k - 1 \in 0 .. Len(parts) /\ k \in Nat
    BY <1>2
  <2>2. f[k - 1] \in T /\ parts[k] \in T /\ Len(parts[k]) = w
    <3>1. f[k - 1] \in T
      BY <2>1
    <3>2. parts[k] \in T
      BY <1>2
    <3> QED BY <3>1, <3>2
  <2>3. f[k] = f[k - 1] \o parts[k]
    BY <1>1
  <2>4. /\ Len(f[k - 1]) = w * (k - 1)
        /\ \A n \in 1 .. k - 1, j \in 1 .. w : f[k - 1][w * (n - 1) + j] = parts[n][j]
    BY <1>4
  <2>5. w * (k - 1) + w = w * k /\ w * (k - 1) \in Nat /\ w \in Nat
    <3>1. CASE w = 3
      BY <2>1, <3>1
    <3>2. CASE w = 4
      BY <2>1, <3>2
    <3> QED BY <3>1, <3>2
  <2>6. /\ Len(f[k]) = w * k
        /\ \A i \in 1 .. w * k :
              f[k][i] = IF i <= w * (k - 1) THEN f[k - 1][i] ELSE parts[k][i - w * (k - 1)]
    <3> DEFINE s == f[k - 1]
               t == parts[k]
    <3>1. /\ Len(s \o t) = Len(s) + Len(t)
          /\ \A i \in 1 .. Len(s) + Len(t) :
                (s \o t)[i] = IF i <= Len(s) THEN s[i] ELSE t[i - Len(s)]
      BY <1>3, <2>2
    <3>2. Len(s) + Len(t) = w * k /\ Len(s) = w * (k - 1)
      BY <2>2, <2>4, <2>5
    <3> QED BY <2>3, <3>1, <3>2
  <2>7. ASSUME NEW n \in 1 .. k, NEW j \in 1 .. w
        PROVE  f[k][w * (n - 1) + j] = parts[n][j]
    <3>1. CASE n = k
      <4>1. w * (k - 1) + j \in 1 .. w * k /\ ~ (w * (k - 1) + j <= w * (k - 1))
            /\ (w * (k - 1) + j) - w * (k - 1) = j
        BY <2>5
      <4> QED BY <2>6, <3>1, <4>1
    <3>2. CASE n # k
      <4>1. w * (n - 1) + j \in 1 .. w * k /\ w * (n - 1) + j <= w * (k - 1)
        <5>1. CASE w = 3
          BY <3>2, <5>1
        <5>2. CASE w = 4
          BY <3>2, <5>2
        <5> QED BY <5>1, <5>2
      <4>2. n \in 1 .. k - 1
        BY <3>2
      <4> QED BY <2>4, <2>6, <4>1, <4>2
    <3> QED BY <3>1, <3>2
  <2> QED BY <2>1, <2>6, <2>7
<1>5. 0 \in placed
  BY <1>1, <1>2
<1> HIDE DEF placed
<1>6. Len(parts) \in placed
  BY <1>2, <1>4, <1>5, CountUp
<1>7. f[Len(parts)] \in T
  <2>1. Len(parts) \in 0 .. Len(parts)
    BY <1>2
  <2> QED BY <2>1
<1> QED BY <1>1, <1>6, <1>7 DEF placed, T

\* Sequences that are put together may be grouped either way.
LEMMA JoinsRegroup ==
  ASSUME NEW S
  PROVE  \A w, x, y \in Seq(S) : w \o (x \o y) = (w \o x) \o y
BY ConcatAssociative, SMTT(60)
=============================================================================
