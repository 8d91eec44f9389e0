-------------------------- MODULE SortedSets_proofs --------------------------
(* What Sorted() returns, for every finite set of integers, and that nothing else   *)
(* lists a set in ascending order.                                                 *)
EXTENDS SortedSets, FiniteSetTheorems, TLAPS

Below(S, x) == {y \in S : y < x}

\* The number of smaller elements tells the elements of a set apart, in their order.
LEMMA RankGrows ==
  ASSUME NEW S \in SUBSET Int, IsFiniteSet(S), NEW x \in S, NEW z \in S, x < z
  PROVE  Cardinality(Below(S, x)) < Cardinality(Below(S, z))
  <1>1. IsFiniteSet(Below(S, x)) /\ IsFiniteSet(Below(S, z))
    BY FS_Subset DEF Below
  <1>2. x \notin Below(S, x) /\ Below(S, x) \cup {x} \subseteq Below(S, z)
    <2>1. x \in Int /\ z \in Int /\ \A y \in S : y \in Int
      OBVIOUS
    <2>2. \A y \in S : y < x => y < z
      BY <2>1
    <2>3. Below(S, x) \subseteq Below(S, z) /\ x \in Below(S, z)
      BY <2>2, Zenon DEF Below
    <2>4. x \notin Below(S, x)
      BY <2>1 DEF Below
    <2> QED BY <2>3, <2>4
  <1>3. Cardinality(Below(S, x) \cup {x}) = Cardinality(Below(S, x)) + 1
    BY <1>1, <1>2, FS_AddElement
  <1>4. Cardinality(Below(S, x) \cup {x}) <= Cardinality(Below(S, z))
    BY <1>1, <1>2, FS_Subset
  <1>5. Cardinality(Below(S, x)) \in Nat /\ Cardinality(Below(S, z)) \in Nat
    BY <1>1, FS_CardinalityType
  <1> QED BY <1>3, <1>4, <1>5

LEMMA SameRank ==
  ASSUME NEW S \in SUBSET Int, IsFiniteSet(S), NEW x \in S, NEW z \in S,
         Cardinality(Below(S, x)) = Cardinality(Below(S, z))
  PROVE  x = z
  <1>1. IsFiniteSet(Below(S, x)) /\ Cardinality(Below(S, x)) \in Nat
    BY FS_Subset, FS_CardinalityType DEF Below
  <1>2. ~ (x < z)
    BY <1>1, RankGrows
  <1>3. ~ (z < x)
    BY <1>1, RankGrows
  <1>4. x \in Int /\ z \in Int
    OBVIOUS
  <1> QED BY <1>2, <1>3, <1>4

LEMMA RankRange ==
  ASSUME NEW S \in SUBSET Int, IsFiniteSet(S), NEW x \in S
  PROVE  Cardinality(Below(S, x)) \in 0 .. Cardinality(S) - 1
  <1>1. IsFiniteSet(Below(S, x)) /\ Cardinality(Below(S, x)) <= Cardinality(S)
    BY FS_Subset DEF Below
  <1>2. Below(S, x) # S
    BY DEF Below
  <1>3. Cardinality(Below(S, x)) # Cardinality(S)
    BY <1>2, FS_Subset DEF Below
  <1> QED BY <1>1, <1>3, FS_CardinalityType

\* Each number of smaller elements occurs.
LEMMA RankOnto ==
  ASSUME NEW S \in SUBSET Int, IsFiniteSet(S), NEW i \in 1 .. Cardinality(S)
  PROVE  \E x \in S : Cardinality(Below(S, x)) = i - 1
  <1> DEFINE n == Cardinality(S)
             T == 0 .. n - 1
             f == [x \in S |-> Cardinality(Below(S, x))]
  <1>1. n \in Nat
    BY FS_CardinalityType
  <1>2. IsFiniteSet(T) /\ Cardinality(T) = Cardinality(S)
    <2> HIDE DEF n
    <2>1. 0 \in Int /\ n - 1 \in Int
      BY <1>1
    <2>2. IsFiniteSet(0 .. n - 1) /\ Cardinality(0 .. n - 1) = IF 0 > n - 1 THEN 0 ELSE n - 1 - 0 + 1
      BY <2>1, FS_Interval, Zenon
    <2>3. Cardinality(T) = n
      BY <1>1, <2>2
    <2> QED BY <2>2, <2>3 DEF n
  <1>3. f \in [S -> T]
    BY RankRange
  <1>4. ASSUME NEW x \in S, NEW z \in S, f[x] = f[z] PROVE x = z
    BY <1>4, SameRank
  <1>5. f \in Injection(S, T)
    BY <1>3, <1>4 DEF Injection, IsInjective
  <1>6. f \in Surjection(S, T)
    BY <1>2, <1>5, FS_Injection
  <1>7. i - 1 \in T
    BY <1>1
  <1> QED BY <1>6, <1>7 DEF Surjection

\* Sorted() lists every element once, in ascending order.
THEOREM SortedFacts ==
  ASSUME NEW S \in SUBSET Int, IsFiniteSet(S)
  PROVE  /\ Sorted(S) \in Seq(S) /\ Len(Sorted(S)) = Cardinality(S)
         /\ Ascending(Sorted(S))
         /\ Elements(Sorted(S)) = S
  <1> DEFINE n == Cardinality(S)
  <1>1. n \in Nat
    BY FS_CardinalityType
  <1>2. \A i \in 1 .. n : Sorted(S)[i] \in S /\ Cardinality(Below(S, Sorted(S)[i])) = i - 1
    BY RankOnto DEF Sorted, Below
  <1>3. Sorted(S) = [i \in 1 .. n |-> Sorted(S)[i]]
    <2> DEFINE Ranked(i) == CHOOSE x \in S : Cardinality({y \in S : y < x}) = i - 1
    <2>1. Sorted(S) = [i \in 1 .. n |-> Ranked(i)]
      BY DEF Sorted
    <2> HIDE DEF Ranked
    <2> QED BY <2>1
  <1>4. Sorted(S) \in Seq(S) /\ Len(Sorted(S)) = n
    BY <1>1, <1>2, <1>3
  <1>5. Ascending(Sorted(S))
    <2> SUFFICES ASSUME NEW i \in 1 .. n, NEW j \in 1 .. n, i < j
                 PROVE  Sorted(S)[i] < Sorted(S)[j]
      BY <1>4 DEF Ascending
    <2> DEFINE x == Sorted(S)[i]
               z == Sorted(S)[j]
    <2>1. /\ x \in S /\ Cardinality(Below(S, x)) = i - 1
          /\ z \in S /\ Cardinality(Below(S, z)) = j - 1
      BY <1>2
    <2> HIDE DEF x, z
    <2>2. ~ (z < x)
      <3> SUFFICES ASSUME z < x PROVE FALSE
        OBVIOUS
      <3>1. Cardinality(Below(S, z)) < Cardinality(Below(S, x))
        BY <2>1, RankGrows
      <3> QED BY <2>1, <3>1
    <2>3. x # z /\ x \in Int /\ z \in Int
      BY <2>1
    <2> QED BY <2>2, <2>3 DEF x, z
  <1>6. ASSUME NEW x \in S PROVE x \in Elements(Sorted(S))
    <2> DEFINE i == Cardinality(Below(S, x)) + 1
    <2>1. i \in 1 .. n
      BY <1>1, RankRange
    <2>2. Sorted(S)[i] \in S /\ Cardinality(Below(S, Sorted(S)[i])) = Cardinality(Below(S, x))
      BY <2>1, <1>1, <1>2, RankRange
    <2>3. \A y \in S : Cardinality(Below(S, y)) = Cardinality(Below(S, x)) => y = x
      BY SameRank
    <2>4. Sorted(S)[i] = x
      BY <2>2, <2>3
    <2> QED BY <2>1, <2>4, <1>4 DEF Elements
  <1> QED BY <1>2, <1>4, <1>5, <1>6 DEF Elements

\* The first i - 1 elements of an ascending sequence are those below the i-th.
LEMMA AscendingRank ==
  ASSUME NEW s \in Seq(Int), Ascending(s), NEW i \in 1 .. Len(s)
  PROVE  Cardinality(Below(Elements(s), s[i])) = i - 1
  <1> DEFINE B == Below(Elements(s), s[i])
             f == [j \in 1 .. i - 1 |-> s[j]]
  <1>1. \A j \in 1 .. Len(s) : s[j] \in Int
    OBVIOUS
  <1>2. \A j, k \in 1 .. Len(s) : s[j] < s[k] <=> j < k
    BY <1>1 DEF Ascending
  <1>3. \A x \in B : \E j \in 1 .. i - 1 : x = s[j]
    BY <1>2 DEF Below, Elements
  <1>4. \A j \in 1 .. i - 1 : s[j] \in B
    BY <1>2 DEF Below, Elements
  <1>5. f \in [1 .. i - 1 -> B]
    BY <1>4
  <1>6. \A j, k \in 1 .. i - 1 : f[j] = f[k] => j = k
    BY <1>1, <1>2
  <1>7. \A x \in B : \E j \in 1 .. i - 1 : f[j] = x
    BY <1>3
  <1>8. f \in Bijection(1 .. i - 1, B)
    BY <1>5, <1>6, <1>7 DEF Bijection, Injection, Surjection, IsInjective
  <1>9. IsFiniteSet(1 .. i - 1) /\ Cardinality(1 .. i - 1) = i - 1
    <2>1. 1 \in Int /\ i - 1 \in Int /\ i - 1 >= 0
      OBVIOUS
    <2> DEFINE m == i - 1
    <2> HIDE DEF m
    <2>2. IsFiniteSet(1 .. m) /\ Cardinality(1 .. m) = IF 1 > m THEN 0 ELSE m - 1 + 1
      BY <2>1, FS_Interval, Zenon DEF m
    <2>3. Cardinality(1 .. m) = m
      BY <2>1, <2>2 DEF m
    <2> QED BY <2>2, <2>3 DEF m
  <1>10. ExistsBijection(1 .. i - 1, B)
    BY <1>8 DEF ExistsBijection
  <1> QED BY <1>9, <1>10, FS_Bijection

\* The numbers from 1 on.
LEMMA CountTo ==
  ASSUME NEW n \in Nat
  PROVE  IsFiniteSet(1 .. n) /\ Cardinality(1 .. n) = n
  <1>1. 1 \in Int /\ n \in Int
    OBVIOUS
  <1>2. IsFiniteSet(1 .. n) /\ Cardinality(1 .. n) = IF 1 > n THEN 0 ELSE n - 1 + 1
    BY <1>1, FS_Interval, Zenon
  <1> QED BY <1>2

\* The elements of a sequence are no more than its length.
LEMMA ElementsFinite ==
  ASSUME NEW S, NEW s \in Seq(S)
  PROVE  /\ Elements(s) \in SUBSET S /\ IsFiniteSet(Elements(s))
         /\ Cardinality(Elements(s)) \in Nat /\ Cardinality(Elements(s)) <= Len(s)
  <1> DEFINE n == Len(s)
             f == [j \in 1 .. n |-> s[j]]
  <1>1. n \in Nat /\ \A j \in 1 .. n : s[j] \in S
    OBVIOUS
  <1>2. f \in Surjection(1 .. n, Elements(s))
    BY DEF Surjection, Elements
  <1>3. IsFiniteSet(1 .. n) /\ Cardinality(1 .. n) = n
    BY <1>1, CountTo
  <1>4. IsFiniteSet(Elements(s)) /\ Cardinality(Elements(s)) <= n
    BY <1>2, <1>3, FS_Surjection
  <1>5. Elements(s) \in SUBSET S
    BY <1>1 DEF Elements
  <1> QED BY <1>4, <1>5, FS_CardinalityType

\* A sequence without repetitions has as many elements as places.
LEMMA DistinctCount ==
  ASSUME NEW S, NEW s \in Seq(S), \A j, k \in 1 .. Len(s) : s[j] = s[k] => j = k
  PROVE  IsFiniteSet(Elements(s)) /\ Cardinality(Elements(s)) = Len(s)
  <1> DEFINE n == Len(s)
             f == [j \in 1 .. n |-> s[j]]
  <1>1. n \in Nat
    OBVIOUS
  <1>2. f \in Bijection(1 .. n, Elements(s))
    BY DEF Bijection, Injection, Surjection, IsInjective, Elements
  <1>3. ExistsBijection(1 .. n, Elements(s))
    BY <1>2 DEF ExistsBijection
  <1>4. IsFiniteSet(1 .. n) /\ Cardinality(1 .. n) = n
    BY <1>1, CountTo
  <1> QED BY <1>3, <1>4, FS_Bijection

LEMMA AscendingCount ==
  ASSUME NEW s \in Seq(Int), Ascending(s)
  PROVE  IsFiniteSet(Elements(s)) /\ Cardinality(Elements(s)) = Len(s)
  <1>1. \A j \in 1 .. Len(s) : s[j] \in Int
    OBVIOUS
  <1>2. \A j, k \in 1 .. Len(s) : s[j] = s[k] => j = k
    BY <1>1 DEF Ascending
  <1> QED BY <1>2, DistinctCount

\* An ascending sequence is its set of elements, sorted.
THEOREM AscendingIsSorted ==
  ASSUME NEW s \in Seq(Int), Ascending(s)
  PROVE  s = Sorted(Elements(s))
  <1> DEFINE S == Elements(s)
  <1>1. IsFiniteSet(S) /\ Cardinality(S) = Len(s) /\ S \in SUBSET Int
    <2>1. \A j \in 1 .. Len(s) : s[j] \in Int
      OBVIOUS
    <2>2. S \in SUBSET Int
      BY <2>1 DEF Elements
    <2> QED BY <2>2, AscendingCount
  <1> HIDE DEF S
  <1>2. ASSUME NEW i \in 1 .. Len(s)
        PROVE  s[i] = (CHOOSE x \in S : Cardinality(Below(S, x)) = i - 1)
    <2>1. s[i] \in S /\ Cardinality(Below(S, s[i])) = i - 1
      BY AscendingRank DEF S, Elements
    <2>2. \A x \in S : Cardinality(Below(S, x)) = i - 1 => x = s[i]
      BY <1>1, <2>1, SameRank
    <2> QED BY <2>1, <2>2
  <1>3. s = [i \in 1 .. Len(s) |-> s[i]]
    OBVIOUS
  <1> QED BY <1>1, <1>2, <1>3 DEF Sorted, Below, S

\* The elements of two sequences, one after the other.
LEMMA ElementsOfConcat ==
  ASSUME NEW S, NEW s \in Seq(S), NEW t \in Seq(S)
  PROVE  Elements(s \o t) = Elements(s) \cup Elements(t)
  <1> DEFINE u == s \o t
  <1>1. /\ Len(u) = Len(s) + Len(t) /\ Len(s) \in Nat /\ Len(t) \in Nat
        /\ \A i \in 1 .. Len(s) : u[i] = s[i]
        /\ \A i \in 1 .. Len(t) : u[Len(s) + i] = t[i]
    OBVIOUS
  <1> HIDE DEF u
  <1>2. ASSUME NEW i \in 1 .. Len(u) PROVE u[i] \in Elements(s) \cup Elements(t)
    <2>1. CASE i <= Len(s)
      BY <1>1, <2>1 DEF Elements
    <2>2. CASE i > Len(s)
      <3>1. i - Len(s) \in 1 .. Len(t) /\ i = Len(s) + (i - Len(s))
        BY <1>1, <2>2
      <3>2. u[i] = t[i - Len(s)]
        BY <1>1, <3>1
      <3> QED BY <3>1, <3>2 DEF Elements
    <2> QED BY <1>1, <2>1, <2>2
  <1>3. ASSUME NEW i \in 1 .. Len(s) PROVE s[i] \in Elements(u)
    BY <1>1 DEF Elements
  <1>4. ASSUME NEW i \in 1 .. Len(t) PROVE t[i] \in Elements(u)
    <2>1. Len(s) + i \in 1 .. Len(u) /\ u[Len(s) + i] = t[i]
      BY <1>1
    <2> QED BY <2>1 DEF Elements
  <1>5. Elements(u) = Elements(s) \cup Elements(t)
    BY <1>2, <1>3, <1>4 DEF Elements
  <1> QED BY <1>5 DEF u

\* An older page in front of what is there.
LEMMA Concatenation ==
  ASSUME NEW s \in Seq(Int), NEW t \in Seq(Int), Ascending(s), Ascending(t),
         \A x \in Elements(s), y \in Elements(t) : x < y
  PROVE  /\ Ascending(s \o t)
         /\ Elements(s \o t) = Elements(s) \cup Elements(t)
  <1> DEFINE u == s \o t
  <1>1. /\ Len(u) = Len(s) + Len(t)
        /\ \A i \in 1 .. Len(s) : u[i] = s[i] /\ s[i] \in Int
        /\ \A i \in 1 .. Len(t) : u[Len(s) + i] = t[i] /\ t[i] \in Int
        /\ Len(s) \in Nat /\ Len(t) \in Nat
    OBVIOUS
  <1> HIDE DEF u
  <1>2. \A i \in 1 .. Len(u) : i > Len(s) => i - Len(s) \in 1 .. Len(t) /\ u[i] = t[i - Len(s)]
    <2> SUFFICES ASSUME NEW i \in 1 .. Len(u), i > Len(s)
                 PROVE  i - Len(s) \in 1 .. Len(t) /\ u[i] = t[i - Len(s)]
      OBVIOUS
    <2>1. i - Len(s) \in 1 .. Len(t) /\ i = Len(s) + (i - Len(s))
      BY <1>1
    <2> QED BY <1>1, <2>1
  <1>3. Ascending(u)
    <2> SUFFICES ASSUME NEW i \in 1 .. Len(u), NEW j \in 1 .. Len(u), i < j
                 PROVE  u[i] < u[j]
      BY DEF Ascending
    <2>1. CASE j <= Len(s)
      BY <1>1, <2>1 DEF Ascending
    <2>2. CASE i > Len(s)
      <3>1. /\ u[i] = t[i - Len(s)] /\ i - Len(s) \in 1 .. Len(t)
            /\ u[j] = t[j - Len(s)] /\ j - Len(s) \in 1 .. Len(t)
        BY <1>1, <1>2, <2>2
      <3>2. i - Len(s) < j - Len(s)
        BY <1>1
      <3> QED BY <3>1, <3>2 DEF Ascending
    <2>3. CASE i <= Len(s) /\ j > Len(s)
      <3>1. u[i] = s[i] /\ s[i] \in Elements(s)
        BY <1>1, <2>3 DEF Elements
      <3>2. u[j] = t[j - Len(s)] /\ t[j - Len(s)] \in Elements(t)
        BY <1>2, <2>3 DEF Elements
      <3> QED BY <3>1, <3>2
    <2> QED BY <1>1, <2>1, <2>2, <2>3
  <1> QED BY <1>3, ElementsOfConcat DEF u

LEMMA WiderSeq ==
  ASSUME NEW T, NEW S \in SUBSET T, NEW s \in Seq(S)
  PROVE  s \in Seq(T)
  <1>1. Len(s) \in Nat /\ \A i \in 1 .. Len(s) : s[i] \in T
    OBVIOUS
  <1>2. s = [i \in 1 .. Len(s) |-> s[i]]
    OBVIOUS
  <1> QED BY <1>1, <1>2

\* The first of an ascending sequence is its least, the last its greatest.
LEMMA FirstAndLast ==
  ASSUME NEW s \in Seq(Int), Ascending(s), s # << >>
  PROVE  /\ Head(s) \in Elements(s) /\ s[Len(s)] \in Elements(s)
         /\ \A x \in Elements(s) : Head(s) <= x /\ x <= s[Len(s)]
  <1>1. Len(s) \in Nat /\ Len(s) >= 1 /\ Head(s) = s[1] /\ \A i \in 1 .. Len(s) : s[i] \in Int
    OBVIOUS
  <1>2. \A i \in 1 .. Len(s) : s[1] <= s[i] /\ s[i] <= s[Len(s)]
    BY <1>1 DEF Ascending
  <1> QED BY <1>1, <1>2 DEF Elements

\* A finite set that has an element has a least and a greatest one.
LEMMA Extremes ==
  ASSUME NEW S \in SUBSET Int, IsFiniteSet(S), S # {}
  PROVE  /\ \E x \in S : \A y \in S : x <= y
         /\ \E x \in S : \A y \in S : y <= x
  <1> DEFINE s == Sorted(S)
  <1>1. s \in Seq(Int) /\ Ascending(s) /\ Elements(s) = S
    <2>1. s \in Seq(S) /\ S \subseteq Int
      BY SortedFacts
    <2>2. s \in Seq(Int)
      BY <2>1, WiderSeq
    <2> QED BY <2>2, SortedFacts
  <1> HIDE DEF s
  <1>2. s # << >>
    BY <1>1 DEF Elements
  <1> QED BY <1>1, <1>2, FirstAndLast

\* The newest of a set are missing nothing newer, and there are some if there are any.
LEMMA NewestFacts ==
  ASSUME NEW S \in SUBSET Int, IsFiniteSet(S), NEW n \in Nat \ {0}
  PROVE  /\ Newest(S, n) \subseteq S /\ IsFiniteSet(Newest(S, n))
         /\ \A x \in Newest(S, n), y \in S : x < y => y \in Newest(S, n)
         /\ Newest(S, n) = {} => S = {}
  <1> DEFINE After(x) == {y \in S : y > x}
  <1>1. Newest(S, n) \subseteq S /\ IsFiniteSet(Newest(S, n))
    BY FS_Subset DEF Newest
  <1>2. ASSUME NEW x \in Newest(S, n), NEW y \in S, x < y PROVE y \in Newest(S, n)
    <2>1. x \in Int /\ y \in Int /\ \A z \in S : z \in Int
      BY <1>1
    <2>2. \A z \in S : z > y => z > x
      BY <2>1, <1>2
    <2>3. After(y) \subseteq After(x) /\ IsFiniteSet(After(x)) /\ IsFiniteSet(After(y))
      <3>1. After(y) \subseteq After(x)
        BY <2>2, Zenon
      <3>2. After(x) \subseteq S /\ After(y) \subseteq S
        OBVIOUS
      <3> QED BY <3>1, <3>2, FS_Subset
    <2>4. Cardinality(After(y)) <= Cardinality(After(x))
      BY <2>3, FS_Subset
    <2>5. Cardinality(After(x)) < n
      BY DEF Newest
    <2>6. Cardinality(After(y)) \in Nat /\ Cardinality(After(x)) \in Nat
      BY <2>3, FS_CardinalityType
    <2>7. Cardinality(After(y)) < n
      BY <2>4, <2>5, <2>6
    <2> QED BY <2>7 DEF Newest
  <1>3. ASSUME S # {} PROVE Newest(S, n) # {}
    <2>1. PICK x \in S : \A y \in S : y <= x
      BY <1>3, Extremes
    <2>2. \A y \in S : ~ (y > x)
      <3>1. x \in Int /\ \A y \in S : y \in Int
        OBVIOUS
      <3> QED BY <2>1, <3>1
    <2>3. After(x) = {}
      BY <2>2
    <2>4. Cardinality(After(x)) < n
      BY <2>3, FS_EmptySet
    <2> QED BY <2>4 DEF Newest
  <1> QED BY <1>1, <1>2, <1>3
=============================================================================
