------------------------------ MODULE SumProofs ------------------------------
(***************************************************************************)
(* Sums of the numbers of a finite list, for the loops of workload.c and   *)
(* evaluation.c that add up times.  MapThenSumSet is a CHOOSE of a         *)
(* function of the subsets (Sums); that there is one, and that the order   *)
(* in which it takes its elements does not matter, is shown by least       *)
(* counterexample on the number of elements (SumsExist, SumsFacts).  The   *)
(* rest is about the sums over the first elements of a list (Upto).        *)
(***************************************************************************)
EXTENDS Integers, FiniteSetTheorems, WellFoundedInduction, TLAPS

\* A set of naturals that is not empty has a least element.
LEMMA LeastNat ==
  ASSUME NEW T \in SUBSET Nat, T # {}
  PROVE  \E m \in T : \A n \in T : m <= n
<1>1. PICK m \in T : \A n \in T : <<n, m>> \notin OpToRel(<, Nat)
  BY NatLessThanWellFounded, WFMin, Zenon
<1>2. \A n \in T : ~(n < m)
  BY <1>1 DEF OpToRel
<1>3. T \subseteq Nat
  OBVIOUS
<1> HIDE <1>1
<1> QED  BY <1>2, <1>3, SMT

\* Induction, for a property given as the set of the numbers that have it.
LEMMA Induction ==
  ASSUME NEW T \in SUBSET Nat, 0 \in T, \A n \in T : n + 1 \in T
  PROVE  T = Nat
<1> SUFFICES ASSUME Nat \ T # {}  PROVE FALSE
  OBVIOUS
<1>1. PICK m \in Nat \ T : \A n \in Nat \ T : m <= n
  BY LeastNat
<1>2. m - 1 \in Nat /\ m - 1 \notin Nat \ T
  BY <1>1
<1> QED  BY <1>1, <1>2

\* the element MapThenSumSet takes next
NextOf(s) == CHOOSE x \in s : TRUE

\* h gives the sum of f over every subset of S, as MapThenSumSet builds it
Sums(h, S, f) == h = [s \in SUBSET S |-> IF s = {} THEN 0 ELSE f[NextOf(s)] + h[s \ {NextOf(s)}]]

SumsOf(f, S) == CHOOSE h : Sums(h, S, f)
Total(f)     == SumsOf(f, DOMAIN f)[DOMAIN f]

LEMMA SumsExist ==
  ASSUME NEW S, IsFiniteSet(S), NEW f \in [S -> Int]
  PROVE  \E h : Sums(h, S, f)
<1> DEFINE Part(n) == {s \in SUBSET S : Cardinality(s) <= n}
           Value(h, s) == IF s = {} THEN 0 ELSE f[NextOf(s)] + h[s \ {NextOf(s)}]
           T == {n \in Nat : \E h \in [Part(n) -> Int] : \A s \in Part(n) : h[s] = Value(h, s)}
<1>1. \A s \in SUBSET S : IsFiniteSet(s) /\ Cardinality(s) \in Nat /\ Cardinality(s) <= Cardinality(S)
  BY FS_Subset, FS_CardinalityType
<1>2. ASSUME NEW s \in SUBSET S, s # {}
      PROVE  /\ NextOf(s) \in S /\ s \ {NextOf(s)} \in SUBSET S
             /\ Cardinality(s \ {NextOf(s)}) = Cardinality(s) - 1
  <2>1. NextOf(s) \in s
    BY <1>2 DEF NextOf
  <2> QED  BY <1>1, <2>1, FS_RemoveElement
<1>3. 0 \in T
  <2>1. Part(0) = {{}}
    BY <1>1, FS_EmptySet
  <2> DEFINE h == [s \in Part(0) |-> 0]
  <2>2. h \in [Part(0) -> Int] /\ \A s \in Part(0) : h[s] = Value(h, s)
    BY <2>1
  <2> QED  BY <2>2
<1>4. ASSUME NEW n \in T  PROVE n + 1 \in T
  <2>1. PICK h \in [Part(n) -> Int] : \A s \in Part(n) : h[s] = Value(h, s)
    BY <1>4
  <2> DEFINE g == [s \in Part(n + 1) |-> Value(h, s)]
  <2>2. ASSUME NEW s \in Part(n + 1), s # {}
        PROVE  s \ {NextOf(s)} \in Part(n) /\ s \ {NextOf(s)} \in Part(n + 1)
    <3>1. Cardinality(s) <= n + 1 /\ Cardinality(s) \in Nat /\ s \in SUBSET S
      BY <1>1
    <3>2. s \ {NextOf(s)} \in SUBSET S /\ Cardinality(s \ {NextOf(s)}) = Cardinality(s) - 1
      BY <1>2, <2>2
    <3> QED  BY <3>1, <3>2
  <2>3. \A s \in Part(n) : s \in Part(n + 1) /\ g[s] = h[s]
    BY <1>1, <2>1
  <2>4. ASSUME NEW s \in Part(n + 1)  PROVE g[s] \in Int /\ g[s] = Value(g, s)
    <3>1. CASE s = {}
      BY <3>1
    <3>2. CASE s # {}
      <4>1. g[s] = f[NextOf(s)] + h[s \ {NextOf(s)}]
        BY <3>2
      <4>2. s \ {NextOf(s)} \in Part(n) /\ NextOf(s) \in S
        BY <1>2, <2>2, <3>2
      <4>3. g[s \ {NextOf(s)}] = h[s \ {NextOf(s)}] /\ h[s \ {NextOf(s)}] \in Int /\ f[NextOf(s)] \in Int
        BY <2>1, <2>3, <4>2
      <4> HIDE DEF g, Part
      <4> QED  BY <3>2, <4>1, <4>3
    <3> QED  BY <3>1, <3>2
  <2>5. g \in [Part(n + 1) -> Int]
    BY <2>4
  <2>6. \E k \in [Part(n + 1) -> Int] : \A s \in Part(n + 1) : k[s] = Value(k, s)
    <3> HIDE DEF g, Part
    <3> QED  BY <2>4, <2>5
  <2> HIDE DEF g, Part, Value
  <2> QED  BY <2>6
<1>5. T = Nat
  <2> HIDE DEF T
  <2> QED  BY <1>3, <1>4, Induction DEF T
<1>6. Part(Cardinality(S)) = SUBSET S /\ Cardinality(S) \in Nat
  BY <1>1
<1>7. PICK h \in [SUBSET S -> Int] : \A s \in SUBSET S : h[s] = Value(h, s)
  <2>1. Cardinality(S) \in T
    BY <1>5, <1>6
  <2>2. \E h \in [Part(Cardinality(S)) -> Int] : \A s \in Part(Cardinality(S)) : h[s] = Value(h, s)
    <3> HIDE DEF Part, Value
    <3> QED  BY <2>1
  <2> HIDE DEF Part, Value, T
  <2> QED  BY <1>6, <2>2
<1>8. Sums(h, S, f)
  BY <1>7 DEF Sums
<1> QED  BY <1>8

\* the order in which a sum takes its elements does not matter
LEMMA SumsFacts ==
  ASSUME NEW S, IsFiniteSet(S), NEW f \in [S -> Int]
  PROVE  /\ \A s \in SUBSET S : SumsOf(f, S)[s] \in Int
         /\ SumsOf(f, S)[{}] = 0
         /\ \A s \in SUBSET S : \A x \in s : SumsOf(f, S)[s] = f[x] + SumsOf(f, S)[s \ {x}]
<1> DEFINE h == SumsOf(f, S)
           Part(n) == {s \in SUBSET S : Cardinality(s) <= n}
           T == {n \in Nat : \A s \in Part(n) : h[s] \in Int /\ \A x \in s : h[s] = f[x] + h[s \ {x}]}
<1>0. Sums(h, S, f)
  BY SumsExist, Zenon DEF SumsOf
<1> HIDE DEF h
<1>1. \A s \in SUBSET S : IsFiniteSet(s) /\ Cardinality(s) \in Nat /\ Cardinality(s) <= Cardinality(S)
  BY FS_Subset, FS_CardinalityType
<1>2. ASSUME NEW s \in SUBSET S, NEW x \in s
      PROVE  s \ {x} \in SUBSET S /\ Cardinality(s \ {x}) = Cardinality(s) - 1
  BY <1>1, FS_RemoveElement
<1>3. /\ h[{}] = 0
      /\ \A s \in SUBSET S : s # {} => NextOf(s) \in s /\ h[s] = f[NextOf(s)] + h[s \ {NextOf(s)}]
  <2>1. \A s \in SUBSET S : s # {} => NextOf(s) \in s
    BY DEF NextOf
  <2> QED  BY <1>0, <2>1 DEF Sums
<1>4. 0 \in T
  <2>1. Part(0) = {{}}
    BY <1>1, FS_EmptySet
  <2>2. h[{}] \in Int
    BY <1>3
  <2> HIDE DEF Part
  <2> QED  BY <2>1, <2>2
<1>5. ASSUME NEW n \in T  PROVE n + 1 \in T
  <2> SUFFICES ASSUME NEW s \in Part(n + 1)
               PROVE  h[s] \in Int /\ \A x \in s : h[s] = f[x] + h[s \ {x}]
    OBVIOUS
  <2>0. s \in SUBSET S /\ Cardinality(s) <= n + 1 /\ Cardinality(s) \in Nat
    BY <1>1
  <2>1. ASSUME NEW x \in s  PROVE s \ {x} \in Part(n) /\ h[s \ {x}] \in Int /\ f[x] \in Int
    <3>1. s \ {x} \in Part(n)
      BY <1>2, <2>0
    <3> QED  BY <1>5, <2>0, <3>1
  <2>2. ASSUME NEW c \in s, c = NextOf(s), NEW x \in s  PROVE h[s] = f[x] + h[s \ {x}]
    <3>1. h[s] = f[c] + h[s \ {c}]
      BY <1>3, <2>0, <2>2
    <3>2. CASE x = c
      BY <3>1, <3>2
    <3>3. CASE x # c
      <4>1. h[s \ {c}] = f[x] + h[(s \ {c}) \ {x}]
        BY <1>5, <2>1, <3>3
      <4>2. h[s \ {x}] = f[c] + h[(s \ {x}) \ {c}]
        BY <1>5, <2>1, <3>3
      <4>3. (s \ {c}) \ {x} = (s \ {x}) \ {c}
        OBVIOUS
      <4>4. (s \ {c}) \ {x} \in Part(n)
        <5>1. (s \ {c}) \ {x} \in SUBSET S /\ Cardinality((s \ {c}) \ {x}) = Cardinality(s) - 1 - 1
          BY <1>2, <2>0, <3>3
        <5> QED  BY <2>0, <5>1
      <4>5. h[(s \ {c}) \ {x}] \in Int
        BY <1>5, <4>4
      <4>6. f[x] \in Int /\ f[c] \in Int
        BY <2>1
      <4>7. /\ h[s] = f[c] + (f[x] + h[(s \ {c}) \ {x}])
            /\ h[s \ {x}] = f[c] + h[(s \ {c}) \ {x}]
        BY <3>1, <4>1, <4>2, <4>3
      <4> HIDE DEF Part, T
      <4> QED  BY <4>5, <4>6, <4>7
    <3> QED  BY <3>2, <3>3
  <2>3. CASE s = {}
    BY <1>3, <2>3
  <2>4. CASE s # {}
    <3>1. PICK c \in s : c = NextOf(s)
      BY <1>3, <2>0, <2>4
    <3>2. \A x \in s : h[s] = f[x] + h[s \ {x}]
      BY <2>2, <3>1
    <3>3. h[s] = f[c] + h[s \ {c}] /\ f[c] \in Int /\ h[s \ {c}] \in Int
      BY <2>1, <3>2
    <3>4. h[s] \in Int
      <4> HIDE DEF Part, T
      <4> QED  BY <3>3
    <3> QED  BY <3>2, <3>4
  <2> QED  BY <2>3, <2>4
<1>6. T = Nat
  <2> HIDE DEF T
  <2> QED  BY <1>4, <1>5, Induction DEF T
<1>7. \A s \in SUBSET S : h[s] \in Int /\ \A x \in s : h[s] = f[x] + h[s \ {x}]
  <2>1. Cardinality(S) \in Nat /\ \A s \in SUBSET S : s \in Part(Cardinality(S))
    BY <1>1
  <2>2. Cardinality(S) \in T
    BY <1>6, <2>1
  <2> QED  BY <2>1, <2>2
<1> HIDE DEF Part, T
<1> QED  BY <1>3, <1>7 DEF h

\* the sums over the first elements of a list
Upto(f, k) == SumsOf(f, DOMAIN f)[1..k]

LEMMA UptoFacts ==
  ASSUME NEW n \in Nat, NEW f \in [1..n -> Int]
  PROVE  /\ Upto(f, 0) = 0 /\ Total(f) = Upto(f, n)
         /\ \A k \in 0..n : Upto(f, k) \in Int
         /\ \A k \in 1..n : Upto(f, k) = f[k] + Upto(f, k - 1)
         /\ \A k \in 0..n-1 : Upto(f, k + 1) = f[k + 1] + Upto(f, k)
<1>1. IsFiniteSet(1..n) /\ DOMAIN f = 1..n
  BY FS_Interval
<1>2. 1..0 = {}
  OBVIOUS
<1>3. \A k \in 0..n : 1..k \in SUBSET (1..n)
  OBVIOUS
<1>4. \A k \in 1..n : k \in 1..k /\ (1..k) \ {k} = 1..(k-1)
  OBVIOUS
<1>5. Upto(f, 0) = 0 /\ Total(f) = Upto(f, n) /\ \A k \in 0..n : Upto(f, k) \in Int
  <2>1. /\ SumsOf(f, 1..n)[{}] = 0
        /\ \A s \in SUBSET (1..n) : SumsOf(f, 1..n)[s] \in Int
    BY <1>1, SumsFacts
  <2>2. \A k \in 0..n : SumsOf(f, 1..n)[1..k] \in Int
    BY <1>3, <2>1
  <2>3. \A k : Upto(f, k) = SumsOf(f, 1..n)[1..k]
    BY <1>1, Zenon DEF Upto
  <2>4. Total(f) = SumsOf(f, 1..n)[1..n]
    BY <1>1, Zenon DEF Total
  <2>5. Upto(f, 0) = 0
    BY <1>2, <2>1, <2>3, Zenon
  <2>6. Total(f) = Upto(f, n)
    BY <2>3, <2>4, Zenon
  <2>7. \A k \in 0..n : Upto(f, k) \in Int
    BY <2>2, <2>3, Zenon
  <2> HIDE DEF Upto
  <2> QED  BY <2>5, <2>6, <2>7
<1>6. \A s \in SUBSET (1..n) : \A x \in s : SumsOf(f, 1..n)[s] = f[x] + SumsOf(f, 1..n)[s \ {x}]
  BY <1>1, SumsFacts
<1>7. \A k \in 1..n : Upto(f, k) = f[k] + Upto(f, k - 1)
  <2> TAKE k \in 1..n
  <2>1. 1..k \in SUBSET (1..n) /\ k \in 1..k /\ (1..k) \ {k} = 1..(k-1)
    BY <1>3, <1>4
  <2>2. SumsOf(f, 1..n)[1..k] = f[k] + SumsOf(f, 1..n)[(1..k) \ {k}]
    BY <1>6, <2>1
  <2> QED  BY <1>1, <2>1, <2>2 DEF Upto
<1>8. \A k \in 0..n-1 : k + 1 \in 1..n /\ (k + 1) - 1 = k
  OBVIOUS
<1> HIDE DEF Upto
<1> QED  BY <1>5, <1>7, <1>8

\* Sums of numbers that are not negative grow.
LEMMA UptoGrows ==
  ASSUME NEW n \in Nat, NEW f \in [1..n -> Nat]
  PROVE  \A m \in 0..n : \A k \in 0..m : Upto(f, k) <= Upto(f, m)
<1> DEFINE T == {m \in Nat : m <= n => \A k \in 0..m : Upto(f, k) <= Upto(f, m)}
<1>0. f \in [1..n -> Int]
  OBVIOUS
<1>1. /\ \A k \in 0..n : Upto(f, k) \in Int
      /\ \A k \in 0..n-1 : Upto(f, k + 1) = f[k + 1] + Upto(f, k)
  BY <1>0, UptoFacts
<1>2. 0 \in T
  BY <1>1
<1>3. ASSUME NEW m \in T  PROVE m + 1 \in T
  <2> SUFFICES ASSUME m + 1 <= n, NEW k \in 0..m+1  PROVE Upto(f, k) <= Upto(f, m + 1)
    OBVIOUS
  <2>1. Upto(f, m + 1) = f[m + 1] + Upto(f, m) /\ f[m + 1] \in Nat /\ Upto(f, m) \in Int
    BY <1>1
  <2>2. CASE k \in 0..m
    <3>1. Upto(f, k) <= Upto(f, m) /\ Upto(f, k) \in Int
      BY <1>1, <1>3, <2>2
    <3> QED  BY <2>1, <3>1
  <2>3. CASE k = m + 1
    BY <1>1, <2>3
  <2> QED  BY <2>2, <2>3
<1>4. T = Nat
  <2> HIDE DEF T
  <2> QED  BY <1>2, <1>3, Induction DEF T
<1> QED  BY <1>4

\* The sum of a sum is the sum of the sums.
LEMMA TotalAdds ==
  ASSUME NEW n \in Nat, NEW f \in [1..n -> Int], NEW g \in [1..n -> Int], NEW e \in [1..n -> Int],
         \A k \in 1..n : e[k] = f[k] + g[k]
  PROVE  Total(e) = Total(f) + Total(g)
<1> DEFINE T == {m \in Nat : m <= n => Upto(e, m) = Upto(f, m) + Upto(g, m)}
<1>1. \A h \in [1..n -> Int] :
        /\ Upto(h, 0) = 0 /\ Total(h) = Upto(h, n)
        /\ \A k \in 0..n : Upto(h, k) \in Int
        /\ \A k \in 0..n-1 : Upto(h, k + 1) = h[k + 1] + Upto(h, k)
  BY UptoFacts
<1>2. 0 \in T
  <2>1. Upto(e, 0) = 0 /\ Upto(f, 0) = 0 /\ Upto(g, 0) = 0
    BY <1>1
  <2> QED  BY <2>1
<1>3. ASSUME NEW m \in T  PROVE m + 1 \in T
  <2> SUFFICES ASSUME m + 1 <= n  PROVE Upto(e, m + 1) = Upto(f, m + 1) + Upto(g, m + 1)
    OBVIOUS
  <2>1. /\ m \in 0..n-1 /\ m \in 0..n /\ m + 1 \in 1..n
        /\ Upto(e, m) = Upto(f, m) + Upto(g, m)
    BY <1>3
  <2>2. e[m + 1] = f[m + 1] + g[m + 1] /\ f[m + 1] \in Int /\ g[m + 1] \in Int
    BY <2>1
  <2>3. Upto(f, m) \in Int /\ Upto(g, m) \in Int
    BY <1>1, <2>1
  <2>4. /\ Upto(e, m + 1) = e[m + 1] + Upto(e, m)
        /\ Upto(f, m + 1) = f[m + 1] + Upto(f, m)
        /\ Upto(g, m + 1) = g[m + 1] + Upto(g, m)
    BY <1>1, <2>1
  <2> HIDE DEF T
  <2> QED  BY <2>1, <2>2, <2>3, <2>4
<1>4. T = Nat
  <2> HIDE DEF T
  <2> QED  BY <1>2, <1>3, Induction DEF T
<1>5. Upto(e, n) = Upto(f, n) + Upto(g, n)
  BY <1>4
<1> HIDE DEF T
<1> QED  BY <1>1, <1>5

\* A sum is larger by what one of its numbers is larger, when no other is smaller.
LEMMA TotalExceeds ==
  ASSUME NEW n \in Nat, NEW f \in [1..n -> Int], NEW g \in [1..n -> Int],
         \A k \in 1..n : f[k] <= g[k], NEW i \in 1..n
  PROVE  Total(f) + (g[i] - f[i]) <= Total(g)
<1> DEFINE More(m) == IF i <= m THEN g[i] - f[i] ELSE 0
           T == {m \in Nat : m <= n => Upto(f, m) + More(m) <= Upto(g, m)}
<1>1. /\ Upto(f, 0) = 0 /\ Total(f) = Upto(f, n) /\ Upto(g, 0) = 0 /\ Total(g) = Upto(g, n)
      /\ \A k \in 0..n : Upto(f, k) \in Int /\ Upto(g, k) \in Int
      /\ \A k \in 0..n-1 : /\ Upto(f, k + 1) = f[k + 1] + Upto(f, k)
                           /\ Upto(g, k + 1) = g[k + 1] + Upto(g, k)
  BY UptoFacts
<1>2. 0 \in T
  BY <1>1
<1>3. ASSUME NEW m \in T  PROVE m + 1 \in T
  <2>0. m \in Nat /\ m + 1 \in Nat /\ (m <= n => Upto(f, m) + More(m) <= Upto(g, m))
    BY <1>3
  <2> SUFFICES ASSUME m + 1 <= n  PROVE Upto(f, m + 1) + More(m + 1) <= Upto(g, m + 1)
    BY <2>0
  <2> HIDE DEF T
  <2>1. /\ m \in 0..n-1 /\ m \in 0..n /\ m + 1 \in 1..n
        /\ Upto(f, m) + More(m) <= Upto(g, m)
    BY <2>0
  <2>2. PICK u, v, c, d, p, q \in Int :
          /\ u = Upto(f, m) /\ v = Upto(g, m) /\ c = f[m + 1] /\ d = g[m + 1] /\ p = f[i] /\ q = g[i]
    BY <1>1, <2>1
  <2>3. c <= d /\ p <= q /\ (i = m + 1 => c = p /\ d = q)
    BY <2>1, <2>2
  <2>4. Upto(f, m + 1) = c + u /\ Upto(g, m + 1) = d + v
    BY <1>1, <2>1, <2>2
  <2>5. /\ More(m) = IF i <= m THEN q - p ELSE 0
        /\ More(m + 1) = IF i <= m + 1 THEN q - p ELSE 0
    BY <2>2
  <2>6. u + More(m) <= v
    BY <2>1, <2>2
  <2> HIDE DEF More
  <2>7. c + u + More(m + 1) <= d + v
    <3>1. CASE i <= m
      BY <2>0, <2>3, <2>5, <2>6, <3>1
    <3>2. CASE i = m + 1
      BY <2>0, <2>3, <2>5, <2>6, <3>2
    <3>3. CASE i > m + 1
      BY <2>0, <2>3, <2>5, <2>6, <3>3
    <3> QED  BY <2>0, <3>1, <3>2, <3>3
  <2> QED  BY <2>4, <2>7
<1>4. T = Nat
  <2> HIDE DEF T
  <2> QED  BY <1>2, <1>3, Induction DEF T
<1>5. Upto(f, n) + More(n) <= Upto(g, n)
  <2> HIDE DEF More
  <2>1. n \in T
    BY <1>4
  <2> QED  BY <2>1
<1>6. More(n) = g[i] - f[i]
  OBVIOUS
<1> HIDE DEF T, More
<1> QED  BY <1>1, <1>5, <1>6

\* A sum depends on the numbers it adds up only.
LEMMA SumsAgree ==
  ASSUME NEW R, IsFiniteSet(R), NEW f \in [R -> Int], NEW S, IsFiniteSet(S), NEW g \in [S -> Int],
         NEW A \in SUBSET R, A \in SUBSET S, \A x \in A : f[x] = g[x]
  PROVE  SumsOf(f, R)[A] = SumsOf(g, S)[A]
<1> DEFINE F == SumsOf(f, R)
           G == SumsOf(g, S)
           T == {n \in Nat : \A s \in SUBSET A : Cardinality(s) <= n => F[s] = G[s]}
<1>1. /\ F[{}] = 0 /\ \A s \in SUBSET R : \A x \in s : F[s] = f[x] + F[s \ {x}]
      /\ G[{}] = 0 /\ \A s \in SUBSET S : \A x \in s : G[s] = g[x] + G[s \ {x}]
  BY SumsFacts
<1> HIDE DEF F, G
<1>2. \A s \in SUBSET A : IsFiniteSet(s) /\ Cardinality(s) \in Nat
  BY FS_Subset, FS_CardinalityType
<1>3. 0 \in T
  <2>1. \A s \in SUBSET A : Cardinality(s) <= 0 => s = {}
    BY <1>2, FS_EmptySet
  <2> QED  BY <1>1, <2>1
<1>4. ASSUME NEW n \in T  PROVE n + 1 \in T
  <2> SUFFICES ASSUME NEW s \in SUBSET A, Cardinality(s) <= n + 1  PROVE F[s] = G[s]
    OBVIOUS
  <2>1. CASE s = {}
    BY <1>1, <2>1
  <2>2. CASE s # {}
    <3>1. PICK x \in s : TRUE
      BY <2>2
    <3>2. s \ {x} \in SUBSET A /\ Cardinality(s \ {x}) = Cardinality(s) - 1 /\ Cardinality(s) \in Nat
      BY <1>2, FS_RemoveElement
    <3>3. F[s \ {x}] = G[s \ {x}]
      BY <3>2
    <3>4. F[s] = f[x] + F[s \ {x}] /\ G[s] = g[x] + G[s \ {x}] /\ f[x] = g[x]
      BY <1>1
    <3> QED  BY <3>3, <3>4
  <2> QED  BY <2>1, <2>2
<1>5. T = Nat
  <2> HIDE DEF T
  <2> QED  BY <1>3, <1>4, Induction DEF T
<1>6. Cardinality(A) \in T
  BY <1>2, <1>5
<1> QED  BY <1>2, <1>6 DEF F, G

\* One number is taken out of a sum.
LEMMA TakeOut ==
  ASSUME NEW S, IsFiniteSet(S), NEW f \in [S -> Int], NEW s \in SUBSET S, NEW x \in s
  PROVE  /\ SumsOf(f, S)[s] = f[x] + SumsOf(f, S)[s \ {x}]
         /\ f[x] \in Int /\ SumsOf(f, S)[s \ {x}] \in Int /\ SumsOf(f, S)[s] \in Int
<1>1. s \ {x} \in SUBSET S /\ x \in S /\ f[x] \in Int
  OBVIOUS
<1>2. /\ \A t \in SUBSET S : SumsOf(f, S)[t] \in Int
      /\ SumsOf(f, S)[{}] = 0
      /\ \A t \in SUBSET S : \A y \in t : SumsOf(f, S)[t] = f[y] + SumsOf(f, S)[t \ {y}]
  BY SumsFacts
<1>3. SumsOf(f, S)[s] = f[x] + SumsOf(f, S)[s \ {x}]
  BY <1>2
<1> QED  BY <1>1, <1>2, <1>3

\* One more number is added.
LEMMA SumAppends ==
  ASSUME NEW S, IsFiniteSet(S), NEW m \in S, NEW g \in [S -> Int],
         NEW R, R = S \ {m}, NEW f \in [R -> Int], \A k \in R : f[k] = g[k]
  PROVE  /\ SumsOf(g, S)[S] = g[m] + SumsOf(f, R)[R]
         /\ g[m] \in Int /\ SumsOf(f, R)[R] \in Int
<1>1. IsFiniteSet(R) /\ R \in SUBSET R /\ R \in SUBSET S /\ S \in SUBSET S
  BY FS_Subset
<1>2. SumsOf(f, R)[R] = SumsOf(g, S)[R]
  BY <1>1, SumsAgree
<1>3. /\ SumsOf(g, S)[S] = g[m] + SumsOf(g, S)[S \ {m}]
      /\ g[m] \in Int /\ SumsOf(g, S)[S \ {m}] \in Int /\ SumsOf(g, S)[S] \in Int
  BY <1>1, TakeOut
<1> QED  BY <1>2, <1>3

LEMMA TotalAppends ==
  ASSUME NEW n \in Nat, NEW f \in [1..n -> Int]
  PROVE  \A g \in [1..n+1 -> Int] : (\A k \in 1..n : g[k] = f[k]) => Total(g) = Total(f) + g[n + 1]
<1> SUFFICES ASSUME NEW g \in [1..n+1 -> Int], \A k \in 1..n : g[k] = f[k]
             PROVE  Total(g) = Total(f) + g[n + 1]
  OBVIOUS
<1> DEFINE R == 1..n
           S == 1..n+1
<1>0. IsFiniteSet(S)
  BY FS_Interval
<1>1. /\ DOMAIN f = R /\ DOMAIN g = S /\ f \in [R -> Int] /\ g \in [S -> Int]
  OBVIOUS
<1>2. PICK m \in S : m = n + 1
  OBVIOUS
<1>3. R = S \ {m} /\ \A k \in R : f[k] = g[k]
  BY <1>2
<1> HIDE DEF R, S
<1>4. /\ SumsOf(g, S)[S] = g[m] + SumsOf(f, R)[R]
      /\ g[m] \in Int /\ SumsOf(f, R)[R] \in Int
  BY <1>0, <1>1, <1>3, SumAppends
<1>5. Total(g) = SumsOf(g, S)[S] /\ Total(f) = SumsOf(f, R)[R]
  BY <1>1, Zenon DEF Total
<1>6. Total(g) = g[m] + Total(f) /\ Total(f) \in Int
  BY <1>4, <1>5
<1> QED  BY <1>2, <1>4, <1>6

\* Two of the numbers change places.
LEMMA TotalSwaps ==
  ASSUME NEW S, IsFiniteSet(S), NEW f \in [S -> Int]
  PROVE  \A g \in [S -> Int] : \A a, b \in S :
           a # b /\ g[a] = f[b] /\ g[b] = f[a] /\ (\A k \in S : k # a /\ k # b => g[k] = f[k])
             => Total(g) = Total(f)
<1> SUFFICES ASSUME NEW g \in [S -> Int], NEW a \in S, NEW b \in S, a # b,
                    g[a] = f[b], g[b] = f[a], \A k \in S : k # a /\ k # b => g[k] = f[k]
             PROVE  Total(g) = Total(f)
  OBVIOUS
<1> DEFINE R == S \ {a}
           A == R \ {b}
<1>1. S \in SUBSET S /\ R \in SUBSET S /\ A \in SUBSET S /\ b \in R
  OBVIOUS
<1>2. SumsOf(f, S)[A] = SumsOf(g, S)[A]
  <2>1. \A k \in A : f[k] = g[k]
    OBVIOUS
  <2> HIDE DEF A
  <2> QED  BY <1>1, <2>1, SumsAgree
<1>3. ASSUME NEW h \in [S -> Int]
      PROVE  /\ SumsOf(h, S)[S] = h[a] + (h[b] + SumsOf(h, S)[A])
             /\ h[a] \in Int /\ h[b] \in Int /\ SumsOf(h, S)[A] \in Int
  <2>1. /\ SumsOf(h, S)[S] = h[a] + SumsOf(h, S)[S \ {a}]
        /\ h[a] \in Int /\ SumsOf(h, S)[S \ {a}] \in Int /\ SumsOf(h, S)[S] \in Int
    BY <1>1, TakeOut
  <2> HIDE DEF R
  <2>2. /\ SumsOf(h, S)[R] = h[b] + SumsOf(h, S)[R \ {b}]
        /\ h[b] \in Int /\ SumsOf(h, S)[R \ {b}] \in Int /\ SumsOf(h, S)[R] \in Int
    BY <1>1, TakeOut
  <2> QED  BY <2>1, <2>2 DEF R
<1>4. /\ SumsOf(f, S)[S] = f[a] + (f[b] + SumsOf(f, S)[A])
      /\ f[a] \in Int /\ f[b] \in Int /\ SumsOf(f, S)[A] \in Int
  BY <1>3
<1>5. SumsOf(g, S)[S] = g[a] + (g[b] + SumsOf(g, S)[A])
  BY <1>3
<1> HIDE DEF A
<1>6. SumsOf(g, S)[S] = SumsOf(f, S)[S]
  BY <1>2, <1>4, <1>5
<1>7. DOMAIN f = S /\ DOMAIN g = S
  OBVIOUS
<1> QED  BY <1>6, <1>7, Zenon DEF Total

\* A sum changes by what one of its numbers changes.
LEMMA TotalDiffers ==
  ASSUME NEW S, IsFiniteSet(S), NEW f \in [S -> Int], NEW x \in S
  PROVE  \A g \in [S -> Int] :
           (\A k \in S : k # x => g[k] = f[k]) =>
             Total(f) \in Int /\ Total(g) \in Int /\ Total(g) = Total(f) + (g[x] - f[x])
<1> SUFFICES ASSUME NEW g \in [S -> Int], \A k \in S : k # x => g[k] = f[k]
             PROVE  Total(f) \in Int /\ Total(g) \in Int /\ Total(g) = Total(f) + (g[x] - f[x])
  OBVIOUS
<1> DEFINE A == S \ {x}
<1>1. /\ SumsOf(f, S)[S] = f[x] + SumsOf(f, S)[A]
      /\ f[x] \in Int /\ SumsOf(f, S)[A] \in Int /\ SumsOf(f, S)[S] \in Int
  BY TakeOut
<1>2. /\ SumsOf(g, S)[S] = g[x] + SumsOf(g, S)[A]
      /\ g[x] \in Int /\ SumsOf(g, S)[A] \in Int /\ SumsOf(g, S)[S] \in Int
  BY TakeOut
<1>3. SumsOf(f, S)[A] = SumsOf(g, S)[A]
  <2>1. A \in SUBSET S /\ \A k \in A : f[k] = g[k]
    OBVIOUS
  <2> HIDE DEF A
  <2> QED  BY <2>1, SumsAgree
<1>4. Total(f) = SumsOf(f, S)[S] /\ Total(g) = SumsOf(g, S)[S]
  BY DEF Total
<1> HIDE DEF A
<1> QED  BY <1>1, <1>2, <1>3, <1>4

LEMMA TotalAddsOne ==
  ASSUME NEW S, IsFiniteSet(S), NEW f \in [S -> Int], NEW x \in S
  PROVE  \A g \in [S -> Int] :
           g[x] = f[x] + 1 /\ (\A k \in S : k # x => g[k] = f[k]) => Total(g) = Total(f) + 1
<1> SUFFICES ASSUME NEW g \in [S -> Int], g[x] = f[x] + 1, \A k \in S : k # x => g[k] = f[k]
             PROVE  Total(g) = Total(f) + 1
  OBVIOUS
<1>1. Total(f) \in Int /\ Total(g) \in Int /\ Total(g) = Total(f) + (g[x] - f[x])
  BY TotalDiffers
<1>2. f[x] \in Int
  OBVIOUS
<1> QED  BY <1>1, <1>2

\* A sum of numbers that are not negative is not negative.
LEMMA TotalIsNat == ASSUME NEW n \in Nat, NEW f \in [1..n -> Nat]  PROVE Total(f) \in Nat
<1>1. Total(f) = Upto(f, n) /\ Upto(f, 0) = 0 /\ Upto(f, n) \in Int
  <2>1. f \in [1..n -> Int] /\ n \in 0..n
    OBVIOUS
  <2> QED  BY <2>1, UptoFacts
<1>2. Upto(f, 0) <= Upto(f, n)
  BY UptoGrows
<1> QED  BY <1>1, <1>2

LEMMA TotalOfNothing ==
  ASSUME NEW n \in Nat, NEW f \in [1..n -> Int], \A k \in 1..n : f[k] = 0
  PROVE  Total(f) = 0
<1>1. Total(f) = Total(f) + Total(f)
  <2>1. \A k \in 1..n : f[k] = f[k] + f[k]
    OBVIOUS
  <2> QED  BY <2>1, TotalAdds
<1>2. Total(f) \in Int
  BY UptoFacts
<1> QED  BY <1>1, <1>2
=============================================================================
