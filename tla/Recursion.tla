------------------------------ MODULE Recursion ------------------------------
(***************************************************************************)
(* Functions defined by recursion over a measure, as facts about sets, so  *)
(* that they can be used for the folds of the community modules and for    *)
(* the recursive functions of the specifications; and from them what the   *)
(* sum of a function over a finite set is, as MapThenSumSet folds it.      *)
(***************************************************************************)
EXTENDS FiniteSetsExt, Integers, FiniteSetTheorems, WellFoundedInduction, TLAPS

(* A set of numbers that is not empty has a least one.                     *)
LEMMA LeastNumber ==
  ASSUME NEW B, B \subseteq Nat, B # {}
  PROVE  \E n \in B : \A k \in B : n <= k
<1> DEFINE L == OpToRel(<, Nat)
<1>1. IsWellFoundedOn(L, Nat)
  BY NatLessThanWellFounded, Zenon
<1>2. \A b, c \in Nat : <<c, b>> \notin L => b <= c
  BY DEF OpToRel
<1> HIDE DEF L
<1>3. \E b \in B : \A c \in B : <<c, b>> \notin L
  BY <1>1, WFMin, Zenon
<1> QED
  BY <1>2, <1>3

(* What fails nowhere for the first time never fails.                      *)
LEMMA NoFirstFailure ==
  ASSUME NEW D, NEW m \in [D -> Nat], NEW B, B \subseteq D,
         \A d \in B : \E e \in B : m[e] < m[d]
  PROVE  B = {}
<1> SUFFICES ASSUME B # {} PROVE FALSE
  OBVIOUS
<1> DEFINE M == {m[d] : d \in B}
<1>1. M \subseteq Nat /\ M # {}
  OBVIOUS
<1>2. PICK n \in M : \A k \in M : n <= k
  BY <1>1, LeastNumber
<1>3. PICK d \in B : m[d] = n
  OBVIOUS
<1>4. PICK e \in B : m[e] < m[d]
  OBVIOUS
<1>5. m[e] \in M /\ m[e] \in Nat /\ n \in Nat
  OBVIOUS
<1> QED
  BY <1>2, <1>3, <1>4, <1>5

(* What holds of 0, and of each number up to n if of the one before.       *)
LEMMA CountsUp ==
  ASSUME NEW n \in Nat, NEW P, 0 \in P, \A k \in 0..(n - 1) : k \in P => k + 1 \in P
  PROVE  \A k \in 0..n : k \in P
<1> DEFINE D == 0..n
           m == [k \in D |-> k]
           B == {k \in D : k \notin P}
<1>1. \A k \in B : \E e \in B : m[e] < m[k]
  <2> SUFFICES ASSUME NEW k \in B, k - 1 \notin B PROVE FALSE
    OBVIOUS
  <2>1. k - 1 \in 0..(n - 1) /\ (k - 1) + 1 = k /\ k - 1 \in P
    OBVIOUS
  <2> QED
    BY <2>1
<1>2. B \subseteq D /\ m \in [D -> Nat]
  OBVIOUS
<1>3. B = {}
  <2> HIDE DEF B, D, m
  <2> QED
    BY <1>1, <1>2, NoFirstFailure
<1> QED
  BY <1>3

(* T[d] is the set the value at d is in, H[<<d, g>>] the value at d, from  *)
(* those of g at smaller arguments.                                        *)
Family(D, T) == {g \in [D -> UNION {T[d] : d \in D}] : \A d \in D : g[d] \in T[d]}
Agree(D, m, d, g, h) == \A e \in D : m[e] < m[d] => g[e] = h[e]
RecursionOn(D, m, T, H) ==
  /\ m \in [D -> Nat]
  /\ \A d \in D : T[d] # {}
  /\ \A d \in D : \A g \in Family(D, T) : H[<<d, g>>] \in T[d]
  /\ \A d \in D : \A g, h \in Family(D, T) : Agree(D, m, d, g, h) => H[<<d, g>>] = H[<<d, h>>]
SolvedBy(D, H, g) == \A d \in D : g[d] = H[<<d, g>>]

LEMMA InFamily ==
  ASSUME NEW D, NEW T, NEW g, g = [d \in D |-> g[d]], \A d \in D : g[d] \in T[d]
  PROVE  g \in Family(D, T)
<1>1. \A d \in D : g[d] \in UNION {T[e] : e \in D}
  OBVIOUS
<1> QED
  BY <1>1 DEF Family

LEMMA OfFamily ==
  ASSUME NEW D, NEW T, NEW g \in Family(D, T)
  PROVE  g = [d \in D |-> g[d]] /\ \A d \in D : g[d] \in T[d]
BY DEF Family

LEMMA RecursiveFunction ==
  ASSUME NEW D, NEW m, NEW T, NEW H, RecursionOn(D, m, T, H)
  PROVE  \E g \in Family(D, T) : SolvedBy(D, H, g)
<1> DEFINE F == Family(D, T)
           Solves(g, n) == \A d \in D : m[d] < n => g[d] = H[<<d, g>>]
           Unsolved == {n \in Nat : ~\E g \in F : Solves(g, n)}
<1>1. /\ m \in [D -> Nat] /\ \A d \in D : T[d] # {}
      /\ \A d \in D : \A g \in F : H[<<d, g>>] \in T[d]
      /\ \A d \in D : \A g, h \in F : Agree(D, m, d, g, h) => H[<<d, g>>] = H[<<d, h>>]
  BY DEF RecursionOn
<1> HIDE DEF F
<1>2. \A g : g = [d \in D |-> g[d]] /\ (\A d \in D : g[d] \in T[d]) => g \in F
  BY InFamily DEF F
<1>3. \A g \in F : g = [d \in D |-> g[d]] /\ \A d \in D : g[d] \in T[d]
  BY OfFamily DEF F
<1>4. Unsolved = {}
  <2> SUFFICES ASSUME Unsolved # {} PROVE FALSE
    OBVIOUS
  <2>1. PICK n \in Unsolved : \A k \in Unsolved : n <= k
    BY LeastNumber
  <2>2. n # 0
    <3> DEFINE g == [d \in D |-> CHOOSE t \in T[d] : TRUE]
    <3>1. \A d \in D : g[d] \in T[d]
      BY <1>1
    <3>2. g \in F
      <4> DEFINE c(d) == CHOOSE t \in T[d] : TRUE
      <4>1. g = [d \in D |-> g[d]]
        OBVIOUS
      <4> HIDE DEF g
      <4> QED
        BY <1>2, <3>1, <4>1
    <3>3. \A d \in D : ~(m[d] < 0)
      BY <1>1
    <3>4. \A h \in F : Solves(h, 0)
      BY <3>3
    <3> HIDE DEF g
    <3>5. 0 \notin Unsolved
      BY <3>2, <3>4
    <3> HIDE DEF Unsolved
    <3> QED
      BY <3>5
  <2>3. n \in Nat /\ n - 1 \in Nat /\ n - 1 \notin Unsolved
    <3>1. n \in Nat
      OBVIOUS
    <3> HIDE DEF Unsolved
    <3> QED
      BY <2>1, <2>2, <3>1
  <2>4. PICK g \in F : Solves(g, n - 1)
    BY <2>3
  <2> DEFINE h == [d \in D |-> IF m[d] < n - 1 THEN g[d] ELSE H[<<d, g>>]]
  <2>5. h \in F
    <3>1. \A d \in D : g[d] \in T[d] /\ H[<<d, g>>] \in T[d]
      BY <1>1, <1>3
    <3>2. h = [d \in D |-> h[d]] /\ \A d \in D : h[d] \in {g[d], H[<<d, g>>]}
      OBVIOUS
    <3> HIDE DEF h
    <3> QED
      BY <1>2, <3>1, <3>2
  <2>6. \A d \in D : m[d] < n => Agree(D, m, d, g, h)
    BY <1>1, <2>3 DEF Agree
  <2>7. \A d \in D : m[d] < n => H[<<d, g>>] = H[<<d, h>>]
    BY <1>1, <2>5, <2>6
  <2>8. \A d \in D : h[d] = H[<<d, g>>] \/ (m[d] < n - 1 /\ h[d] = g[d])
    OBVIOUS
  <2> HIDE DEF h
  <2>9. \A d \in D : m[d] < n => h[d] = H[<<d, h>>]
    BY <2>4, <2>7, <2>8
  <2> QED
    BY <2>1, <2>5, <2>9
<1>5. \A n \in Nat : \E g \in F : Solves(g, n)
  BY <1>4
<1>6. \A n, k \in Nat : \A g, h \in F : n <= k /\ Solves(g, n) /\ Solves(h, k) =>
         \A d \in D : m[d] < n => g[d] = h[d]
  <2> SUFFICES ASSUME NEW n \in Nat, NEW k \in Nat, NEW g \in F, NEW h \in F, n <= k,
                      Solves(g, n), Solves(h, k)
               PROVE  \A d \in D : m[d] < n => g[d] = h[d]
    OBVIOUS
  <2> DEFINE B == {d \in D : m[d] < n /\ g[d] # h[d]}
  <2>1. \A d \in B : \E e \in B : m[e] < m[d]
    <3> SUFFICES ASSUME NEW d \in B, \A e \in B : ~(m[e] < m[d]) PROVE FALSE
      OBVIOUS
    <3>1. \A e \in D : m[e] \in Nat
      BY <1>1
    <3>2. m[d] < n /\ m[d] < k /\ g[d] # h[d]
      BY <3>1
    <3>3. Agree(D, m, d, g, h)
      BY <3>1, <3>2 DEF Agree
    <3>4. H[<<d, g>>] = H[<<d, h>>]
      BY <1>1, <3>3
    <3> QED
      BY <3>2, <3>4
  <2>2. B = {}
    <3>1. B \subseteq D
      OBVIOUS
    <3> HIDE DEF B
    <3> QED
      BY <1>1, <2>1, <3>1, NoFirstFailure
  <2> QED
    BY <2>2
<1> DEFINE G == [n \in Nat |-> CHOOSE g \in F : Solves(g, n)]
<1>7. \A n \in Nat : G[n] \in F /\ Solves(G[n], n)
  BY <1>5
<1> DEFINE f == [d \in D |-> G[m[d] + 1][d]]
<1>8. \A d \in D : m[d] + 1 \in Nat /\ m[d] < m[d] + 1
  BY <1>1
<1>9. f \in F
  <2>1. \A d \in D : G[m[d] + 1] \in F
    BY <1>7, <1>8
  <2>2. \A d \in D : G[m[d] + 1][d] \in T[d]
    BY <1>3, <2>1
  <2> HIDE DEF G
  <2>3. f = [d \in D |-> f[d]] /\ \A d \in D : f[d] = G[m[d] + 1][d]
    OBVIOUS
  <2> HIDE DEF f
  <2> QED
    BY <1>2, <2>2, <2>3
<1>10. \A d \in D : f[d] = H[<<d, f>>]
  <2> TAKE d \in D
  <2> DEFINE g == G[m[d] + 1]
  <2>1. g \in F /\ Solves(g, m[d] + 1)
    BY <1>7, <1>8
  <2>2. f[d] = g[d] /\ g[d] = H[<<d, g>>]
    BY <1>8, <2>1
  <2>3. \A e \in D : m[e] < m[d] => f[e] = g[e]
    <3> SUFFICES ASSUME NEW e \in D, m[e] < m[d] PROVE f[e] = g[e]
      OBVIOUS
    <3>1. m[e] + 1 \in Nat /\ m[d] + 1 \in Nat /\ m[e] + 1 <= m[d] + 1 /\ m[e] < m[e] + 1
      BY <1>1
    <3>2. G[m[e] + 1] \in F /\ Solves(G[m[e] + 1], m[e] + 1)
      BY <1>7, <3>1
    <3>3. f[e] = G[m[e] + 1][e]
      OBVIOUS
    <3> HIDE DEF f, Solves, G
    <3>4. G[m[e] + 1][e] = g[e]
      BY <1>6, <2>1, <3>1, <3>2
    <3> QED
      BY <3>3, <3>4
  <2>4. Agree(D, m, d, g, f)
    BY <2>3 DEF Agree
  <2> HIDE DEF f, g, G
  <2>5. H[<<d, g>>] = H[<<d, f>>]
    BY <1>1, <1>9, <2>1, <2>4
  <2> QED
    BY <2>2, <2>5
<1> QED
  BY <1>9, <1>10 DEF SolvedBy, F

------------------------------------------------------------------------------
(* The sum of a function over its domain, as MapThenSumSet folds it.       *)
Total(F) == MapThenSumSet(LAMBDA x : F[x], DOMAIN F)
TotalOver(F, S) == Total([x \in S |-> F[x]])
(* The sums of F over the subsets of S.                                    *)
Sums(F, S, sum) ==
  /\ sum \in [SUBSET S -> Int] /\ sum[{}] = 0
  /\ \A T \in SUBSET S : \A x \in T : sum[T] = F[x] + sum[T \ {x}]

(* The fold takes one element after the other as CHOOSE has it.            *)
OneOf(s) == CHOOSE x \in s : TRUE
Folded(F, S, sum) ==
  /\ sum \in [SUBSET S -> Int]
  /\ \A s \in SUBSET S : sum[s] = IF s = {} THEN 0 ELSE F[OneOf(s)] + sum[s \ {OneOf(s)}]

LEMMA TotalIsFold ==
  ASSUME NEW S, IsFiniteSet(S), NEW F \in [S -> Int]
  PROVE  \E sum : Total(F) = sum[S] /\ Folded(F, S, sum)
<1> DEFINE D == SUBSET S
           m == [s \in D |-> Cardinality(s)]
           T == [s \in D |-> Int]
           c(s) == CHOOSE x \in s : TRUE
           H == [p \in D \X Family(D, T) |-> IF p[1] = {} THEN 0 ELSE F[c(p[1])] + p[2][p[1] \ {c(p[1])}]]
<1>1. m \in [D -> Nat]
  BY FS_Subset, FS_CardinalityType
<1>2. \A s \in D : s # {} => c(s) \in s /\ s \ {c(s)} \in D /\ F[c(s)] \in Int
  OBVIOUS
<1>3. \A s \in D : s # {} => m[s \ {c(s)}] < m[s]
  <2> SUFFICES ASSUME NEW s \in D, s # {} PROVE m[s \ {c(s)}] < m[s]
    OBVIOUS
  <2>1. IsFiniteSet(s) /\ c(s) \in s /\ s \ {c(s)} \in D
    BY <1>2, FS_Subset
  <2>2. Cardinality(s \ {c(s)}) = Cardinality(s) - 1 /\ Cardinality(s) \in Nat
    BY <2>1, FS_RemoveElement, FS_CardinalityType
  <2> HIDE DEF c
  <2> QED
    BY <2>1, <2>2
<1>4. \A s \in D : \A g \in Family(D, T) :
         H[<<s, g>>] = IF s = {} THEN 0 ELSE F[c(s)] + g[s \ {c(s)}]
  <2> HIDE DEF c, D, m, T
  <2> QED
    OBVIOUS
<1> HIDE DEF m, c, H
<1>5. \A g \in Family(D, T) : \A s \in D : g[s] \in Int
  <2>1. \A s \in D : T[s] = Int
    OBVIOUS
  <2> HIDE DEF D, T
  <2> QED
    BY <2>1, OfFamily
<1>6. \A s \in D : \A g \in Family(D, T) : H[<<s, g>>] \in T[s]
  <2> TAKE s \in D
  <2> TAKE g \in Family(D, T)
  <2>1. T[s] = Int /\ 0 \in Int
    OBVIOUS
  <2>2. s # {} => F[c(s)] \in Int /\ g[s \ {c(s)}] \in Int
    BY <1>2, <1>5
  <2>3. H[<<s, g>>] = IF s = {} THEN 0 ELSE F[c(s)] + g[s \ {c(s)}]
    BY <1>4
  <2> HIDE DEF T, D
  <2> QED
    BY <2>1, <2>2, <2>3
<1>7. \A s \in D : \A g, h \in Family(D, T) : Agree(D, m, s, g, h) => H[<<s, g>>] = H[<<s, h>>]
  <2> TAKE s \in D
  <2> TAKE g, h \in Family(D, T)
  <2> HAVE Agree(D, m, s, g, h)
  <2>1. s # {} => g[s \ {c(s)}] = h[s \ {c(s)}]
    BY <1>2, <1>3 DEF Agree
  <2>2. /\ H[<<s, g>>] = IF s = {} THEN 0 ELSE F[c(s)] + g[s \ {c(s)}]
        /\ H[<<s, h>>] = IF s = {} THEN 0 ELSE F[c(s)] + h[s \ {c(s)}]
    BY <1>4
  <2> QED
    BY <2>1, <2>2
<1>8. \E g \in Family(D, T) : SolvedBy(D, H, g)
  <2>1. \A s \in D : T[s] # {}
    OBVIOUS
  <2> HIDE DEF D, T
  <2>2. RecursionOn(D, m, T, H)
    BY <1>1, <1>6, <1>7, <2>1, Zenon DEF RecursionOn
  <2> QED
    BY <2>2, RecursiveFunction, Zenon
<1>9. PICK g \in Family(D, T) : \A s \in D : g[s] = IF s = {} THEN 0 ELSE F[c(s)] + g[s \ {c(s)}]
  BY <1>4, <1>8 DEF SolvedBy
<1> DEFINE Iterates(h) == h = [s \in D |-> IF s = {} THEN 0 ELSE F[c(s)] + h[s \ {c(s)}]]
           sum == CHOOSE h : Iterates(h)
<1>10. Iterates(sum)
  <2>1. g = [s \in D |-> g[s]]
    <3> HIDE DEF D, T
    <3> QED
      BY OfFamily
  <2>2. Iterates(g)
    BY <1>9, <2>1
  <2> QED
    BY <2>2
<1>11. Total(F) = sum[S]
  <2>1. DOMAIN F = S
    OBVIOUS
  <2>2. MapThenSumSet(LAMBDA x : F[x], S) = sum[S]
    BY Zenon DEF MapThenSumSet, MapThenFoldSet, c
  <2> QED
    BY <2>1, <2>2 DEF Total
<1> DEFINE B == {s \in D : sum[s] \notin Int}
<1>12. B = {}
  <2>1. \A s \in B : \E e \in B : m[e] < m[s]
    <3> SUFFICES ASSUME NEW s \in B PROVE \E e \in B : m[e] < m[s]
      OBVIOUS
    <3>1. s \in D /\ sum[s] \notin Int
      OBVIOUS
    <3>2. sum[s] = IF s = {} THEN 0 ELSE F[c(s)] + sum[s \ {c(s)}]
      BY <1>10, <3>1
    <3> HIDE DEF sum
    <3>3. s # {} /\ sum[s \ {c(s)}] \notin Int
      BY <1>2, <3>1, <3>2
    <3> QED
      BY <1>2, <1>3, <3>1, <3>3
  <2> HIDE DEF D, B
  <2>2. B \subseteq D
    BY DEF B
  <2> QED
    BY <1>1, <2>1, <2>2, NoFirstFailure
<1>13. sum = [s \in D |-> sum[s]] /\ \A s \in D : sum[s] = IF s = {} THEN 0 ELSE F[c(s)] + sum[s \ {c(s)}]
  <2>1. sum = [s \in D |-> IF s = {} THEN 0 ELSE F[c(s)] + sum[s \ {c(s)}]]
    BY <1>10
  <2> HIDE DEF sum
  <2> QED
    BY <2>1
<1>14. sum \in [D -> Int]
  <2>1. \A s \in D : sum[s] \in Int
    BY <1>12
  <2> HIDE DEF sum, D
  <2> QED
    BY <1>13, <2>1
<1> HIDE DEF sum
<1> QED
  BY <1>11, <1>13, <1>14, Zenon DEF c, D, OneOf, Folded

(* Two functions of the subsets of S are ordered as their growth is.       *)
LEMMA GrowsSlower ==
  ASSUME NEW S, IsFiniteSet(S), NEW u \in [SUBSET S -> Int], NEW v \in [SUBSET S -> Int],
         u[{}] <= v[{}],
         \A T \in SUBSET S : T # {} => \E x \in T : u[T] - u[T \ {x}] <= v[T] - v[T \ {x}]
  PROVE  \A T \in SUBSET S : u[T] <= v[T]
<1> DEFINE D == SUBSET S
           m == [T \in D |-> Cardinality(T)]
           B == {T \in D : ~(u[T] <= v[T])}
<1>1. m \in [D -> Nat]
  BY FS_Subset, FS_CardinalityType
<1>2. \A T \in B : \E e \in B : m[e] < m[T]
  <2> SUFFICES ASSUME NEW T \in B PROVE \E e \in B : m[e] < m[T]
    OBVIOUS
  <2>1. T \in D /\ ~(u[T] <= v[T]) /\ T # {}
    OBVIOUS
  <2>2. PICK x \in T : u[T] - u[T \ {x}] <= v[T] - v[T \ {x}]
    BY <2>1
  <2>3. T \ {x} \in D
    BY <2>1
  <2>4. u[T] \in Int /\ v[T] \in Int /\ u[T \ {x}] \in Int /\ v[T \ {x}] \in Int
    BY <2>1, <2>3
  <2>5. T \ {x} \in B
    BY <2>1, <2>2, <2>3, <2>4
  <2>6. IsFiniteSet(T)
    BY <2>1, FS_Subset
  <2>7. Cardinality(T \ {x}) = Cardinality(T) - 1 /\ Cardinality(T) \in Nat
    BY <2>6, FS_RemoveElement, FS_CardinalityType
  <2>8. m[T \ {x}] < m[T]
    BY <2>1, <2>3, <2>7
  <2> QED
    BY <2>5, <2>8
<1>3. B \subseteq D
  OBVIOUS
<1>4. B = {}
  <2> HIDE DEF B, D, m
  <2> QED
    BY <1>1, <1>2, <1>3, NoFirstFailure
<1> QED
  BY <1>4

LEMMA SumsExist ==
  ASSUME NEW S, IsFiniteSet(S), NEW F \in [S -> Int]
  PROVE  \E sum : Sums(F, S, sum) /\ \A T \in SUBSET S : TotalOver(F, T) = sum[T]
<1>1. \A s \in SUBSET S : s # {} => OneOf(s) \in s
  BY DEF OneOf
<1>2. PICK sum : Folded(F, S, sum)
  BY TotalIsFold
<1>3. /\ sum \in [SUBSET S -> Int]
      /\ \A s \in SUBSET S : sum[s] = IF s = {} THEN 0 ELSE F[OneOf(s)] + sum[s \ {OneOf(s)}]
  BY <1>2 DEF Folded
<1>4. \A T \in SUBSET S : TotalOver(F, T) = sum[T]
  <2> TAKE T \in SUBSET S
  <2> DEFINE G == [x \in T |-> F[x]]
  <2>1. IsFiniteSet(T) /\ G \in [T -> Int]
    BY FS_Subset
  <2>2. PICK u : Total(G) = u[T] /\ Folded(G, T, u)
    <3> HIDE DEF G
    <3> QED
      BY <2>1, TotalIsFold
  <2>3. /\ u \in [SUBSET T -> Int]
        /\ \A s \in SUBSET T : u[s] = IF s = {} THEN 0 ELSE G[OneOf(s)] + u[s \ {OneOf(s)}]
    BY <2>2 DEF Folded
  <2> DEFINE v == [s \in SUBSET T |-> sum[s]]
  <2>4. u \in [SUBSET T -> Int] /\ v \in [SUBSET T -> Int] /\ u[{}] = v[{}]
    BY <1>3, <2>3
  <2>5. \A s \in SUBSET T : s # {} => OneOf(s) \in s /\ u[s] - u[s \ {OneOf(s)}] = v[s] - v[s \ {OneOf(s)}]
    <3> SUFFICES ASSUME NEW s \in SUBSET T, s # {}
                 PROVE  OneOf(s) \in s /\ u[s] - u[s \ {OneOf(s)}] = v[s] - v[s \ {OneOf(s)}]
      OBVIOUS
    <3>1. s \in SUBSET S /\ OneOf(s) \in s /\ s \ {OneOf(s)} \in SUBSET T /\ G[OneOf(s)] = F[OneOf(s)]
      BY <1>1
    <3>2. u[s] = G[OneOf(s)] + u[s \ {OneOf(s)}]
      BY <2>3
    <3>3. v[s] = F[OneOf(s)] + v[s \ {OneOf(s)}]
      BY <1>3, <3>1
    <3>4. u[s \ {OneOf(s)}] \in Int /\ v[s \ {OneOf(s)}] \in Int /\ F[OneOf(s)] \in Int
      BY <2>4, <3>1
    <3> HIDE DEF G, v
    <3> QED
      BY <3>1, <3>2, <3>3, <3>4
  <2> HIDE DEF v
  <2>6. \A s \in SUBSET T : s # {} => \E x \in s : /\ u[s] - u[s \ {x}] <= v[s] - v[s \ {x}]
                                                  /\ v[s] - v[s \ {x}] <= u[s] - u[s \ {x}]
    <3> SUFFICES ASSUME NEW s \in SUBSET T, s # {}
                 PROVE  \E x \in s : /\ u[s] - u[s \ {x}] <= v[s] - v[s \ {x}]
                                     /\ v[s] - v[s \ {x}] <= u[s] - u[s \ {x}]
      OBVIOUS
    <3>1. OneOf(s) \in s /\ u[s] - u[s \ {OneOf(s)}] = v[s] - v[s \ {OneOf(s)}]
      BY <2>5
    <3>2. s \ {OneOf(s)} \in SUBSET T
      OBVIOUS
    <3>3. v[s] \in Int /\ v[s \ {OneOf(s)}] \in Int
      BY <2>4, <3>2
    <3> DEFINE y == OneOf(s)
    <3>4. y \in s /\ v[s] - v[s \ {y}] \in Int /\ u[s] - u[s \ {y}] = v[s] - v[s \ {y}]
      BY <3>1, <3>3
    <3> HIDE DEF y
    <3>5. u[s] - u[s \ {y}] <= v[s] - v[s \ {y}] /\ v[s] - v[s \ {y}] <= u[s] - u[s \ {y}]
      BY <3>4
    <3> QED
      BY <3>4, <3>5
  <2>7. \A s \in SUBSET T : u[s] <= v[s]
    <3>1. u[{}] <= v[{}]
      BY <2>4
    <3> QED
      BY <2>1, <2>4, <2>6, <3>1, GrowsSlower
  <2>8. \A s \in SUBSET T : v[s] <= u[s]
    <3>1. v[{}] <= u[{}]
      BY <2>4
    <3> QED
      BY <2>1, <2>4, <2>6, <3>1, GrowsSlower
  <2>9. u[T] = v[T]
    BY <2>4, <2>7, <2>8
  <2>10. v[T] = sum[T]
    BY DEF v
  <2> QED
    BY <2>2, <2>9, <2>10 DEF TotalOver
<1>5. \A T \in SUBSET S : \A x \in T : sum[T] = F[x] + sum[T \ {x}]
  <2> DEFINE D == SUBSET S
             m == [T \in D |-> Cardinality(T)]
             Even(T) == \A x \in T : sum[T] = F[x] + sum[T \ {x}]
             B == {T \in D : ~Even(T)}
  <2>1. m \in [D -> Nat]
    BY FS_Subset, FS_CardinalityType
  <2>2. \A T \in D : \A x \in T : T \ {x} \in D /\ m[T \ {x}] < m[T]
    <3> SUFFICES ASSUME NEW T \in D, NEW x \in T PROVE T \ {x} \in D /\ m[T \ {x}] < m[T]
      OBVIOUS
    <3>1. IsFiniteSet(T) /\ T \ {x} \in D
      BY FS_Subset
    <3>2. Cardinality(T \ {x}) = Cardinality(T) - 1 /\ Cardinality(T) \in Nat
      BY <3>1, FS_RemoveElement, FS_CardinalityType
    <3> QED
      BY <3>1, <3>2
  <2> HIDE DEF m
  <2>3. \A T \in B : \E e \in B : m[e] < m[T]
    <3> SUFFICES ASSUME NEW T \in B, \A e \in B : ~(m[e] < m[T]) PROVE FALSE
      OBVIOUS
    <3>1. PICK x \in T : sum[T] # F[x] + sum[T \ {x}]
      OBVIOUS
    <3> DEFINE y == OneOf(T)
    <3>2. T \in D /\ y \in T /\ sum[T] = F[y] + sum[T \ {y}]
      BY <1>1, <1>3
    <3> HIDE DEF y
    <3>3. x # y
      BY <3>1, <3>2
    <3>4. Even(T \ {x}) /\ Even(T \ {y})
      BY <2>2, <3>2
    <3>5. y \in T \ {x} /\ x \in T \ {y} /\ (T \ {x}) \ {y} = (T \ {y}) \ {x}
      BY <3>2, <3>3
    <3>6. sum[T \ {x}] = F[y] + sum[(T \ {x}) \ {y}] /\ sum[T \ {y}] = F[x] + sum[(T \ {x}) \ {y}]
      BY <3>4, <3>5
    <3>7. F[x] \in Int /\ F[y] \in Int /\ sum[(T \ {x}) \ {y}] \in Int
      BY <1>3, <3>2
    <3> QED
      BY <3>1, <3>2, <3>6, <3>7
  <2> HIDE DEF D, B
  <2>4. B \subseteq D
    BY DEF B
  <2>5. B = {}
    BY <2>1, <2>3, <2>4, NoFirstFailure
  <2> QED
    BY <2>5 DEF B, D
<1>6. Sums(F, S, sum)
  BY <1>3, <1>5 DEF Sums
<1> QED
  BY <1>4, <1>6

LEMMA TotalType ==
  ASSUME NEW S, IsFiniteSet(S), NEW F \in [S -> Int], NEW T \in SUBSET S
  PROVE  TotalOver(F, T) \in Int
<1>1. PICK sum : Sums(F, S, sum) /\ \A X \in SUBSET S : TotalOver(F, X) = sum[X]
  BY SumsExist
<1> QED
  BY <1>1 DEF Sums

LEMMA TotalEmpty ==
  ASSUME NEW S, IsFiniteSet(S), NEW F \in [S -> Int]
  PROVE  TotalOver(F, {}) = 0
<1>1. PICK sum : Sums(F, S, sum) /\ \A X \in SUBSET S : TotalOver(F, X) = sum[X]
  BY SumsExist
<1> QED
  BY <1>1 DEF Sums

LEMMA TotalSingle ==
  ASSUME NEW S, IsFiniteSet(S), NEW F \in [S -> Int], NEW x \in S
  PROVE  TotalOver(F, {x}) = F[x]
<1>1. PICK sum : Sums(F, S, sum) /\ \A X \in SUBSET S : TotalOver(F, X) = sum[X]
  BY SumsExist
<1>2. sum[{}] = 0 /\ \A T \in SUBSET S : \A y \in T : sum[T] = F[y] + sum[T \ {y}]
  BY <1>1 DEF Sums
<1> DEFINE X == {x}
           E == X \ {x}
<1>3. X \in SUBSET S /\ x \in X /\ E = {} /\ F[x] \in Int
  OBVIOUS
<1> HIDE DEF X
<1>4. TotalOver(F, X) = sum[X] /\ sum[X] = F[x] + sum[E]
  BY <1>1, <1>2, <1>3
<1> HIDE DEF E
<1>5. sum[E] = 0
  BY <1>2, <1>3
<1>6. TotalOver(F, X) = F[x]
  BY <1>3, <1>4, <1>5
<1> QED
  BY <1>6 DEF X

(* What is smaller everywhere has the smaller total.                       *)
LEMMA TotalMonotone ==
  ASSUME NEW S, IsFiniteSet(S), NEW F \in [S -> Int], NEW G \in [S -> Int], NEW T \in SUBSET S,
         \A x \in T : F[x] <= G[x]
  PROVE  TotalOver(F, T) <= TotalOver(G, T)
<1>1. PICK u : Sums(F, S, u) /\ \A X \in SUBSET S : TotalOver(F, X) = u[X]
  BY SumsExist
<1>2. PICK v : Sums(G, S, v) /\ \A X \in SUBSET S : TotalOver(G, X) = v[X]
  BY SumsExist
<1> DEFINE f == [X \in SUBSET T |-> u[X]]
           g == [X \in SUBSET T |-> v[X]]
<1>3. IsFiniteSet(T) /\ f \in [SUBSET T -> Int] /\ g \in [SUBSET T -> Int] /\ f[{}] <= g[{}]
  BY <1>1, <1>2, FS_Subset DEF Sums
<1>4. \A X \in SUBSET T : X # {} => \E x \in X : f[X] - f[X \ {x}] <= g[X] - g[X \ {x}]
  <2> SUFFICES ASSUME NEW X \in SUBSET T, NEW x \in X
               PROVE  f[X] - f[X \ {x}] <= g[X] - g[X \ {x}]
    OBVIOUS
  <2>1. X \in SUBSET S /\ X \ {x} \in SUBSET T /\ X \ {x} \in SUBSET S /\ x \in T /\ x \in S
    OBVIOUS
  <2>2. f[X] = F[x] + f[X \ {x}] /\ g[X] = G[x] + g[X \ {x}]
    BY <1>1, <1>2, <2>1 DEF Sums
  <2>3. f[X \ {x}] \in Int /\ g[X \ {x}] \in Int /\ F[x] \in Int /\ G[x] \in Int /\ F[x] <= G[x]
    BY <1>3, <2>1
  <2> HIDE DEF f, g
  <2> QED
    BY <2>2, <2>3
<1> HIDE DEF f, g
<1>5. f[T] <= g[T]
  BY <1>3, <1>4, GrowsSlower
<1> QED
  BY <1>1, <1>2, <1>5 DEF f, g

LEMMA TotalSame ==
  ASSUME NEW S, IsFiniteSet(S), NEW F \in [S -> Int], NEW G \in [S -> Int], NEW T \in SUBSET S,
         \A x \in T : F[x] = G[x]
  PROVE  TotalOver(F, T) = TotalOver(G, T)
<1>1. [x \in T |-> F[x]] = [x \in T |-> G[x]]
  OBVIOUS
<1> QED
  BY <1>1 DEF TotalOver

(* A function of sets that grows by F is the total.                        *)
LEMMA TotalIs ==
  ASSUME NEW S, IsFiniteSet(S), NEW F \in [S -> Int], NEW v, Sums(F, S, v), NEW T \in SUBSET S
  PROVE  TotalOver(F, T) = v[T]
<1>1. PICK u : Sums(F, S, u) /\ \A X \in SUBSET S : TotalOver(F, X) = u[X]
  BY SumsExist
<1>2. /\ u \in [SUBSET S -> Int] /\ u[{}] = 0
      /\ \A X \in SUBSET S : \A x \in X : u[X] = F[x] + u[X \ {x}]
  BY <1>1 DEF Sums
<1>3. /\ v \in [SUBSET S -> Int] /\ v[{}] = 0
      /\ \A X \in SUBSET S : \A x \in X : v[X] = F[x] + v[X \ {x}]
  BY DEF Sums
<1>4. \A X \in SUBSET S : X # {} => \E x \in X : u[X] - u[X \ {x}] = v[X] - v[X \ {x}]
  <2> SUFFICES ASSUME NEW X \in SUBSET S, NEW x \in X
               PROVE  u[X] - u[X \ {x}] = v[X] - v[X \ {x}]
    OBVIOUS
  <2>1. X \ {x} \in SUBSET S /\ F[x] \in Int
    OBVIOUS
  <2>2. u[X] = F[x] + u[X \ {x}] /\ v[X] = F[x] + v[X \ {x}]
    BY <1>2, <1>3
  <2>3. u[X \ {x}] \in Int /\ v[X \ {x}] \in Int
    BY <1>2, <1>3, <2>1
  <2> QED
    BY <2>1, <2>2, <2>3
<1>5. \A X \in SUBSET S : X # {} => \E x \in X : /\ u[X] - u[X \ {x}] <= v[X] - v[X \ {x}]
                                                /\ v[X] - v[X \ {x}] <= u[X] - u[X \ {x}]
  <2> SUFFICES ASSUME NEW X \in SUBSET S, X # {}
               PROVE  \E x \in X : /\ u[X] - u[X \ {x}] <= v[X] - v[X \ {x}]
                                   /\ v[X] - v[X \ {x}] <= u[X] - u[X \ {x}]
    OBVIOUS
  <2>1. PICK x \in X : u[X] - u[X \ {x}] = v[X] - v[X \ {x}]
    BY <1>4
  <2>2. X \ {x} \in SUBSET S
    OBVIOUS
  <2>3. v[X] \in Int /\ v[X \ {x}] \in Int
    BY <1>3, <2>2
  <2>4. u[X] - u[X \ {x}] <= v[X] - v[X \ {x}] /\ v[X] - v[X \ {x}] <= u[X] - u[X \ {x}]
    BY <2>1, <2>3
  <2> QED
    BY <2>4
<1>6. u[{}] <= v[{}] /\ v[{}] <= u[{}]
  BY <1>2, <1>3
<1>7. u[T] <= v[T]
  BY <1>2, <1>3, <1>5, <1>6, GrowsSlower
<1>8. v[T] <= u[T]
  BY <1>2, <1>3, <1>5, <1>6, GrowsSlower
<1>9. u[T] \in Int /\ v[T] \in Int
  BY <1>2, <1>3
<1> QED
  BY <1>1, <1>7, <1>8, <1>9

LEMMA TotalConstant ==
  ASSUME NEW S, IsFiniteSet(S), NEW F \in [S -> Int], NEW k \in Int, NEW T \in SUBSET S,
         \A x \in T : F[x] = k
  PROVE  TotalOver(F, T) = k * Cardinality(T)
<1> DEFINE G == [x \in S |-> k]
           v == [X \in SUBSET S |-> k * Cardinality(X)]
<1>1. \A X \in SUBSET S : IsFiniteSet(X) /\ Cardinality(X) \in Nat
  BY FS_Subset, FS_CardinalityType
<1>2. v \in [SUBSET S -> Int] /\ v[{}] = 0 /\ G \in [S -> Int]
  BY <1>1, FS_EmptySet
<1>3. \A X \in SUBSET S : \A x \in X : v[X] = G[x] + v[X \ {x}]
  <2> SUFFICES ASSUME NEW X \in SUBSET S, NEW x \in X PROVE v[X] = G[x] + v[X \ {x}]
    OBVIOUS
  <2>1. Cardinality(X \ {x}) = Cardinality(X) - 1 /\ X \ {x} \in SUBSET S /\ G[x] = k
    BY <1>1, FS_RemoveElement
  <2> DEFINE n == Cardinality(X)
  <2>2. n \in Nat /\ v[X] = k * n /\ v[X \ {x}] = k * (n - 1)
    BY <1>1, <2>1
  <2> HIDE DEF n, v
  <2>3. k * n = k + k * (n - 1)
    BY <2>2
  <2> QED
    BY <2>1, <2>2, <2>3
<1> HIDE DEF v, G
<1>4. TotalOver(G, T) = v[T]
  <2>1. Sums(G, S, v)
    BY <1>2, <1>3 DEF Sums
  <2> QED
    BY <1>2, <2>1, TotalIs
<1>5. TotalOver(F, T) = TotalOver(G, T)
  <2>1. \A x \in T : F[x] = G[x]
    BY DEF G
  <2> QED
    BY <1>2, <2>1, TotalSame
<1> QED
  BY <1>4, <1>5 DEF v

LEMMA TotalScaled ==
  ASSUME NEW S, IsFiniteSet(S), NEW F \in [S -> Int], NEW G \in [S -> Int], NEW k \in Int, NEW T \in SUBSET S,
         \A x \in S : G[x] = k * F[x]
  PROVE  TotalOver(G, T) = k * TotalOver(F, T)
<1>1. PICK u : Sums(F, S, u) /\ \A X \in SUBSET S : TotalOver(F, X) = u[X]
  BY SumsExist
<1>2. u \in [SUBSET S -> Int] /\ u[{}] = 0
  BY <1>1 DEF Sums
<1> DEFINE v == [X \in SUBSET S |-> k * u[X]]
<1>3. v \in [SUBSET S -> Int] /\ v[{}] = 0
  BY <1>2
<1>4. \A X \in SUBSET S : \A x \in X : v[X] = G[x] + v[X \ {x}]
  <2> SUFFICES ASSUME NEW X \in SUBSET S, NEW x \in X PROVE v[X] = G[x] + v[X \ {x}]
    OBVIOUS
  <2> DEFINE a == F[x]
             b == u[X \ {x}]
  <2>1. a \in Int /\ b \in Int /\ X \ {x} \in SUBSET S /\ x \in S
    BY <1>2
  <2>2. u[X] = a + b
    BY <1>1 DEF Sums
  <2>3. v[X] = k * u[X] /\ v[X \ {x}] = k * b /\ G[x] = k * a
    BY <2>1
  <2> HIDE DEF a, b, v
  <2>4. k * (a + b) = k * a + k * b
    BY <2>1
  <2> QED
    BY <2>2, <2>3, <2>4
<1> HIDE DEF v
<1>5. TotalOver(G, T) = v[T]
  <2>1. Sums(G, S, v)
    BY <1>3, <1>4 DEF Sums
  <2> QED
    BY <2>1, TotalIs
<1> QED
  BY <1>1, <1>5 DEF v

LEMMA TotalAdded ==
  ASSUME NEW S, IsFiniteSet(S), NEW F \in [S -> Int], NEW G \in [S -> Int], NEW H \in [S -> Int], NEW T \in SUBSET S,
         \A x \in S : H[x] = F[x] + G[x]
  PROVE  TotalOver(H, T) = TotalOver(F, T) + TotalOver(G, T)
<1>1. PICK u : Sums(F, S, u) /\ \A X \in SUBSET S : TotalOver(F, X) = u[X]
  BY SumsExist
<1>2. PICK v : Sums(G, S, v) /\ \A X \in SUBSET S : TotalOver(G, X) = v[X]
  BY SumsExist
<1>3. /\ u \in [SUBSET S -> Int] /\ u[{}] = 0
      /\ \A X \in SUBSET S : \A x \in X : u[X] = F[x] + u[X \ {x}]
  BY <1>1 DEF Sums
<1>4. /\ v \in [SUBSET S -> Int] /\ v[{}] = 0
      /\ \A X \in SUBSET S : \A x \in X : v[X] = G[x] + v[X \ {x}]
  BY <1>2 DEF Sums
<1> DEFINE w == [X \in SUBSET S |-> u[X] + v[X]]
<1>5. w \in [SUBSET S -> Int] /\ w[{}] = 0
  BY <1>3, <1>4
<1>6. \A X \in SUBSET S : \A x \in X : w[X] = H[x] + w[X \ {x}]
  <2> SUFFICES ASSUME NEW X \in SUBSET S, NEW x \in X PROVE w[X] = H[x] + w[X \ {x}]
    OBVIOUS
  <2>1. X \ {x} \in SUBSET S /\ F[x] \in Int /\ G[x] \in Int /\ H[x] = F[x] + G[x]
    OBVIOUS
  <2>2. u[X] = F[x] + u[X \ {x}] /\ v[X] = G[x] + v[X \ {x}]
    BY <1>3, <1>4
  <2>3. w[X] = u[X] + v[X] /\ w[X \ {x}] = u[X \ {x}] + v[X \ {x}]
    BY <2>1
  <2>4. u[X \ {x}] \in Int /\ v[X \ {x}] \in Int
    BY <1>3, <1>4, <2>1
  <2> HIDE DEF w
  <2> QED
    BY <2>1, <2>2, <2>3, <2>4
<1> HIDE DEF w
<1>7. TotalOver(H, T) = w[T]
  <2>1. Sums(H, S, w)
    BY <1>5, <1>6 DEF Sums
  <2> QED
    BY <2>1, TotalIs
<1> QED
  BY <1>1, <1>2, <1>7 DEF w

LEMMA TotalUnion ==
  ASSUME NEW S, IsFiniteSet(S), NEW F \in [S -> Int], NEW A \in SUBSET S, NEW B \in SUBSET S,
         A \cap B = {}
  PROVE  TotalOver(F, A \cup B) = TotalOver(F, A) + TotalOver(F, B)
<1>1. PICK u : Sums(F, S, u) /\ \A X \in SUBSET S : TotalOver(F, X) = u[X]
  BY SumsExist
<1>2. u \in [SUBSET S -> Int] /\ u[{}] = 0
  BY <1>1 DEF Sums
<1> DEFINE G == [x \in B |-> F[x]]
           v == [X \in SUBSET B |-> u[A \cup X] - u[A]]
<1>3. IsFiniteSet(B) /\ G \in [B -> Int]
  BY FS_Subset
<1>4. v \in [SUBSET B -> Int] /\ v[{}] = 0
  <2>1. \A X \in SUBSET B : A \cup X \in SUBSET S
    OBVIOUS
  <2>2. A \cup {} = A /\ u[A] \in Int
    BY <1>2
  <2> QED
    BY <1>2, <2>1, <2>2
<1>5. \A X \in SUBSET B : \A x \in X : v[X] = G[x] + v[X \ {x}]
  <2> SUFFICES ASSUME NEW X \in SUBSET B, NEW x \in X PROVE v[X] = G[x] + v[X \ {x}]
    OBVIOUS
  <2>1. /\ A \cup X \in SUBSET S /\ x \in A \cup X /\ (A \cup X) \ {x} = A \cup (X \ {x})
        /\ X \ {x} \in SUBSET B /\ A \cup (X \ {x}) \in SUBSET S /\ G[x] = F[x] /\ F[x] \in Int
    OBVIOUS
  <2>2. u[A \cup X] = F[x] + u[A \cup (X \ {x})]
    BY <1>1, <2>1 DEF Sums
  <2>3. u[A \cup (X \ {x})] \in Int /\ u[A] \in Int
    BY <1>2, <2>1
  <2>4. v[X] = u[A \cup X] - u[A] /\ v[X \ {x}] = u[A \cup (X \ {x})] - u[A]
    BY <2>1
  <2> HIDE DEF v, G
  <2> QED
    BY <2>1, <2>2, <2>3, <2>4
<1> HIDE DEF v, G
<1>6. TotalOver(G, B) = v[B]
  <2>1. Sums(G, B, v)
    BY <1>4, <1>5 DEF Sums
  <2> QED
    BY <1>3, <2>1, TotalIs
<1>7. TotalOver(G, B) = TotalOver(F, B)
  <2>1. [x \in B |-> G[x]] = [x \in B |-> F[x]]
    BY DEF G
  <2> QED
    BY <2>1 DEF TotalOver
<1>8. u[A] \in Int /\ u[A \cup B] \in Int /\ u[B] \in Int /\ A \cup B \in SUBSET S
  BY <1>2
<1>9. u[B] = u[A \cup B] - u[A]
  BY <1>1, <1>6, <1>7 DEF v
<1> QED
  BY <1>1, <1>8, <1>9

(* Of what is nowhere negative, more has the greater total.                *)
LEMMA TotalPart ==
  ASSUME NEW S, IsFiniteSet(S), NEW F \in [S -> Int], NEW A \in SUBSET S, NEW B \in SUBSET A,
         \A x \in A : F[x] >= 0
  PROVE  TotalOver(F, B) <= TotalOver(F, A) /\ 0 <= TotalOver(F, B)
<1> DEFINE C == A \ B
           Z == [x \in S |-> 0]
<1>1. B \in SUBSET S /\ C \in SUBSET S /\ B \cap C = {} /\ A = B \cup C
  OBVIOUS
<1>2. Z \in [S -> Int] /\ \A x \in S : Z[x] = 0
  OBVIOUS
<1> HIDE DEF Z, C
<1>3. TotalOver(F, A) = TotalOver(F, B) + TotalOver(F, C)
  BY <1>1, TotalUnion
<1>4. ASSUME NEW X \in {B, C} PROVE 0 <= TotalOver(F, X)
  <2>1. X \in SUBSET S /\ IsFiniteSet(X) /\ \A x \in X : Z[x] <= F[x]
    BY <1>1, <1>2, FS_Subset
  <2>2. TotalOver(Z, X) <= TotalOver(F, X)
    BY <1>2, <2>1, TotalMonotone
  <2>3. TotalOver(Z, X) = 0 * Cardinality(X)
    BY <1>2, <2>1, TotalConstant
  <2>4. 0 * Cardinality(X) = 0
    BY <2>1, FS_CardinalityType
  <2> QED
    BY <2>2, <2>3, <2>4
<1>5. TotalOver(F, B) \in Int /\ TotalOver(F, C) \in Int
  BY <1>1, TotalType
<1> QED
  BY <1>3, <1>4, <1>5

LEMMA TotalCover ==
  ASSUME NEW S, IsFiniteSet(S), NEW F \in [S -> Int], NEW A \in SUBSET S, NEW B \in SUBSET S,
         \A x \in A \cup B : F[x] >= 0
  PROVE  TotalOver(F, A \cup B) <= TotalOver(F, A) + TotalOver(F, B)
<1> DEFINE C == B \ A
<1>1. C \in SUBSET B /\ C \in SUBSET S /\ A \cap C = {} /\ A \cup B = A \cup C
  OBVIOUS
<1> HIDE DEF C
<1>2. TotalOver(F, A \cup B) = TotalOver(F, A) + TotalOver(F, C)
  BY <1>1, TotalUnion
<1>3. TotalOver(F, C) <= TotalOver(F, B)
  BY <1>1, TotalPart
<1>4. TotalOver(F, A) \in Int /\ TotalOver(F, B) \in Int /\ TotalOver(F, C) \in Int
  BY <1>1, TotalType
<1> QED
  BY <1>2, <1>3, <1>4

(* What is nothing outside T has T's total.                                *)
LEMMA TotalRestricted ==
  ASSUME NEW S, IsFiniteSet(S), NEW T \in SUBSET S, NEW F \in [T -> Int]
  PROVE  /\ [x \in S |-> IF x \in T THEN F[x] ELSE 0] \in [S -> Int]
         /\ Total(F) = TotalOver([x \in S |-> IF x \in T THEN F[x] ELSE 0], S)
<1> DEFINE G == [x \in S |-> IF x \in T THEN F[x] ELSE 0]
           C == S \ T
<1>1. G \in [S -> Int] /\ \A x \in C : G[x] = 0
  OBVIOUS
<1>2. [x \in T |-> G[x]] = F
  OBVIOUS
<1>3. C \in SUBSET S /\ T \cap C = {} /\ S = T \cup C
  OBVIOUS
<1> HIDE DEF G, C
<1>4. TotalOver(G, S) = TotalOver(G, T) + TotalOver(G, C)
  BY <1>1, <1>3, TotalUnion
<1>5. TotalOver(G, C) = 0 * Cardinality(C)
  BY <1>1, <1>3, TotalConstant
<1>6. 0 * Cardinality(C) = 0
  BY <1>3, FS_Subset, FS_CardinalityType
<1>7. TotalOver(G, T) = Total(F)
  BY <1>2 DEF TotalOver
<1>8. TotalOver(G, T) \in Int
  BY <1>1, TotalType
<1>9. Total(F) = TotalOver(G, S)
  BY <1>4, <1>5, <1>6, <1>7, <1>8
<1> QED
  BY <1>1, <1>9 DEF G

(* So many as are in T.                                                    *)
LEMMA TotalCount ==
  ASSUME NEW S, IsFiniteSet(S), NEW T \in SUBSET S
  PROVE  /\ [x \in S |-> IF x \in T THEN 1 ELSE 0] \in [S -> Int]
         /\ Cardinality(T) = TotalOver([x \in S |-> IF x \in T THEN 1 ELSE 0], S)
<1> DEFINE F == [x \in T |-> 1]
           G == [x \in S |-> IF x \in T THEN 1 ELSE 0]
           H == [x \in S |-> IF x \in T THEN F[x] ELSE 0]
<1>1. G \in [S -> Int] /\ F \in [T -> Int] /\ H = G /\ \A x \in T : F[x] = 1
  OBVIOUS
<1>2. IsFiniteSet(T)
  BY FS_Subset
<1>3. Total(F) = TotalOver(H, S)
  <2> HIDE DEF F, G
  <2> QED
    BY <1>1, TotalRestricted
<1>4. TotalOver(F, T) = 1 * Cardinality(T)
  <2> HIDE DEF F
  <2> QED
    BY <1>1, <1>2, TotalConstant
<1>5. 1 * Cardinality(T) = Cardinality(T)
  BY <1>2, FS_CardinalityType
<1>6. TotalOver(F, T) = Total(F)
  BY DEF TotalOver
<1> HIDE DEF F, G, H
<1>7. Cardinality(T) = TotalOver(G, S)
  BY <1>1, <1>3, <1>4, <1>5, <1>6
<1> QED
  BY <1>1, <1>7 DEF G

==============================================================================
