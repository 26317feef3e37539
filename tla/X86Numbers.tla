----------------------------- MODULE X86Numbers -----------------------------
(***************************************************************************)
(* Numbers and their bits, for the proofs: induction, powers of two, sums  *)
(* over finite sets, remainders.                                           *)
(***************************************************************************)
EXTENDS Integers, FiniteSets, FiniteSetsExt, FiniteSetTheorems, WellFoundedInduction, TLAPS

-----------------------------------------------------------------------------
(* Induction, with the property as the set of numbers that have it *)
LEMMA NumbersAreOrdered ==
  \E R : IsWellFoundedOn(R, Nat) /\ \A m, n \in Nat : m < n => <<m, n>> \in R
<1> DEFINE R == OpToRel(<, Nat)
<1>1. IsWellFoundedOn(R, Nat)
  BY NatLessThanWellFounded
<1>2. \A m, n \in Nat : m < n => <<m, n>> \in R
  BY DEF OpToRel
<1> HIDE DEF R
<1> QED BY <1>1, <1>2

(* Every nonempty set of naturals has a least element.                     *)
LEMMA LeastNumber ==
  ASSUME NEW T \in SUBSET Nat, T # {}
  PROVE  \E n \in T : \A m \in T : n <= m
<1>1. PICK R : IsWellFoundedOn(R, Nat) /\ \A m, n \in Nat : m < n => <<m, n>> \in R
  BY NumbersAreOrdered
<1>2. T \subseteq Nat /\ IsWellFoundedOn(R, Nat)
  BY <1>1
<1>3. PICK n \in T : \A m \in T : ~ (<<m, n>> \in R)
  BY <1>2, WFMin
<1>4. \A m \in T : ~ (m < n) /\ m \in Nat /\ n \in Nat
  BY <1>1, <1>2, <1>3
<1>5. \A a, b \in Nat : ~ (a < b) => b <= a
  OBVIOUS
<1> QED BY <1>3, <1>4, <1>5

(* A set that has 0, and n + 1 with every n, has all naturals.             *)
LEMMA ByInduction ==
  ASSUME NEW S, 0 \in S, \A n \in Nat : n \in S => n + 1 \in S
  PROVE  Nat \subseteq S
<1> SUFFICES ASSUME ~ (Nat \subseteq S) PROVE FALSE
  OBVIOUS
<1> DEFINE T == Nat \ S
<1>1. PICK n \in T : \A m \in T : n <= m
  BY LeastNumber
<1>2. n # 0 /\ n - 1 \in Nat
  BY <1>1
<1>3. n - 1 \in S
  BY <1>1, <1>2
<1> QED BY <1>1, <1>2, <1>3

-----------------------------------------------------------------------------
(* Powers of two, as numbers of subsets *)
LEMMA SubsetsOf ==
  ASSUME NEW n \in Nat
  PROVE  /\ IsFiniteSet(1 .. n) /\ Cardinality(1 .. n) = n
         /\ IsFiniteSet(SUBSET (1 .. n)) /\ Cardinality(SUBSET (1 .. n)) = 2 ^ n
<1>1. IsFiniteSet(1 .. n) /\ Cardinality(1 .. n) = n
  BY FS_Interval
<1> QED BY <1>1, FS_SUBSET

(* Powers of two are positive.                                             *)
LEMMA PowerIsNat ==
  ASSUME NEW n \in Nat
  PROVE  2 ^ n \in Nat /\ 2 ^ n > 0
<1>1. SUBSET (1 .. n) # {}
  OBVIOUS
<1>2. Cardinality(SUBSET (1 .. n)) \in Nat /\ Cardinality(SUBSET (1 .. n)) # 0
  BY <1>1, SubsetsOf, FS_CardinalityType, FS_EmptySet
<1>3. Cardinality(SUBSET (1 .. n)) = 2 ^ n
  BY SubsetsOf
<1>4. \A c \in Nat : c # 0 => c > 0
  OBVIOUS
<1> QED BY <1>2, <1>3, <1>4

(* The first power.                                                        *)
LEMMA PowerZero == 2 ^ 0 = 1
<1>1. 1 .. 0 = {} /\ SUBSET {} = {{}}
  OBVIOUS
<1>2. Cardinality({{}}) = 1
  BY FS_Singleton
<1>3. Cardinality(SUBSET (1 .. 0)) = 2 ^ 0
  BY SubsetsOf
<1> QED BY <1>1, <1>2, <1>3

(* Exponents add up.                                                       *)
LEMMA PowerSum ==
  ASSUME NEW m \in Nat, NEW n \in Nat
  PROVE  2 ^ (m + n) = 2 ^ m * 2 ^ n
<1> DEFINE S == 1 .. m
           T == (m + 1) .. (m + n)
           P == (SUBSET S) \X (SUBSET T)
           f == [p \in P |-> p[1] \cup p[2]]
<1>1. IsFiniteSet(T) /\ Cardinality(T) = n
  <2>1. m + 1 \in Int /\ m + n \in Int /\ (m + n) - (m + 1) + 1 = n /\ (m + 1 > m + n => n = 0)
    OBVIOUS
  <2> QED BY <2>1, FS_Interval
<1>2. IsFiniteSet(SUBSET T) /\ Cardinality(SUBSET T) = 2 ^ n
  BY <1>1, FS_SUBSET
<1>3. IsFiniteSet(P) /\ Cardinality(P) = 2 ^ m * 2 ^ n
  <2>1. IsFiniteSet(SUBSET S) /\ Cardinality(SUBSET S) = 2 ^ m
    BY SubsetsOf
  <2> QED BY <1>2, <2>1, FS_Product, SMTT(60)
<1>4. S \cup T = 1 .. (m + n) /\ S \cap T = {}
  OBVIOUS
<1> HIDE DEF S, T
<1>5. f \in Bijection(P, SUBSET (S \cup T))
  <2>1. f \in [P -> SUBSET (S \cup T)]
    OBVIOUS
  <2>2. ASSUME NEW p \in P, NEW q \in P, f[p] = f[q] PROVE p = q
    <3>1. f[p] = p[1] \cup p[2] /\ f[q] = q[1] \cup q[2]
      OBVIOUS
    <3>2. /\ p[1] = f[p] \cap S /\ p[2] = f[p] \cap T
          /\ q[1] = f[q] \cap S /\ q[2] = f[q] \cap T
      BY <1>4, <3>1
    <3>3. p = <<p[1], p[2]>> /\ q = <<q[1], q[2]>>
      OBVIOUS
    <3> QED BY <2>2, <3>2, <3>3
  <2>3. ASSUME NEW u \in SUBSET (S \cup T) PROVE \E p \in P : f[p] = u
    <3> DEFINE p == <<u \cap S, u \cap T>>
    <3>1. p \in P /\ f[p] = u
      OBVIOUS
    <3> QED BY <3>1
  <2> HIDE DEF f, P
  <2> QED BY <2>1, <2>2, <2>3 DEF Bijection, Injection, Surjection, IsInjective
<1>6. Cardinality(SUBSET (S \cup T)) = Cardinality(P)
  BY <1>3, <1>5, FS_Bijection DEF ExistsBijection
<1>7. Cardinality(SUBSET (S \cup T)) = 2 ^ (m + n)
  <2>1. m + n \in Nat
    OBVIOUS
  <2>2. Cardinality(SUBSET (1 .. (m + n))) = 2 ^ (m + n)
    BY <2>1, SubsetsOf
  <2> QED BY <1>4, <2>2
<1> QED BY <1>3, <1>6, <1>7

(* The next power doubles.                                                 *)
LEMMA PowerNext ==
  ASSUME NEW n \in Nat
  PROVE  2 ^ (n + 1) = 2 * 2 ^ n /\ 2 ^ 1 = 2
<1>1. 2 ^ 1 = 2
  <2>1. 1 .. 1 = {1} /\ SUBSET {1} = {{}, {1}}
    OBVIOUS
  <2>2. Cardinality({{}} \cup {{1}}) = 2
    <3>1. Cardinality({{}}) = 1 /\ {1} \notin {{}}
      BY FS_Singleton
    <3>2. IsFiniteSet({{}})
      BY FS_Singleton
    <3>3. Cardinality({{}} \cup {{1}}) = Cardinality({{}}) + 1
      BY <3>1, <3>2, FS_AddElement
    <3> QED BY <3>1, <3>3
  <2>3. {{}} \cup {{1}} = {{}, {1}}
    OBVIOUS
  <2>4. Cardinality(SUBSET (1 .. 1)) = 2 ^ 1
    BY SubsetsOf
  <2> QED BY <2>1, <2>2, <2>3, <2>4
<1>2. 2 ^ (n + 1) = 2 ^ n * 2 ^ 1
  BY PowerSum
<1>3. 2 ^ n \in Nat
  BY PowerIsNat
<1> QED BY <1>1, <1>2, <1>3

-----------------------------------------------------------------------------
(* Sums over finite sets: MapThenSumSet is defined by recursion.  The sum  *)
(* of w[i] over s is the number of its marks <<i, 1>> .. <<i, w[i]>>.      *)
Marks(w, s) == {p \in s \X (Nat \ {0}) : p[2] <= w[p[1]]}
Total(w, s) == Cardinality(Marks(w, s))

(* Induction over the subsets of a finite set *)
LEMMA BySubsets ==
  ASSUME NEW S, IsFiniteSet(S), NEW Q, {} \in Q,
         \A s \in SUBSET S : \A x \in s : s \ {x} \in Q => s \in Q
  PROVE  SUBSET S \subseteq Q
<1> SUFFICES ASSUME ~ (SUBSET S \subseteq Q) PROVE FALSE
  OBVIOUS
<1> DEFINE R == StrictSubsetOrdering(S)
           T == (SUBSET S) \ Q
<1>1. IsWellFoundedOn(R, SUBSET S)
  BY FS_StrictSubsetOrderingWellFounded, FS_FiniteSubsetsOfFinite
<1>2. \A t, u \in SUBSET S : t \subseteq u /\ t # u => <<t, u>> \in R
  BY DEF StrictSubsetOrdering
<1> HIDE DEF R
<1>3. T \subseteq SUBSET S /\ T # {}
  OBVIOUS
<1> HIDE DEF T
<1>4. PICK s \in T : \A t \in T : ~ (<<t, s>> \in R)
  BY <1>1, <1>3, WFMin
<1> USE DEF T
<1>5. s # {}
  BY <1>4
<1>6. PICK x \in s : TRUE
  BY <1>5
<1>7. s \ {x} \in SUBSET S /\ s \ {x} \subseteq s /\ s \ {x} # s
  BY <1>4, <1>6
<1>8. s \ {x} \in Q
  BY <1>2, <1>4, <1>7
<1> QED BY <1>4, <1>6, <1>8

(* One more element adds its weight.                                       *)
LEMMA MarksOfOne ==
  ASSUME NEW w, NEW s, NEW x \in s, w[x] \in Nat, IsFiniteSet(Marks(w, s \ {x}))
  PROVE  /\ IsFiniteSet(Marks(w, s))
         /\ Total(w, s) = w[x] + Total(w, s \ {x})
<1> DEFINE M == Marks(w, s \ {x})
           one == {x} \X (1 .. w[x])
<1>1. Marks(w, s) = M \cup one /\ M \cap one = {}
  BY DEF Marks
<1>2. IsFiniteSet(1 .. w[x]) /\ Cardinality(1 .. w[x]) = w[x]
  BY SubsetsOf
<1>3. IsFiniteSet({x}) /\ Cardinality({x}) = 1
  BY FS_Singleton
<1>4. IsFiniteSet(one) /\ Cardinality(one) = w[x]
  <2>1. IsFiniteSet(one) /\ Cardinality(one) = Cardinality({x}) * Cardinality(1 .. w[x])
    BY <1>2, <1>3, FS_Product
  <2>2. \A n \in Nat : 1 * n = n
    OBVIOUS
  <2> QED BY <1>2, <1>3, <2>1, <2>2
<1> HIDE DEF M, one
<1>5. IsFiniteSet(M)
  BY DEF M
<1>6. Cardinality(M) \in Nat /\ Cardinality({}) = 0
  BY <1>5, FS_CardinalityType, FS_EmptySet
<1>7. /\ IsFiniteSet(M \cup one)
      /\ Cardinality(M \cup one) = Cardinality(M) + Cardinality(one) - Cardinality(M \cap one)
  BY <1>4, <1>5, FS_Union
<1>8. Cardinality(M \cup one) = w[x] + Cardinality(M)
  <2>1. Cardinality(M \cap one) = 0
    BY <1>1, <1>6
  <2>2. Cardinality(M) \in Nat /\ w[x] \in Nat
    BY <1>6
  <2>3. \A a, b \in Nat : a + b - 0 = b + a
    OBVIOUS
  <2> QED BY <1>4, <1>7, <2>1, <2>2, <2>3
<1> QED BY <1>1, <1>7, <1>8 DEF Total, M

(* Sums are numbers; any element may be taken first. *)
LEMMA TotalIs ==
  ASSUME NEW S, IsFiniteSet(S), NEW w, \A i \in S : w[i] \in Nat
  PROVE  /\ \A s \in SUBSET S : IsFiniteSet(Marks(w, s)) /\ Total(w, s) \in Nat
         /\ Total(w, {}) = 0
         /\ \A s \in SUBSET S : \A x \in s : Total(w, s) = w[x] + Total(w, s \ {x})
<1> DEFINE Q == {s \in SUBSET S : IsFiniteSet(Marks(w, s))}
<1>1. Marks(w, {}) = {} /\ IsFiniteSet({}) /\ Cardinality({}) = 0
  BY FS_EmptySet DEF Marks
<1>2. SUBSET S \subseteq Q
  <2>1. {} \in Q
    BY <1>1
  <2>2. ASSUME NEW s \in SUBSET S, NEW x \in s, s \ {x} \in Q PROVE s \in Q
    <3>1. IsFiniteSet(Marks(w, s \ {x})) /\ w[x] \in Nat
      BY <2>2
    <3>2. IsFiniteSet(Marks(w, s))
      BY <3>1, MarksOfOne
    <3> QED BY <3>2
  <2> HIDE DEF Q
  <2> QED BY <2>1, <2>2, BySubsets
<1>3. ASSUME NEW s \in SUBSET S PROVE IsFiniteSet(Marks(w, s)) /\ Total(w, s) \in Nat
  <2>1. IsFiniteSet(Marks(w, s))
    BY <1>2
  <2> QED BY <2>1, FS_CardinalityType DEF Total
<1>4. ASSUME NEW s \in SUBSET S, NEW x \in s PROVE Total(w, s) = w[x] + Total(w, s \ {x})
  <2>1. s \ {x} \in SUBSET S /\ w[x] \in Nat
    OBVIOUS
  <2>2. IsFiniteSet(Marks(w, s \ {x}))
    BY <1>3, <2>1
  <2> QED BY <2>1, <2>2, MarksOfOne
<1>5. Total(w, {}) = 0
  BY <1>1 DEF Total
<1> QED BY <1>3, <1>4, <1>5

(* What the recursion of MapThenSumSet defines *)
Recursion(G, S, w) ==
  G = [s \in SUBSET S |-> IF s = {} THEN 0
         ELSE w[CHOOSE x \in s : TRUE] + G[s \ {CHOOSE x \in s : TRUE}]]

(* The recursion behind MapThenSumSet() finds the total.                   *)
LEMMA RecursionIs ==
  ASSUME NEW S, IsFiniteSet(S), NEW w, \A i \in S : w[i] \in Nat
  PROVE  /\ \A G : Recursion(G, S, w) => G[S] = Total(w, S)
         /\ \E G : Recursion(G, S, w)
<1> DEFINE c(s) == CHOOSE x \in s : TRUE
<1>1. \A s \in SUBSET S : s # {} => c(s) \in s
  OBVIOUS
<1> HIDE DEF c
<1>2. /\ \A s \in SUBSET S : Total(w, s) \in Nat
      /\ Total(w, {}) = 0
      /\ \A s \in SUBSET S : \A x \in s : Total(w, s) = w[x] + Total(w, s \ {x})
  BY TotalIs
<1>3. ASSUME NEW G, G = [s \in SUBSET S |-> IF s = {} THEN 0 ELSE w[c(s)] + G[s \ {c(s)}]]
      PROVE  G[S] = Total(w, S)
  <2> DEFINE Q == {{}} \cup {s \in SUBSET S : G[s] = Total(w, s) /\ s # {}}
      D == {s \in SUBSET S : G[s] # Total(w, s)}
      R == StrictSubsetOrdering(S)
  <2>1. IsWellFoundedOn(R, SUBSET S)
    BY FS_StrictSubsetOrderingWellFounded, FS_FiniteSubsetsOfFinite
  <2>2. \A t, u \in SUBSET S : t \subseteq u /\ t # u => <<t, u>> \in R
    BY DEF StrictSubsetOrdering
  <2> HIDE DEF R
  <2>3. D = {}
    <3> SUFFICES ASSUME D # {} PROVE FALSE
      OBVIOUS
    <3>1. PICK s \in D : \A t \in D : ~ (<<t, s>> \in R)
      BY <2>1, WFMin
    <3>2. s # {}
      BY <1>2, <1>3, <3>1
    <3>3. c(s) \in s /\ s \ {c(s)} \in SUBSET S /\ s \ {c(s)} \subseteq s /\ s \ {c(s)} # s
      BY <1>1, <3>1, <3>2
    <3>4. s \ {c(s)} \notin D
      BY <2>2, <3>1, <3>3
    <3>5. G[s \ {c(s)}] = Total(w, s \ {c(s)})
      BY <3>3, <3>4
    <3>6. G[s] = w[c(s)] + G[s \ {c(s)}]
      BY <1>3, <3>1, <3>2
    <3>7. G[s] = Total(w, s)
      BY <1>2, <3>1, <3>3, <3>5, <3>6
    <3> QED BY <3>1, <3>7
  <2> QED BY <2>3
<1>4. \E G : G = [s \in SUBSET S |-> IF s = {} THEN 0 ELSE w[c(s)] + G[s \ {c(s)}]]
  <2> DEFINE G == [s \in SUBSET S |-> Total(w, s)]
  <2>1. ASSUME NEW s \in SUBSET S
        PROVE  G[s] = IF s = {} THEN 0 ELSE w[c(s)] + G[s \ {c(s)}]
    <3>1. CASE s = {}
      BY <1>2, <3>1
    <3>2. CASE s # {}
      <4>1. c(s) \in s /\ s \ {c(s)} \in SUBSET S
        BY <1>1, <3>2
      <4>2. G[s] = Total(w, s) /\ G[s \ {c(s)}] = Total(w, s \ {c(s)})
        BY <4>1
      <4> HIDE DEF G
      <4> QED BY <1>2, <3>2, <4>1, <4>2
    <3> QED BY <3>1, <3>2
  <2>2. G = [s \in SUBSET S |-> G[s]]
    OBVIOUS
  <2> HIDE DEF G
  <2>3. G = [s \in SUBSET S |-> IF s = {} THEN 0 ELSE w[c(s)] + G[s \ {c(s)}]]
    BY <2>1, <2>2
  <2> QED BY <2>3
<1> QED BY <1>3, <1>4 DEF c, Recursion

Power == [i \in Nat |-> 2 ^ i]

(* A sum of powers of two is the total of their weights.                   *)
LEMMA SumOfPowers ==
  ASSUME NEW d, IsFiniteSet(d), d \subseteq Nat
  PROVE  MapThenSumSet(LAMBDA i : 2 ^ i, d) = Total(Power, d)
<1> DEFINE Is(G) == G = [s \in SUBSET d |-> IF s = {} THEN 0
                           ELSE 2 ^ (CHOOSE x \in s : TRUE) + G[s \ {CHOOSE x \in s : TRUE}]]
           Of(G) == Recursion(G, d, Power)
           G == CHOOSE g : Is(g)
<1>1. MapThenSumSet(LAMBDA i : 2 ^ i, d) = G[d]
  BY DEF MapThenSumSet, MapThenFoldSet
<1>2. \A s \in SUBSET d : s # {} => (CHOOSE x \in s : TRUE) \in Nat
  OBVIOUS
<1>3. \A i \in Nat : Power[i] = 2 ^ i /\ Power[i] \in Nat
  BY PowerIsNat DEF Power
<1>4. \A g : Is(g) <=> Of(g)
  BY <1>2, <1>3 DEF Recursion
<1>5. \A i \in d : Power[i] \in Nat
  BY <1>3
<1>6. (\A g : Of(g) => g[d] = Total(Power, d)) /\ \E g : Of(g)
  BY <1>5, RecursionIs
<1> HIDE DEF Is, Of
<1>7. Is(G)
  BY <1>4, <1>6
<1> QED BY <1>1, <1>4, <1>6, <1>7

-----------------------------------------------------------------------------
(* Remainders *)
LEMMA DivMod ==
  ASSUME NEW x \in Int, NEW m \in Nat \ {0}
  PROVE  /\ x \div m \in Int /\ x % m \in 0 .. (m - 1)
         /\ x = m * (x \div m) + (x % m)
BY SMT

(* Quotient and remainder are the only ones.                               *)
LEMMA DivModUnique ==
  ASSUME NEW q \in Int, NEW m \in Nat \ {0}, NEW z \in 0 .. (m - 1)
  PROVE  (m * q + z) % m = z /\ (m * q + z) \div m = q
<1> DEFINE x == m * q + z
           p == x \div m
           y == x % m
<1>1. x \in Int /\ p \in Int /\ y \in 0 .. (m - 1) /\ x = m * p + y
  BY DivMod
<1>2. m * (q - p) = y - z
  BY <1>1, SMT
<1> HIDE DEF p, y
<1>3. q <= p
  <2> SUFFICES ASSUME q > p PROVE FALSE
    BY <1>1, SMT
  <2>1. m * (q - p) >= m
    BY <1>1, SMT
  <2> QED BY <2>1, <1>1, <1>2, SMT
<1>4. p <= q
  <2> SUFFICES ASSUME p > q PROVE FALSE
    BY <1>1, SMT
  <2>1. m * (p - q) >= m
    BY <1>1, SMT
  <2>2. m * (p - q) = z - y
    BY <1>1, SMT
  <2> QED BY <2>1, <2>2, <1>1, SMT
<1>5. p = q /\ y = z
  <2>1. p = q
    BY <1>1, <1>3, <1>4, SMT
  <2> QED BY <2>1, <1>1, SMT
<1> QED BY <1>5 DEF p, y

-----------------------------------------------------------------------------
(* The number a set of bit positions stands for, and its low bits *)
Num(d)    == Total(Power, d)
Low(d, i) == {j \in d : j < i}

(* A total is that of one element and that of the rest.                    *)
LEMMA TotalOfPowers ==
  ASSUME NEW d, IsFiniteSet(d), NEW w, \A i \in d : w[i] \in Nat
  PROVE  /\ Total(w, d) \in Nat /\ Total(w, {}) = 0
         /\ \A i \in d : Total(w, d) = w[i] + Total(w, d \ {i})
<1>1. d \in SUBSET d
  OBVIOUS
<1>2. /\ \A s \in SUBSET d : IsFiniteSet(Marks(w, s)) /\ Total(w, s) \in Nat
      /\ Total(w, {}) = 0
      /\ \A s \in SUBSET d : \A x \in s : Total(w, s) = w[x] + Total(w, s \ {x})
  BY TotalIs
<1> QED BY <1>1, <1>2

(* A number is one of its bits and the rest.                               *)
LEMMA NumOf ==
  ASSUME NEW d, IsFiniteSet(d), d \subseteq Nat
  PROVE  /\ Num(d) \in Nat /\ Num({}) = 0
         /\ \A i \in d : Num(d) = 2 ^ i + Num(d \ {i})
<1>1. \A i \in d : Power[i] = 2 ^ i /\ Power[i] \in Nat
  BY PowerIsNat DEF Power
<1>2. \A i \in d : Power[i] \in Nat
  BY <1>1
<1>3. /\ Total(Power, d) \in Nat /\ Total(Power, {}) = 0
      /\ \A i \in d : Total(Power, d) = Power[i] + Total(Power, d \ {i})
  BY <1>2, TotalOfPowers
<1> QED BY <1>1, <1>2, <1>3 DEF Num

(* The bits of a word are a finite set of naturals.                        *)
LEMMA WordsFinite ==
  ASSUME NEW n \in Nat, NEW d \in SUBSET (0 .. (n - 1))
  PROVE  /\ IsFiniteSet(d) /\ d \subseteq Nat
         /\ Num(d) \in Nat /\ Num({}) = 0
         /\ \A i \in d : Num(d) = 2 ^ i + Num(d \ {i})
<1>1. IsFiniteSet(0 .. (n - 1))
  <2>1. 0 \in Int /\ n - 1 \in Int
    OBVIOUS
  <2> QED BY <2>1, FS_Interval
<1>2. IsFiniteSet(d)
  BY <1>1, FS_Subset
<1>3. d \subseteq Nat
  OBVIOUS
<1> QED BY <1>2, <1>3, NumOf

(* Only no bits at all are 0. *)
LEMMA EmptyIsZero ==
  ASSUME NEW n \in Nat, NEW d \in SUBSET (0 .. (n - 1))
  PROVE  d = {} <=> Num(d) = 0
<1>1. Num({}) = 0 /\ \A i \in d : Num(d) = 2 ^ i + Num(d \ {i})
  BY WordsFinite
<1>2. ASSUME d # {} PROVE Num(d) # 0
  <2>1. PICK i \in d : TRUE
    BY <1>2
  <2>2. Num(d) = 2 ^ i + Num(d \ {i})
    BY <1>1
  <2>3. d \ {i} \in SUBSET (0 .. (n - 1)) /\ i \in Nat
    OBVIOUS
  <2>4. Num(d \ {i}) \in Nat
    BY <2>3, WordsFinite
  <2>5. 2 ^ i \in Nat /\ 2 ^ i > 0
    BY <2>3, PowerIsNat
  <2> QED BY <2>2, <2>4, <2>5
<1> QED BY <1>1, <1>2

(* n bits hold the numbers below 2^n. *)
LEMMA NumBelow ==
  ASSUME NEW n \in Nat, NEW d \in SUBSET (0 .. (n - 1))
  PROVE  Num(d) \in 0 .. (2 ^ n - 1)
<1> DEFINE Q == {m \in Nat : \A e \in SUBSET (0 .. (m - 1)) : Num(e) \in 0 .. (2 ^ m - 1)}
<1>1. 0 \in Q
  <2>1. ASSUME NEW e \in SUBSET (0 .. (0 - 1)) PROVE Num(e) \in 0 .. (2 ^ 0 - 1)
    <3>1. e = {}
      OBVIOUS
    <3>2. Num({}) = 0
      BY <3>1, WordsFinite
    <3> QED BY <3>1, <3>2, PowerZero
  <2> QED BY <2>1
<1>2. ASSUME NEW m \in Nat, m \in Q PROVE m + 1 \in Q
  <2>1. \A e \in SUBSET (0 .. (m - 1)) : Num(e) \in 0 .. (2 ^ m - 1)
    BY <1>2
  <2>2. ASSUME NEW e \in SUBSET (0 .. (m + 1 - 1)) PROVE Num(e) \in 0 .. (2 ^ (m + 1) - 1)
    <3>1. 2 ^ m \in Nat /\ 2 ^ (m + 1) = 2 * 2 ^ m
      BY PowerIsNat, PowerNext
    <3>2. CASE m \in e
      <4>1. e \ {m} \in SUBSET (0 .. (m - 1)) /\ m + 1 \in Nat
        OBVIOUS
      <4>2. Num(e) = 2 ^ m + Num(e \ {m})
        <5> HIDE DEF Q
        <5>1. m + 1 \in Nat
          OBVIOUS
        <5>2. Num(e) \in Nat /\ \A j \in e : Num(e) = 2 ^ j + Num(e \ {j})
          BY <5>1, <2>2, WordsFinite
        <5> QED BY <3>2, <5>2
      <4>3. Num(e \ {m}) \in 0 .. (2 ^ m - 1)
        BY <2>1, <4>1
      <4>4. \A a, b \in Nat : b \in 0 .. (a - 1) => a + b \in 0 .. (2 * a - 1)
        OBVIOUS
      <4>5. Num(e \ {m}) \in Nat
        BY <4>3
      <4> QED BY <3>1, <4>2, <4>3, <4>4, <4>5
    <3>3. CASE m \notin e
      <4>1. e \in SUBSET (0 .. (m - 1))
        BY <3>3
      <4>2. Num(e) \in 0 .. (2 ^ m - 1)
        BY <2>1, <4>1
      <4>3. \A a \in Nat : \A b \in 0 .. (a - 1) : b \in 0 .. (2 * a - 1)
        OBVIOUS
      <4> QED BY <3>1, <4>2, <4>3
    <3> QED BY <3>2, <3>3
  <2>3. m + 1 \in Nat
    OBVIOUS
  <2> QED BY <2>2, <2>3
<1>3. n \in Q
  <2> HIDE DEF Q
  <2>1. Nat \subseteq Q
    BY <1>1, <1>2, ByInduction
  <2> QED BY <2>1
<1> QED BY <1>3

(* What is above bit i counts in units of 2^i. *)
LEMMA NumSplit ==
  ASSUME NEW n \in Nat, NEW d \in SUBSET (0 .. (n - 1)), NEW i \in Nat
  PROVE  \E H \in Nat : Num(d) = Num(Low(d, i)) + 2 ^ i * H
<1> DEFINE Q == {m \in Nat : \A e \in SUBSET (0 .. (m - 1)) :
                   \E H \in Nat : Num(e) = Num(Low(e, i)) + 2 ^ i * H}
<1>0. 2 ^ i \in Nat
  BY PowerIsNat
<1>1. 0 \in Q
  <2>1. ASSUME NEW e \in SUBSET (0 .. (0 - 1))
        PROVE  \E H \in Nat : Num(e) = Num(Low(e, i)) + 2 ^ i * H
    <3>1. e = {} /\ Low({}, i) = {}
      <4>1. e = {}
        OBVIOUS
      <4> QED BY <4>1 DEF Low
    <3>2. Num({}) = 0
      BY <3>1, WordsFinite
    <3>3. \A a \in Nat : 0 = 0 + a * 0
      OBVIOUS
    <3>4. Num(e) = 0 /\ Num(Low(e, i)) = 0 /\ 0 \in Nat
      BY <3>1, <3>2
    <3>5. Num(e) = Num(Low(e, i)) + 2 ^ i * 0
      BY <1>0, <3>3, <3>4
    <3> QED BY <3>4, <3>5
  <2> QED BY <2>1
<1>2. ASSUME NEW m \in Nat, m \in Q PROVE m + 1 \in Q
  <2>1. \A e \in SUBSET (0 .. (m - 1)) : \E H \in Nat : Num(e) = Num(Low(e, i)) + 2 ^ i * H
    BY <1>2
  <2>2. ASSUME NEW e \in SUBSET (0 .. (m + 1 - 1))
        PROVE  \E H \in Nat : Num(e) = Num(Low(e, i)) + 2 ^ i * H
    <3>1. Num(e) \in Nat /\ \A j \in e : Num(e) = 2 ^ j + Num(e \ {j})
      <4>1. m + 1 \in Nat
        OBVIOUS
      <4> HIDE DEF Q
      <4> QED BY <4>1, <2>2, WordsFinite
    <3>2. CASE m \in e /\ m < i
      <4>1. Low(e, i) = e
        <5>1. \A j \in e : j < i
          BY <3>2
        <5> QED BY <5>1 DEF Low
      <4>2. \A a, b \in Nat : a = a + b * 0
        OBVIOUS
      <4> QED BY <1>0, <3>1, <4>1, <4>2
    <3>3. CASE m \in e /\ ~ (m < i)
      <4>1. e \ {m} \in SUBSET (0 .. (m - 1)) /\ Low(e, i) = Low(e \ {m}, i)
        BY <3>3 DEF Low
      <4>2. Num(e) = 2 ^ m + Num(e \ {m})
        BY <3>1, <3>3
      <4>3. PICK H \in Nat : Num(e \ {m}) = Num(Low(e, i)) + 2 ^ i * H
        BY <2>1, <4>1
      <4>4. 2 ^ m = 2 ^ i * 2 ^ (m - i) /\ 2 ^ (m - i) \in Nat
        <5>1. m - i \in Nat /\ i + (m - i) = m
          BY <3>3
        <5> QED BY <5>1, PowerSum, PowerIsNat
      <4>5. Num(Low(e, i)) \in Nat
        <5>1. Low(e, i) \in SUBSET (0 .. (m - 1))
          BY <4>1 DEF Low
        <5> QED BY <5>1, WordsFinite
      <4>6. \A a, b, c, h \in Nat : a * b + (c + a * h) = c + a * (b + h) /\ b + h \in Nat
        BY SMT
      <4>7. Num(e) = 2 ^ i * 2 ^ (m - i) + (Num(Low(e, i)) + 2 ^ i * H)
        BY <4>2, <4>3, <4>4
      <4>8. /\ Num(e) = Num(Low(e, i)) + 2 ^ i * (2 ^ (m - i) + H)
            /\ 2 ^ (m - i) + H \in Nat
        BY <1>0, <4>3, <4>4, <4>5, <4>6, <4>7
      <4> QED BY <4>8
    <3>4. CASE m \notin e
      <4>1. e \in SUBSET (0 .. (m - 1))
        BY <3>4
      <4> QED BY <2>1, <4>1
    <3> QED BY <3>2, <3>3, <3>4
  <2>3. m + 1 \in Nat
    OBVIOUS
  <2> QED BY <2>2, <2>3
<1>3. n \in Q
  <2> HIDE DEF Q
  <2>1. Nat \subseteq Q
    BY <1>1, <1>2, ByInduction
  <2> QED BY <2>1
<1> QED BY <1>3

(* The low i + 1 bits are the low i bits and bit i.                        *)
LEMMA LowIs ==
  ASSUME NEW d \in SUBSET Nat, NEW i \in Nat
  PROVE  /\ Low(d, i) \in SUBSET (0 .. (i - 1))
         /\ Low(d, i + 1) \in SUBSET (0 .. ((i + 1) - 1))
         /\ i \in d => i \in Low(d, i + 1) /\ Low(d, i + 1) \ {i} = Low(d, i)
         /\ i \notin d => Low(d, i + 1) = Low(d, i)
<1>1. \A j \in d : j \in Nat
  OBVIOUS
<1>2. \A j \in Nat : (j < i + 1 <=> j < i \/ j = i) /\ (j < i => j # i)
  OBVIOUS
<1>3. Low(d, i) \in SUBSET (0 .. (i - 1)) /\ Low(d, i + 1) \in SUBSET (0 .. ((i + 1) - 1))
  <2>1. \A j \in Nat : j < i => j \in 0 .. (i - 1)
    OBVIOUS
  <2>2. \A j \in Nat : j < i + 1 => j \in 0 .. ((i + 1) - 1)
    OBVIOUS
  <2>3. \A j \in Low(d, i) : j \in 0 .. (i - 1)
    BY <1>1, <2>1 DEF Low
  <2>4. \A j \in Low(d, i + 1) : j \in 0 .. ((i + 1) - 1)
    BY <1>1, <2>2 DEF Low
  <2> QED BY <2>3, <2>4
<1>4. i \in d => i \in Low(d, i + 1)
  BY DEF Low
<1>5. Low(d, i + 1) \ {i} = Low(d, i)
  <2>1. \A j : j \in Low(d, i + 1) \ {i} <=> j \in Low(d, i)
    BY <1>1, <1>2 DEF Low
  <2> QED BY <2>1
<1>6. ASSUME i \notin d PROVE Low(d, i + 1) = Low(d, i)
  <2>1. \A j : j \in Low(d, i + 1) <=> j \in Low(d, i)
    BY <1>1, <1>2, <1>6 DEF Low
  <2> QED BY <2>1
<1> QED BY <1>3, <1>4, <1>5, <1>6

OneAt(d, i) == IF i \in d THEN 1 ELSE 0

(* The low bits are the remainder, and a bit is the parity of the rest. *)
LEMMA NumBits ==
  ASSUME NEW n \in Nat, NEW d \in SUBSET (0 .. (n - 1)), NEW i \in Nat
  PROVE  /\ Num(d) % 2 ^ i = Num(Low(d, i))
         /\ Num(Low(d, i)) \in 0 .. (2 ^ i - 1)
         /\ Num(Low(d, i + 1)) = Num(Low(d, i)) + OneAt(d, i) * 2 ^ i
         /\ \E G \in Nat : Num(d) = 2 ^ i * (2 * G + OneAt(d, i)) + Num(Low(d, i))
         /\ i \in d <=> (Num(d) \div 2 ^ i) % 2 = 1
<1> DEFINE P == 2 ^ i
           L == Num(Low(d, i))
           b == OneAt(d, i)
<1>0. d \in SUBSET Nat
  OBVIOUS
<1>1. P \in Nat \ {0} /\ 2 ^ (i + 1) = 2 * P /\ i + 1 \in Nat
  BY PowerIsNat, PowerNext
<1>2. L \in 0 .. (P - 1) /\ L \in Nat
  <2>1. Low(d, i) \in SUBSET (0 .. (i - 1))
    BY <1>0, LowIs
  <2>2. L \in 0 .. (P - 1)
    BY <2>1, NumBelow
  <2> QED BY <2>2
<1>3. Num(Low(d, i + 1)) = L + b * P
  <2>1. CASE i \in d
    <3>1. Low(d, i + 1) \in SUBSET (0 .. ((i + 1) - 1)) /\ i \in Low(d, i + 1)
      BY <1>0, <2>1, LowIs
    <3>2. Low(d, i + 1) \ {i} = Low(d, i)
      BY <1>0, <2>1, LowIs
    <3>3. \A j \in Low(d, i + 1) : Num(Low(d, i + 1)) = 2 ^ j + Num(Low(d, i + 1) \ {j})
      BY <1>1, <3>1, WordsFinite
    <3>4. Num(Low(d, i + 1)) = P + L
      BY <3>1, <3>2, <3>3
    <3>5. b = 1 /\ \A x, y \in Nat : x + y = y + 1 * x
      BY <2>1 DEF OneAt
    <3> HIDE DEF b, P, L
    <3> QED BY <1>1, <1>2, <3>4, <3>5
  <2>2. CASE i \notin d
    <3>1. Low(d, i + 1) = Low(d, i)
      BY <1>0, <2>2, LowIs
    <3>2. b = 0 /\ \A x, y \in Nat : y = y + 0 * x
      BY <2>2 DEF OneAt
    <3> HIDE DEF b, P
    <3> QED BY <1>1, <1>2, <3>1, <3>2
  <2> QED BY <2>1, <2>2
<1>4. PICK H \in Nat : Num(d) = L + P * H
  BY NumSplit
<1>5. PICK G \in Nat : Num(d) = Num(Low(d, i + 1)) + 2 ^ (i + 1) * G
  BY <1>1, NumSplit
<1>6. b \in 0 .. 1
  BY DEF OneAt
<1>8. i \in d <=> b = 1
  BY DEF OneAt
<1> HIDE DEF P, L, b
<1>9. Num(d) = P * (2 * G + b) + L
  <2>1. Num(d) = (L + b * P) + (2 * P) * G
    BY <1>1, <1>3, <1>5 DEF P
  <2>2. \A x, y, z, g \in Nat : (x + y * z) + (2 * z) * g = z * (2 * g + y) + x
    BY SMT
  <2>3. b \in Nat
    BY <1>6
  <2> QED BY <1>1, <1>2, <2>1, <2>2, <2>3
<1>10. (P * H + L) % P = L
  BY <1>1, <1>2, DivModUnique
<1>11. Num(d) % P = L
  <2>1. L + P * H = P * H + L
    BY <1>1, <1>2
  <2> QED BY <1>4, <1>10, <2>1
<1>12. Num(d) \div P = 2 * G + b
  <2>1. 2 * G + b \in Int
    BY <1>6
  <2> QED BY <1>1, <1>2, <1>9, <2>1, DivModUnique
<1>13. (2 * G + b) % 2 = b
  <2>1. G \in Int /\ 2 \in Nat \ {0} /\ b \in 0 .. (2 - 1)
    BY <1>6
  <2> QED BY <2>1, DivModUnique
<1> QED BY <1>2, <1>3, <1>8, <1>9, <1>11, <1>12, <1>13 DEF P, L, b

(* The bits of an integer, to a width *)
BitsOf(w, n) == {i \in 0 .. (w - 1) : (n \div 2 ^ i) % 2 = 1}

(* The bits of n make n again, modulo the word.                            *)
LEMMA NumOfBits ==
  ASSUME NEW w \in Nat, NEW n \in Int
  PROVE  Num(BitsOf(w, n)) = n % 2 ^ w
<1> DEFINE Q == {m \in Nat : Num(BitsOf(m, n)) = n % 2 ^ m}
<1>1. 0 \in Q
  <2>1. BitsOf(0, n) = {} /\ {} \in SUBSET (0 .. (0 - 1)) /\ 0 \in Nat
    BY DEF BitsOf
  <2>2. Num({}) = 0
    BY <2>1, WordsFinite
  <2>3. n % 1 = 0
    BY SMT
  <2> QED BY <2>1, <2>2, <2>3, PowerZero
<1>2. ASSUME NEW m \in Nat, m \in Q PROVE m + 1 \in Q
  <2> DEFINE P == 2 ^ m
             q == n \div P
             y == n % P
             p == q \div 2
             b == q % 2
             B == BitsOf(m, n)
             C == BitsOf(m + 1, n)
  <2>1. P \in Nat \ {0} /\ 2 ^ (m + 1) = 2 * P /\ m + 1 \in Nat
    BY PowerIsNat, PowerNext
  <2>2. q \in Int /\ y \in 0 .. (P - 1) /\ n = P * q + y
    <3> HIDE DEF P
    <3> QED BY <2>1, DivMod
  <2>3. p \in Int /\ b \in 0 .. 1 /\ q = 2 * p + b
    <3>1. 2 \in Nat \ {0}
      OBVIOUS
    <3>2. p \in Int /\ b \in 0 .. (2 - 1) /\ q = 2 * p + b
      <4> HIDE DEF q
      <4> QED BY <2>2, <3>1, DivMod
    <3> QED BY <3>2
  <2>4. Num(B) = y
    BY <1>2
  <2>5. Num(C) = b * P + y
    <3>1. C \in SUBSET (0 .. ((m + 1) - 1)) /\ C \ {m} = B /\ (m \in C <=> b = 1)
      BY DEF BitsOf
    <3>2. CASE b = 1
      <4>1. \A j \in C : Num(C) = 2 ^ j + Num(C \ {j})
        <5> HIDE DEF C, Q
        <5> QED BY <2>1, <3>1, WordsFinite
      <4>2. Num(C) = P + y
        <5> HIDE DEF C, B, b, y
        <5> QED BY <2>4, <3>1, <3>2, <4>1
      <4>3. \A x \in Nat : 1 * x = x
        OBVIOUS
      <4> HIDE DEF b, P, y, C
      <4> QED BY <2>1, <3>2, <4>2, <4>3
    <3>3. CASE b # 1
      <4>1. C = B
        <5> HIDE DEF C, B, b
        <5> QED BY <3>1, <3>3
      <4>2. b = 0
        <5> HIDE DEF b
        <5> QED BY <2>3, <3>3
      <4>3. \A x, z \in Nat : 0 * x + z = z
        OBVIOUS
      <4> HIDE DEF b, P, y, C, B
      <4> QED BY <2>1, <2>2, <2>4, <4>1, <4>2, <4>3
    <3> QED BY <3>2, <3>3
  <2>6. n % (2 * P) = b * P + y
    <3> HIDE DEF P, q, y, p, b
    <3>1. n = (2 * P) * p + (b * P + y)
      <4>1. \A x, u, v, z \in Int : x * (2 * u + v) + z = (2 * x) * u + (v * x + z)
        BY SMT
      <4>2. P \in Int /\ y \in Int /\ b \in Int
        BY <2>1, <2>2, <2>3
      <4> QED BY <2>2, <2>3, <4>1, <4>2
    <3>2. b * P + y \in 0 .. (2 * P - 1) /\ 2 * P \in Nat \ {0}
      <4>1. CASE b = 0
        <5>1. 0 * P + y = y
          BY <2>1, <2>2
        <5> QED BY <2>1, <2>2, <4>1, <5>1
      <4>2. CASE b = 1
        <5>1. 1 * P + y = P + y
          BY <2>1, <2>2
        <5> QED BY <2>1, <2>2, <4>2, <5>1
      <4> QED BY <2>3, <4>1, <4>2
    <3>3. ((2 * P) * p + (b * P + y)) % (2 * P) = b * P + y
      <4> DEFINE M == 2 * P
                 z == b * P + y
      <4>1. M \in Nat \ {0} /\ z \in 0 .. (M - 1)
        BY <3>2
      <4> HIDE DEF M, z
      <4>2. (M * p + z) % M = z
        BY <2>3, <4>1, DivModUnique
      <4> QED BY <4>2 DEF M, z
    <3> QED BY <3>1, <3>3
  <2> HIDE DEF P, b, y, C
  <2>7. Num(C) = n % 2 ^ (m + 1)
    BY <2>1, <2>5, <2>6
  <2> QED BY <2>1, <2>7 DEF C
<1>3. w \in Q
  <2> HIDE DEF Q
  <2>1. Nat \subseteq Q
    BY <1>1, <1>2, ByInduction
  <2> QED BY <2>1
<1> QED BY <1>3

(* A word is the bits of its number. *)
LEMMA BitsOfNum ==
  ASSUME NEW w \in Nat, NEW d \in SUBSET (0 .. (w - 1))
  PROVE  BitsOf(w, Num(d)) = d
<1>1. \A i \in 0 .. (w - 1) : i \in d <=> (Num(d) \div 2 ^ i) % 2 = 1
  <2>1. ASSUME NEW i \in 0 .. (w - 1) PROVE i \in d <=> (Num(d) \div 2 ^ i) % 2 = 1
    <3>1. i \in Nat
      OBVIOUS
    <3> QED BY <3>1, NumBits
  <2> QED BY <2>1
<1> QED BY <1>1 DEF BitsOf
=============================================================================
