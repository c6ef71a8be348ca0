------------------------------ MODULE CommonLemmas ----------------------------
(***************************************************************************)
(* Facts that the proofs about several components cite: % for an arbitrary *)
(* modulus, on which everything about counters and times that overflow     *)
(* rests, induction over naturals and finite sets, and sums.               *)
(***************************************************************************)
EXTENDS Integers, Functions, FiniteSetTheorems, WellFoundedInduction, TLAPS

(* Division with remainder: what \div and % return.  The provers know      *)
(* integer division only through this and ModUnique; the rest is derived.  *)
LEMMA DivMod ==
  ASSUME NEW a \in Int, NEW m \in Nat \ {0}
  PROVE  /\ a % m \in 0 .. (m - 1)
         /\ a \div m \in Int
         /\ a = (m * (a \div m)) + (a % m)
  BY SMT

(* The remainder is determined by the decomposition.                       *)
LEMMA ModUnique ==
  ASSUME NEW m \in Nat \ {0}, NEW q \in Int, NEW r \in 0 .. (m - 1)
  PROVE  ((m * q) + r) % m = r
  BY SMT

(* A number below the modulus is its own remainder.                        *)
LEMMA ModSmall ==
  ASSUME NEW m \in Nat \ {0}, NEW a \in 0 .. (m - 1)
  PROVE  a % m = a
  BY SMT

(* Multiplication distributes over sum and difference.                     *)
LEMMA MulDist ==
  ASSUME NEW m \in Int, NEW p \in Int, NEW q \in Int
  PROVE  /\ m * (p + q) = (m * p) + (m * q)
         /\ m * (p - q) = (m * p) - (m * q)
         /\ m * p \in Int
  BY SMT

(* Multiples of the modulus do not change the remainder.                   *)
LEMMA ModShift ==
  ASSUME NEW a \in Int, NEW k \in Int, NEW m \in Nat \ {0}
  PROVE  (a + (m * k)) % m = a % m
<1> DEFINE q == a \div m
           r == a % m
<1>1. q \in Int /\ r \in 0 .. (m - 1) /\ a = (m * q) + r
  BY DivMod
<1> HIDE DEF q, r
<1>2. a + (m * k) = (m * (q + k)) + r /\ q + k \in Int
  BY <1>1, MulDist
<1>3. ((m * (q + k)) + r) % m = r
  BY <1>1, <1>2, ModUnique
<1> QED BY <1>2, <1>3 DEF r

(* Incrementing a wrapped counter wraps the incremented counter.           *)
LEMMA ModInc ==
  ASSUME NEW a \in Nat, NEW m \in Nat \ {0}
  PROVE  ((a % m) + 1) % m = (a + 1) % m
<1> DEFINE q == a \div m
           r == a % m
<1>1. q \in Int /\ r \in 0 .. (m - 1) /\ a = (m * q) + r
  BY DivMod
<1> HIDE DEF q, r
<1>2. a + 1 = (r + 1) + (m * q) /\ r + 1 \in Int
  BY <1>1, MulDist
<1>3. (a + 1) % m = (r + 1) % m
  BY <1>1, <1>2, ModShift
<1> QED BY <1>3 DEF r

(* The difference of two wrapped counters less than m apart is exact.      *)
LEMMA ModDist ==
  ASSUME NEW a \in Nat, NEW b \in Nat, NEW m \in Nat \ {0}, b <= a, a - b < m
  PROVE  ((a % m) - (b % m)) % m = a - b
<1> DEFINE q == a \div m
           r == a % m
           p == b \div m
           s == b % m
<1>1. q \in Int /\ r \in 0 .. (m - 1) /\ a = (m * q) + r
  BY DivMod
<1>2. p \in Int /\ s \in 0 .. (m - 1) /\ b = (m * p) + s
  BY DivMod
<1> HIDE DEF q, r, p, s
<1>3. a - b = (r - s) + (m * (q - p)) /\ q - p \in Int /\ r - s \in Int
  BY <1>1, <1>2, MulDist
<1>4. (a - b) % m = (r - s) % m
  BY ZenonT(30), <1>3, ModShift
<1>5. (a - b) % m = a - b
  BY ModSmall
<1> QED BY <1>4, <1>5 DEF r, s

(* Two counters less than m apart collide modulo m only if they are equal. *)
LEMMA ModNeq ==
  ASSUME NEW a \in Nat, NEW b \in Nat, NEW m \in Nat \ {0}, b < a, a - b < m
  PROVE  a % m # b % m
<1>1. b <= a
  OBVIOUS
<1>2. ((a % m) - (b % m)) % m = a - b
  BY <1>1, ModDist
<1>3. a % m \in Int
  BY DivMod
<1>4. ASSUME a % m = b % m PROVE (a % m) - (b % m) = 0
  BY <1>3, <1>4
<1>5. 0 % m = 0
  BY ModSmall
<1> QED BY <1>2, <1>4, <1>5

(* Wrapping at a multiple of m first does not change the remainder by m.   *)
LEMMA ModMod ==
  ASSUME NEW a \in Nat, NEW k \in Nat \ {0}, NEW m \in Nat \ {0}
  PROVE  (a % (m * k)) % m = a % m
<1>1. PICK n \in Nat \ {0} : n = m * k
  BY SMT
<1> DEFINE q == a \div n
           r == a % n
<1>2. q \in Int /\ r \in 0 .. (n - 1) /\ a = (n * q) + r
  BY DivMod
<1> HIDE DEF q, r
<1>3. n * q = m * (k * q) /\ k * q \in Int
  BY <1>1, <1>2, SMT
<1>4. a = r + (m * (k * q)) /\ r \in Int
  BY <1>2, <1>3
<1>5. a % m = r % m
  BY <1>3, <1>4, ModShift
<1> QED BY <1>1, <1>5 DEF r

-------------------------------------------------------------------------------
(* A set of naturals that is not empty has a least element.                *)
LEMMA LeastElement ==
  ASSUME NEW T \in SUBSET Nat, T # {}
  PROVE  \E m \in T : \A k \in T : m <= k
<1> DEFINE R == OpToRel(<, Nat)
<1>1. IsWellFoundedOn(R, Nat)
  BY NatLessThanWellFounded
<1>2. PICK m \in T : \A k \in T : ~(<<k, m>> \in R)
  <2> HIDE DEF R
  <2> QED BY <1>1, WFMin
<1>3. \A k \in T : k < m => <<k, m>> \in R
  BY DEF OpToRel
<1> HIDE DEF R
<1>4. \A k \in T : ~(k < m)
  BY <1>2, <1>3
<1> QED BY <1>4

(* A set of naturals with zero and all successors is all of them.          *)
LEMMA SetInduction ==
  ASSUME NEW P \in SUBSET Nat, 0 \in P, \A n \in P : n + 1 \in P
  PROVE  P = Nat
<1> SUFFICES ASSUME Nat \ P # {} PROVE FALSE
  OBVIOUS
<1>1. PICK m \in Nat \ P : \A k \in Nat \ P : m <= k
  BY LeastElement
<1>2. m # 0 /\ m - 1 \in P
  BY <1>1
<1> QED BY <1>1, <1>2

(* Among subsets of a finite set there is one without a smaller one.       *)
LEMMA SmallestSubset ==
  ASSUME NEW S, IsFiniteSet(S), NEW B \in SUBSET (SUBSET S), B # {}
  PROVE  \E T \in B : \A U \in B : Cardinality(T) <= Cardinality(U)
<1>1. {Cardinality(T) : T \in B} \in SUBSET Nat
  BY FS_Subset, FS_CardinalityType
<1>2. {Cardinality(T) : T \in B} # {}
  OBVIOUS
<1>3. PICK m \in {Cardinality(T) : T \in B} : \A k \in {Cardinality(T) : T \in B} : m <= k
  BY <1>1, <1>2, LeastElement
<1> QED BY <1>3

(* A proper part of a finite set is smaller.                               *)
LEMMA SmallerPart ==
  ASSUME NEW S, IsFiniteSet(S), NEW T \in SUBSET S, NEW x \in T
  PROVE  /\ T \ {x} \in SUBSET S
         /\ Cardinality(T) \in Nat /\ Cardinality(T \ {x}) \in Nat
         /\ Cardinality(T \ {x}) = Cardinality(T) - 1
BY FS_Subset, FS_RemoveElement, FS_CardinalityType

-------------------------------------------------------------------------------
(* Sums of the values of a function over a finite set.  The library defines *)
(* them by recursion, in the order that CHOOSE picks the elements; the      *)
(* lemmas say that the recursion has a solution and the order is no matter. *)

Pick(s) == CHOOSE x \in s : TRUE
SumStep(g, f, s) == IF s = {} THEN 0 ELSE f[Pick(s)] + g[s \ {Pick(s)}]
IsSum(g, f, S) == g = [s \in SUBSET S |-> SumStep(g, f, s)]

LEMMA SumIs ==
  ASSUME NEW f, NEW S
  PROVE  SumFunctionOnSet(f, S) = (CHOOSE g : IsSum(g, f, S))[S]
BY DEF SumFunctionOnSet, FoldFunctionOnSet, MapThenFoldSet, IsSum, SumStep, Pick

LEMMA SumExists ==
  ASSUME NEW S, IsFiniteSet(S), NEW f, \A x \in S : f[x] \in Int
  PROVE  \E g \in [SUBSET S -> Int] : IsSum(g, f, S)
<1> DEFINE Good(g, n) == \A s \in SUBSET S : Cardinality(s) <= n => g[s] = SumStep(g, f, s)
           P == {n \in Nat : \E g \in [SUBSET S -> Int] : Good(g, n)}
<1>1. 0 \in P
  <2> DEFINE g == [s \in SUBSET S |-> 0]
  <2>1. \A s \in SUBSET S : Cardinality(s) <= 0 => s = {}
    BY FS_Subset, FS_CardinalityType, FS_EmptySet
  <2>2. Good(g, 0)
    BY <2>1 DEF SumStep
  <2>3. g \in [SUBSET S -> Int]
    OBVIOUS
  <2> QED BY <2>2, <2>3
<1>2. ASSUME NEW n \in P PROVE n + 1 \in P
  <2>1. PICK h \in [SUBSET S -> Int] : Good(h, n)
    OBVIOUS
  <2> DEFINE g == [s \in SUBSET S |-> IF Cardinality(s) <= n THEN h[s] ELSE SumStep(h, f, s)]
  <2>2. \A s \in SUBSET S : s # {} => /\ Pick(s) \in s
                                      /\ s \ {Pick(s)} \in SUBSET S
                                      /\ Cardinality(s) \in Nat
                                      /\ Cardinality(s \ {Pick(s)}) = Cardinality(s) - 1
    BY SmallerPart DEF Pick
  <2>3. ASSUME NEW s \in SUBSET S PROVE SumStep(h, f, s) \in Int
    <3>1. s # {} => f[Pick(s)] \in Int /\ h[s \ {Pick(s)}] \in Int
      BY <2>2
    <3> HIDE DEF Good
    <3> QED BY <3>1 DEF SumStep
  <2>4. g \in [SUBSET S -> Int]
    BY <2>3
  <2>5. ASSUME NEW s \in SUBSET S, Cardinality(s) <= n + 1
        PROVE  g[s] = SumStep(g, f, s)
    <3>1. SumStep(g, f, s) = SumStep(h, f, s)
      <4>1. CASE s = {}
        BY <4>1 DEF SumStep
      <4>2. CASE s # {}
        <5>1. Cardinality(s \ {Pick(s)}) <= n /\ s \ {Pick(s)} \in SUBSET S
          BY <4>2, <2>2, <2>5
        <5>2. g[s \ {Pick(s)}] = h[s \ {Pick(s)}]
          BY <5>1
        <5> HIDE DEF g
        <5> QED BY <5>2 DEF SumStep
      <4> QED BY <4>1, <4>2
    <3>2. g[s] = SumStep(h, f, s)
      BY <2>1, <2>5
    <3> HIDE DEF g
    <3> QED BY <3>1, <3>2
  <2> HIDE DEF g
  <2>6. Good(g, n + 1)
    BY <2>5
  <2> QED BY <2>4, <2>6
<1>3. P = Nat
  <2>1. P \in SUBSET Nat
    OBVIOUS
  <2> HIDE DEF P
  <2> QED BY <1>1, <1>2, <2>1, SetInduction
<1>4. PICK g \in [SUBSET S -> Int] : Good(g, Cardinality(S))
  BY <1>3, FS_CardinalityType
<1>5. \A s \in SUBSET S : g[s] = SumStep(g, f, s)
  BY <1>4, FS_Subset
<1> QED BY <1>5 DEF IsSum

(* Where two functions agree, so do their sums.                            *)
LEMMA SumUnique ==
  ASSUME NEW S, NEW T, IsFiniteSet(T), T \subseteq S,
         NEW f, NEW e, \A x \in T : f[x] = e[x],
         NEW g, IsSum(g, f, S), NEW h, IsSum(h, e, T)
  PROVE  g[T] = h[T]
<1> DEFINE B == {s \in SUBSET T : g[s] # h[s]}
<1> SUFFICES ASSUME B # {} PROVE FALSE
  OBVIOUS
<1>1. PICK s \in B : \A u \in B : Cardinality(s) <= Cardinality(u)
  BY SmallestSubset
<1>2. g[s] = SumStep(g, f, s) /\ h[s] = SumStep(h, e, s)
  BY DEF IsSum
<1>3. s # {}
  BY <1>2 DEF SumStep
<1>4. Pick(s) \in s
  BY <1>3 DEF Pick
<1>5. /\ s \ {Pick(s)} \in SUBSET T
      /\ Cardinality(s) \in Nat
      /\ Cardinality(s \ {Pick(s)}) = Cardinality(s) - 1
  BY <1>4, SmallerPart
<1>6. g[s \ {Pick(s)}] = h[s \ {Pick(s)}]
  BY <1>1, <1>5
<1> QED BY <1>2, <1>4, <1>6 DEF SumStep

(* The sum is an integer, and what the recursion says of it.               *)
LEMMA SumRecursion ==
  ASSUME NEW S, IsFiniteSet(S), NEW f, \A x \in S : f[x] \in Int
  PROVE  /\ SumFunctionOnSet(f, S) \in Int
         /\ S = {} => SumFunctionOnSet(f, S) = 0
         /\ S # {} => SumFunctionOnSet(f, S) =
                        f[Pick(S)] + SumFunctionOnSet(f, S \ {Pick(S)})
<1> DEFINE Sol(T) == CHOOSE g : IsSum(g, f, T)
<1>1. ASSUME NEW T \in SUBSET S
      PROVE  IsSum(Sol(T), f, T)
  <2>1. \E g : IsSum(g, f, T)
    BY SumExists, FS_Subset
  <2> QED BY <2>1
<1>2. PICK g \in [SUBSET S -> Int] : IsSum(g, f, S)
  BY SumExists
<1>3. ASSUME NEW T \in SUBSET S
      PROVE  SumFunctionOnSet(f, T) = g[T]
  <2>1. IsFiniteSet(T)
    BY FS_Subset
  <2>2. g[T] = Sol(T)[T]
    <3>1. IsSum(Sol(T), f, T)
      BY <1>1
    <3> HIDE DEF Sol
    <3> QED BY <2>1, <3>1, <1>2, SumUnique
  <2> QED BY <2>2, SumIs
<1>4. g[S] = SumStep(g, f, S)
  BY <1>2 DEF IsSum
<1>5. S # {} => S \ {Pick(S)} \in SUBSET S
  OBVIOUS
<1> HIDE DEF Sol
<1> QED BY <1>2, <1>3, <1>4, <1>5 DEF SumStep

LEMMA SumSame ==
  ASSUME NEW S, IsFiniteSet(S), NEW f, NEW e, \A x \in S : f[x] = e[x] /\ f[x] \in Int
  PROVE  SumFunctionOnSet(f, S) = SumFunctionOnSet(e, S)
<1> DEFINE g == CHOOSE g : IsSum(g, f, S)
           h == CHOOSE h : IsSum(h, e, S)
<1>1. IsSum(g, f, S)
  <2>1. \E x : IsSum(x, f, S)
    BY SumExists
  <2> QED BY <2>1
<1>2. IsSum(h, e, S)
  <2>1. \E x : IsSum(x, e, S)
    <3>1. \A x \in S : e[x] \in Int
      OBVIOUS
    <3> QED BY <3>1, SumExists
  <2> QED BY <2>1
<1>3. SumFunctionOnSet(f, S) = g[S] /\ SumFunctionOnSet(e, S) = h[S]
  BY SumIs
<1> HIDE DEF g, h
<1> QED BY <1>1, <1>2, <1>3, SumUnique

(* Any element can be taken out first.                                     *)
LEMMA SumSplit ==
  ASSUME NEW S, IsFiniteSet(S), NEW f, \A x \in S : f[x] \in Int, NEW y \in S
  PROVE  SumFunctionOnSet(f, S) = f[y] + SumFunctionOnSet(f, S \ {y})
<1> DEFINE Sum(T) == SumFunctionOnSet(f, T)
<1>1. \A T \in SUBSET S : Sum(T) \in Int
  BY SumRecursion, FS_Subset
<1>2. \A T \in SUBSET S : T # {} => Sum(T) = f[Pick(T)] + Sum(T \ {Pick(T)})
  BY SumRecursion, FS_Subset
<1> HIDE DEF Sum
<1> DEFINE B == {T \in SUBSET S : \E x \in T : Sum(T) # f[x] + Sum(T \ {x})}
<1> SUFFICES ASSUME B # {} PROVE FALSE
  BY DEF Sum
<1>3. PICK T \in B : \A U \in B : Cardinality(T) <= Cardinality(U)
  BY SmallestSubset
<1>4. PICK x \in T : Sum(T) # f[x] + Sum(T \ {x})
  OBVIOUS
<1> DEFINE p == Pick(T)
<1>5. p \in T
  BY DEF Pick
<1>6. Sum(T) = f[p] + Sum(T \ {p})
  BY <1>2, <1>5
<1> HIDE DEF p
<1>7. p # x
  BY <1>4, <1>6
<1>8. \A z \in T : /\ T \ {z} \in SUBSET S
                   /\ Cardinality(T) \in Nat /\ Cardinality(T \ {z}) = Cardinality(T) - 1
  BY SmallerPart
<1> HIDE DEF B
<1>9. \A z \in T : T \ {z} \notin B
  BY <1>3, <1>8
<1> USE DEF B
<1>10. Sum(T \ {p}) = f[x] + Sum((T \ {p}) \ {x})
  BY <1>5, <1>7, <1>8, <1>9
<1>11. Sum(T \ {x}) = f[p] + Sum((T \ {x}) \ {p})
  BY <1>5, <1>7, <1>8, <1>9
<1>12. (T \ {p}) \ {x} = (T \ {x}) \ {p} /\ (T \ {p}) \ {x} \in SUBSET S
  OBVIOUS
<1>13. Sum((T \ {p}) \ {x}) \in Int /\ f[x] \in Int /\ f[p] \in Int
  BY <1>1, <1>5, <1>12
<1>14. PICK r \in Int : r = Sum((T \ {p}) \ {x})
  BY <1>13
<1>15. Sum(T) = f[p] + (f[x] + r)
  BY <1>6, <1>10, <1>14
<1>16. f[x] + Sum(T \ {x}) = f[x] + (f[p] + r)
  BY <1>11, <1>12, <1>14
<1>17. f[p] + (f[x] + r) = f[x] + (f[p] + r)
  BY <1>13
<1> QED BY <1>4, <1>15, <1>16, <1>17

(* The first or the last term of a sum can be taken out.                   *)
LEMMA SumEnds ==
  ASSUME NEW a \in Int, NEW n \in Int, a <= n + 1,
         NEW f, \A k \in a .. (n + 1) : f[k] \in Int
  PROVE  /\ SumFunctionOnSet(f, a .. (n + 1)) = f[n + 1] + SumFunctionOnSet(f, a .. n)
         /\ a = 1 => SumFunctionOnSet(f, a .. (n + 1)) = f[a] + SumFunctionOnSet(f, 2 .. (n + 1))
<1> DEFINE S == a .. (n + 1)
<1>1. IsFiniteSet(S)
  BY FS_Interval
<1>2. S \ {n + 1} = a .. n /\ S \ {a} = (a + 1) .. (n + 1) /\ n + 1 \in S /\ a \in S
  OBVIOUS
<1>3. \A k \in S : f[k] \in Int
  OBVIOUS
<1>5. a = 1 => (a + 1) .. (n + 1) = 2 .. (n + 1)
  OBVIOUS
<1> HIDE DEF S
<1>4. \A k \in S : SumFunctionOnSet(f, S) = f[k] + SumFunctionOnSet(f, S \ {k})
  BY <1>1, <1>3, SumSplit
<1> QED BY <1>2, <1>4, <1>5 DEF S

(* A sum does not depend on where its terms stand.                         *)
LEMMA SumShift ==
  ASSUME NEW n \in Nat, NEW f, NEW e,
         \A k \in 1 .. n : f[k] \in Int /\ e[k + 1] = f[k]
  PROVE  SumFunctionOnSet(e, 2 .. (n + 1)) = SumFunctionOnSet(f, 1 .. n)
<1> DEFINE P == {m \in Nat : m <= n =>
                   SumFunctionOnSet(e, 2 .. (m + 1)) = SumFunctionOnSet(f, 1 .. m)}
<1>1. 0 \in P
  <2>1. 2 .. (0 + 1) = {} /\ 1 .. 0 = {}
    OBVIOUS
  <2>2. \A g : SumFunctionOnSet(g, {}) = 0
    BY SumRecursion, FS_EmptySet
  <2> QED BY <2>1, <2>2
<1>2. ASSUME NEW m \in P PROVE m + 1 \in P
  <2> SUFFICES ASSUME m + 1 <= n
               PROVE  SumFunctionOnSet(e, 2 .. ((m + 1) + 1)) = SumFunctionOnSet(f, 1 .. (m + 1))
    OBVIOUS
  <2>1. SumFunctionOnSet(f, 1 .. (m + 1)) = f[m + 1] + SumFunctionOnSet(f, 1 .. m)
    <3>1. \A k \in 1 .. (m + 1) : f[k] \in Int
      OBVIOUS
    <3> QED BY <3>1, SumEnds
  <2>2. SumFunctionOnSet(e, 2 .. ((m + 1) + 1)) = e[m + 2] + SumFunctionOnSet(e, 2 .. (m + 1))
    <3>1. ASSUME NEW k \in 2 .. ((m + 1) + 1) PROVE e[k] \in Int
      <4>1. k - 1 \in 1 .. n /\ k = (k - 1) + 1
        OBVIOUS
      <4> QED BY <4>1
    <3>2. m + 1 \in Int /\ 2 <= (m + 1) + 1 /\ (m + 1) + 1 = m + 2
      OBVIOUS
    <3>3. SumFunctionOnSet(e, 2 .. ((m + 1) + 1)) =
            e[(m + 1) + 1] + SumFunctionOnSet(e, 2 .. (m + 1))
      BY <3>1, <3>2, SumEnds
    <3> QED BY <3>2, <3>3
  <2>3. e[m + 2] = f[m + 1]
    <3>1. m + 1 \in 1 .. n /\ m + 2 = (m + 1) + 1
      OBVIOUS
    <3> QED BY <3>1
  <2>4. SumFunctionOnSet(e, 2 .. (m + 1)) = SumFunctionOnSet(f, 1 .. m)
    OBVIOUS
  <2> QED BY <2>1, <2>2, <2>3, <2>4
<1>3. P = Nat
  <2>1. P \in SUBSET Nat
    OBVIOUS
  <2> HIDE DEF P
  <2> QED BY <1>1, <1>2, <2>1, SetInduction
<1> QED BY <1>3
===============================================================================
