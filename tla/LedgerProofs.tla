---------------------------- MODULE LedgerProofs ----------------------------
(***************************************************************************)
(* Facts about the operators of Ledger, above all about its totals.  A     *)
(* total is a fold over a finite set, that is a recursive function; what   *)
(* is needed of it is proved by looking at a smallest counterexample, for  *)
(* which WFMin asks for no operator as a parameter.                        *)
(***************************************************************************)
EXTENDS Ledger, FiniteSetTheorems, WellFoundedInduction, TLAPS

(* Every nonempty set of naturals has a least element.                     *)
LEMMA LeastExists ==
  ASSUME NEW T \in SUBSET Nat, T # {}
  PROVE  \E n \in T : \A m \in T : n =< m
  <1>1. PICK n \in T : \A m \in T : ~(<<m, n>> \in OpToRel(<, Nat))
    BY NatLessThanWellFounded, WFMin
  <1>2. ASSUME NEW m \in T PROVE n =< m
    <2>1. ~(m < n)
      BY <1>1 DEF OpToRel
    <2> QED
      BY <2>1
  <1> QED
    BY <1>2

LEMMA LeastIsMember ==
  ASSUME NEW T \in SUBSET Nat, T # {}
  PROVE  Min(T) \in T
  BY LeastExists DEF Min

(* A nonempty collection of finite sets has a member that no longer        *)
(* belongs to it when any one element is taken out.                        *)
LEMMA Smallest ==
  ASSUME NEW S, IsFiniteSet(S), NEW B \in SUBSET (SUBSET S), B # {}
  PROVE  \E s \in B : \A x \in s : s \ {x} \notin B
  <1> DEFINE T == {Cardinality(s) : s \in B}
  <1>1. \A s \in B : IsFiniteSet(s) /\ Cardinality(s) \in Nat
    BY FS_Subset, FS_CardinalityType
  <1>2. T \in SUBSET Nat /\ T # {}
    BY <1>1
  <1>3. PICK s \in B : \A r \in B : Cardinality(s) =< Cardinality(r)
    <2>1. \E n \in T : \A m \in T : n =< m
      <3> HIDE DEF T
      <3> QED
        BY <1>2, LeastExists
    <2> QED
      BY <2>1
  <1>4. ASSUME NEW x \in s PROVE s \ {x} \notin B
    <2>1. Cardinality(s \ {x}) = Cardinality(s) - 1
      BY <1>1, FS_RemoveElement
    <2> QED
      BY <1>1, <1>3, <2>1
  <1> QED
    BY <1>4

-----------------------------------------------------------------------------
(* The fold behind a total: sums[s] adds up h over s, taking the elements  *)
(* in the order in which CHOOSE picks them.                                *)
Pick(s) == CHOOSE x \in s : TRUE

Total(h, S) == MapThenSumSet(LAMBDA x : h[x], S)

PickedSum(f, h, s) == IF s = {} THEN 0 ELSE h[Pick(s)] + f[s \ {Pick(s)}]

Sums(f, h, S) ==
  /\ f \in [SUBSET S -> Nat]
  /\ \A s \in SUBSET S : f[s] = PickedSum(f, h, s)

LEMMA TotalIsFold ==
  ASSUME NEW h, NEW S
  PROVE  Total(h, S) =
           (CHOOSE f : f = [s \in SUBSET S |-> IF s = {} THEN 0 ELSE h[Pick(s)] + f[s \ {Pick(s)}]])[S]
  BY DEF Total, MapThenSumSet, MapThenFoldSet, Pick

LEMMA PickIsMember ==
  ASSUME NEW s, s # {}
  PROVE  Pick(s) \in s
  BY DEF Pick

(* Such a function exists: it is built up by the size of its arguments.    *)
LEMMA SumsExist ==
  ASSUME NEW S, IsFiniteSet(S), NEW h, \A x \in S : h[x] \in Nat
  PROVE  \E f : Sums(f, h, S)
  <1> DEFINE Upto(f, n) == /\ f \in [SUBSET S -> Nat]
                           /\ \A s \in SUBSET S : Cardinality(s) < n => f[s] = PickedSum(f, h, s)
             Bad == {n \in Nat : ~ \E f : Upto(f, n)}
  <1>1. \A s \in SUBSET S : IsFiniteSet(s) /\ Cardinality(s) \in Nat /\ Cardinality(s) =< Cardinality(S)
    BY FS_Subset, FS_CardinalityType
  <1>2. ASSUME Bad # {} PROVE FALSE
    <2>1. PICK n \in Bad : \A m \in Bad : n =< m
      BY <1>2, LeastExists
    <2>2. n # 0
      <3>1. Upto([s \in SUBSET S |-> 0], 0)
        BY <1>1
      <3> QED
        BY <3>1
    <2>3. PICK f : Upto(f, n - 1)
      <3>1. n - 1 \in Nat /\ n - 1 \notin Bad
        <4>1. n \in Nat
          BY <2>1
        <4> HIDE DEF Bad
        <4> QED
          BY <2>1, <2>2, <4>1
      <3> HIDE DEF Upto
      <3> QED
        BY <3>1
    <2> DEFINE g == [s \in SUBSET S |-> PickedSum(f, h, s)]
    <2>4. \A s \in SUBSET S : s # {} => Pick(s) \in s /\ s \ {Pick(s)} \in SUBSET S
      BY PickIsMember
    <2>5. g \in [SUBSET S -> Nat]
      BY <2>3, <2>4 DEF PickedSum
    <2>6. ASSUME NEW s \in SUBSET S, Cardinality(s) < n PROVE g[s] = PickedSum(g, h, s)
      <3>1. CASE s = {}
        BY <3>1 DEF PickedSum
      <3>2. CASE s # {}
        <4> DEFINE r == s \ {Pick(s)}
        <4>1. r \in SUBSET S /\ Cardinality(r) = Cardinality(s) - 1
          BY <1>1, <2>4, <3>2, FS_RemoveElement
        <4>2. f[r] = PickedSum(f, h, r)
          BY <1>1, <2>1, <2>3, <2>6, <4>1
        <4> QED
          BY <3>2, <4>1, <4>2 DEF PickedSum
      <3> QED
        BY <3>1, <3>2
    <2>7. Upto(g, n)
      BY <2>5, <2>6
    <2> QED
      BY <2>1, <2>7
  <1>3. PICK f : Upto(f, Cardinality(S) + 1)
    <2>1. Cardinality(S) + 1 \in Nat
      BY <1>1
    <2> HIDE DEF Upto
    <2> QED
      BY <1>2, <2>1
  <1>4. Sums(f, h, S)
    BY <1>1, <1>3 DEF Sums
  <1> QED
    BY <1>4

(* Any element may be added last.                                          *)
Splits(f, h, S) == \A r \in SUBSET S : \A z \in r : f[r] = h[z] + f[r \ {z}]

LEMMA SumsSplit ==
  ASSUME NEW S, IsFiniteSet(S), NEW h, \A x \in S : h[x] \in Nat,
         NEW f, Sums(f, h, S)
  PROVE  Splits(f, h, S)
  <1> DEFINE Bad == {s \in SUBSET S : \E y \in s : f[s] # h[y] + f[s \ {y}]}
  <1>1. ASSUME Bad # {} PROVE FALSE
    <2>1. PICK s \in Bad : \A x \in s : s \ {x} \notin Bad
      <3>1. Bad \in SUBSET (SUBSET S)
        OBVIOUS
      <3> HIDE DEF Bad
      <3> QED
        BY <1>1, <3>1, Smallest
    <2>2. PICK y \in s : f[s] # h[y] + f[s \ {y}]
      BY <2>1
    <2> DEFINE x == Pick(s)
    <2>3. x \in s /\ f[s] = h[x] + f[s \ {x}]
      BY <2>1, <2>2, PickIsMember DEF Sums, PickedSum
    <2>4. x # y
      BY <2>2, <2>3
    <2> HIDE DEF x
    <2>5. f[s \ {x}] = h[y] + f[(s \ {x}) \ {y}]
      BY <2>1, <2>2, <2>3, <2>4
    <2>6. f[s \ {y}] = h[x] + f[(s \ {y}) \ {x}]
      BY <2>1, <2>2, <2>3, <2>4
    <2>7. (s \ {x}) \ {y} = (s \ {y}) \ {x} /\ (s \ {x}) \ {y} \in SUBSET S
      BY <2>1
    <2>8. f[(s \ {x}) \ {y}] \in Nat /\ h[x] \in Nat /\ h[y] \in Nat
      BY <2>1, <2>2, <2>3, <2>7 DEF Sums
    <2>9. h[x] + (h[y] + f[(s \ {x}) \ {y}]) = h[y] + (h[x] + f[(s \ {x}) \ {y}])
      BY <2>8
    <2> QED
      BY <2>2, <2>3, <2>5, <2>6, <2>7, <2>9
  <1> QED
    BY <1>1 DEF Splits

LEMMA TotalIsSum ==
  ASSUME NEW S, IsFiniteSet(S), NEW h, \A x \in S : h[x] \in Nat
  PROVE  \E f : Sums(f, h, S) /\ Splits(f, h, S) /\ Total(h, S) = f[S]
  <1> DEFINE Solves(f) == f = [s \in SUBSET S |-> IF s = {} THEN 0 ELSE h[Pick(s)] + f[s \ {Pick(s)}]]
             c == CHOOSE f : Solves(f)
  <1>1. PICK f : Sums(f, h, S)
    BY SumsExist
  <1>2. Solves(f)
    BY <1>1 DEF Sums, PickedSum
  <1>3. Solves(c)
    BY <1>2
  <1>4. Total(h, S) = c[S]
    BY TotalIsFold
  <1> HIDE DEF c
  <1> DEFINE Bad == {s \in SUBSET S : c[s] \notin Nat}
  <1>5. ASSUME Bad # {} PROVE FALSE
    <2>1. PICK s \in Bad : \A x \in s : s \ {x} \notin Bad
      BY <1>5, Smallest
    <2>2. CASE s = {}
      BY <1>3, <2>1, <2>2
    <2>3. CASE s # {}
      <3>1. Pick(s) \in s /\ s \ {Pick(s)} \in SUBSET S
        BY <2>1, <2>3, PickIsMember
      <3>2. c[s \ {Pick(s)}] \in Nat /\ h[Pick(s)] \in Nat
        BY <2>1, <3>1
      <3>3. c[s] = h[Pick(s)] + c[s \ {Pick(s)}]
        BY <1>3, <2>1, <2>3
      <3> QED
        BY <2>1, <3>2, <3>3
    <2> QED
      BY <2>2, <2>3
  <1>6. c \in [SUBSET S -> Nat]
    BY <1>3, <1>5
  <1>7. Sums(c, h, S)
    BY <1>3, <1>6 DEF Sums, PickedSum
  <1>8. Splits(c, h, S)
    BY <1>7, SumsSplit
  <1> QED
    BY <1>4, <1>7, <1>8

(* Sums depend on the values that are added up only.                       *)
LEMMA SumsAgree ==
  ASSUME NEW S, IsFiniteSet(S), NEW h, NEW f, Sums(f, h, S),
         NEW R, NEW k, NEW g, Sums(g, k, R),
         NEW q \in SUBSET (S \cap R), \A x \in q : h[x] = k[x]
  PROVE  f[q] = g[q]
  <1> DEFINE Bad == {s \in SUBSET q : f[s] # g[s]}
  <1>1. ASSUME Bad # {} PROVE FALSE
    <2>1. PICK s \in Bad : \A x \in s : s \ {x} \notin Bad
      <3>1. Bad \in SUBSET (SUBSET S)
        OBVIOUS
      <3> HIDE DEF Bad
      <3> QED
        BY <1>1, <3>1, Smallest
    <2>2. s \in SUBSET S /\ s \in SUBSET R /\ s \in SUBSET q
      BY <2>1
    <2>3. f[s] = PickedSum(f, h, s) /\ g[s] = PickedSum(g, k, s)
      BY <2>2 DEF Sums
    <2>4. CASE s = {}
      BY <2>1, <2>3, <2>4 DEF PickedSum
    <2>5. CASE s # {}
      <3>1. Pick(s) \in s
        BY <2>5, PickIsMember
      <3>2. h[Pick(s)] = k[Pick(s)] /\ f[s \ {Pick(s)}] = g[s \ {Pick(s)}]
        BY <2>1, <2>2, <3>1
      <3> QED
        BY <2>1, <2>3, <2>5, <3>2 DEF PickedSum
    <2> QED
      BY <2>4, <2>5
  <1> QED
    BY <1>1

-----------------------------------------------------------------------------
(* What totals are.                                                        *)
LEMMA TotalTyped ==
  ASSUME NEW S, IsFiniteSet(S), NEW h, \A x \in S : h[x] \in Nat
  PROVE  Total(h, S) \in Nat
  <1>1. PICK f : Sums(f, h, S) /\ Splits(f, h, S) /\ Total(h, S) = f[S]
    BY TotalIsSum
  <1> QED
    BY <1>1 DEF Sums

LEMMA TotalOfNone ==
  ASSUME NEW h
  PROVE  Total(h, {}) = 0
  <1>1. IsFiniteSet({}) /\ {} \in SUBSET {}
    BY FS_EmptySet
  <1>2. PICK f : Sums(f, h, {}) /\ Splits(f, h, {}) /\ Total(h, {}) = f[{}]
    BY <1>1, TotalIsSum
  <1> QED
    BY <1>1, <1>2 DEF Sums, PickedSum

LEMMA TotalSame ==
  ASSUME NEW S, IsFiniteSet(S), NEW h, \A x \in S : h[x] \in Nat,
         NEW k, \A x \in S : k[x] = h[x]
  PROVE  Total(k, S) = Total(h, S)
  <1>1. PICK f : Sums(f, h, S) /\ Splits(f, h, S) /\ Total(h, S) = f[S]
    BY TotalIsSum
  <1>2. PICK g : Sums(g, k, S) /\ Splits(g, k, S) /\ Total(k, S) = g[S]
    BY TotalIsSum
  <1>3. S \in SUBSET (S \cap S)
    OBVIOUS
  <1> QED
    BY <1>1, <1>2, <1>3, SumsAgree

LEMMA TotalSplit ==
  ASSUME NEW S, IsFiniteSet(S), NEW h, \A x \in S : h[x] \in Nat, NEW z \in S
  PROVE  Total(h, S) = h[z] + Total(h, S \ {z})
  <1>1. PICK f : Sums(f, h, S) /\ Splits(f, h, S) /\ Total(h, S) = f[S]
    BY TotalIsSum
  <1>2. IsFiniteSet(S \ {z})
    BY FS_RemoveElement
  <1>3. PICK g : Sums(g, h, S \ {z}) /\ Splits(g, h, S \ {z}) /\ Total(h, S \ {z}) = g[S \ {z}]
    BY <1>2, TotalIsSum
  <1>4. S \ {z} \in SUBSET (S \cap (S \ {z})) /\ S \in SUBSET S
    OBVIOUS
  <1>5. f[S \ {z}] = g[S \ {z}]
    BY <1>1, <1>3, <1>4, SumsAgree
  <1>6. f[S] = h[z] + f[S \ {z}]
    BY <1>1, <1>4 DEF Splits
  <1> QED
    BY <1>1, <1>3, <1>5, <1>6

(* A part of the elements with smaller values has the smaller total.       *)
LEMMA TotalLess ==
  ASSUME NEW S, IsFiniteSet(S), NEW h, \A x \in S : h[x] \in Nat,
         NEW T \in SUBSET S, NEW k, \A x \in T : k[x] \in Nat /\ k[x] =< h[x]
  PROVE  Total(k, T) =< Total(h, S)
  <1>0. IsFiniteSet(T)
    BY FS_Subset
  <1>1. PICK f : Sums(f, h, S) /\ Splits(f, h, S) /\ Total(h, S) = f[S]
    BY TotalIsSum
  <1>2. PICK g : Sums(g, k, T) /\ Splits(g, k, T) /\ Total(k, T) = g[T]
    BY <1>0, TotalIsSum
  <1>3. \A p \in SUBSET S : \A z \in p : f[p] = h[z] + f[p \ {z}]
    BY <1>1 DEF Splits
  <1> DEFINE Bad == {s \in SUBSET S : ~(g[s \cap T] =< f[s])}
  <1>4. ASSUME Bad # {} PROVE FALSE
    <2>1. PICK s \in Bad : \A x \in s : s \ {x} \notin Bad
      <3>1. Bad \in SUBSET (SUBSET S)
        OBVIOUS
      <3> HIDE DEF Bad
      <3> QED
        BY <1>4, <3>1, Smallest
    <2>2. s \in SUBSET S /\ s \cap T \in SUBSET T /\ ~(g[s \cap T] =< f[s])
      BY <2>1
    <2>3. CASE s = {}
      <3>1. s \cap T = {} /\ {} \in SUBSET T /\ {} \in SUBSET S
        BY <2>3
      <3>2. g[{}] = 0 /\ f[{}] = 0
        BY <1>1, <1>2, <3>1 DEF Sums, PickedSum
      <3> QED
        BY <2>2, <2>3, <3>1, <3>2
    <2>4. CASE s # {}
      <3>1. PICK x \in s : TRUE
        BY <2>4
      <3> DEFINE r == s \ {x}
      <3>2. r \in SUBSET S /\ r \cap T \in SUBSET T /\ g[r \cap T] =< f[r]
        BY <2>1, <2>2, <3>1
      <3>3. f[s] = h[x] + f[r]
        BY <1>3, <2>2, <3>1
      <3>4. f[r] \in Nat /\ g[r \cap T] \in Nat /\ h[x] \in Nat
        BY <1>1, <1>2, <2>2, <3>2 DEF Sums
      <3>5. CASE x \in T
        <4>1. (s \cap T) \ {x} = r \cap T /\ x \in s \cap T
          BY <3>5
        <4>2. g[s \cap T] = k[x] + g[(s \cap T) \ {x}]
          BY <1>2, <2>2, <4>1 DEF Splits
        <4>3. g[s \cap T] = k[x] + g[r \cap T] /\ k[x] \in Nat /\ k[x] =< h[x]
          BY <3>5, <4>1, <4>2
        <4> HIDE DEF r
        <4> QED
          BY <2>2, <3>2, <3>3, <3>4, <4>3
      <3>6. CASE x \notin T
        <4>1. s \cap T = r \cap T
          BY <3>6
        <4>2. g[s \cap T] =< f[r]
          BY <3>2, <4>1
        <4>3. g[s \cap T] \in Nat
          BY <3>4, <4>1
        <4> HIDE DEF r
        <4> QED
          BY <2>2, <3>3, <3>4, <4>2, <4>3
      <3> QED
        BY <3>5, <3>6
    <2> QED
      BY <2>3, <2>4
  <1>5. S \cap T = T /\ g[S \cap T] =< f[S]
    BY <1>4
  <1> QED
    BY <1>1, <1>2, <1>5

(* Elements that count nothing may be left out.                            *)
LEMMA TotalOfPositive ==
  ASSUME NEW S, IsFiniteSet(S), NEW h, \A x \in S : h[x] \in Nat
  PROVE  Total(h, S) = Total(h, {x \in S : h[x] > 0})
  <1> DEFINE T == {x \in S : h[x] > 0}
  <1>1. PICK f : Sums(f, h, S) /\ Splits(f, h, S) /\ Total(h, S) = f[S]
    BY TotalIsSum
  <1>2. T \in SUBSET S /\ IsFiniteSet(T) /\ \A x \in T : h[x] \in Nat
    <2>1. T \in SUBSET S
      OBVIOUS
    <2> QED
      BY <2>1, FS_Subset
  <1>3. PICK g : Sums(g, h, T) /\ Splits(g, h, T) /\ Total(h, T) = g[T]
    <2> HIDE DEF T
    <2> QED
      BY <1>2, TotalIsSum
  <1>4. \A p \in SUBSET S : \A z \in p : f[p] = h[z] + f[p \ {z}]
    BY <1>1 DEF Splits
  <1> DEFINE Bad == {s \in SUBSET S : f[s] # f[s \cap T]}
  <1>5. ASSUME Bad # {} PROVE FALSE
    <2>1. PICK s \in Bad : \A x \in s : s \ {x} \notin Bad
      <3>1. Bad \in SUBSET (SUBSET S)
        OBVIOUS
      <3> HIDE DEF Bad
      <3> QED
        BY <1>5, <3>1, Smallest
    <2>2. s \in SUBSET S /\ f[s] # f[s \cap T]
      BY <2>1
    <2>3. PICK x \in s : TRUE
      <3>1. s # s \cap T
        BY <2>2
      <3> QED
        BY <3>1
    <2> DEFINE r == s \ {x}
    <2>4. r \in SUBSET S /\ f[r] = f[r \cap T]
      BY <2>1, <2>2, <2>3
    <2>5. f[s] = h[x] + f[r]
      BY <1>4, <2>2, <2>3
    <2>6. f[r] \in Nat /\ h[x] \in Nat
      BY <1>1, <2>2, <2>3, <2>4 DEF Sums
    <2>7. CASE x \in T
      <3>1. (s \cap T) \ {x} = r \cap T /\ x \in s \cap T /\ s \cap T \in SUBSET S
        BY <2>2, <2>7
      <3>2. f[s \cap T] = h[x] + f[(s \cap T) \ {x}]
        BY <1>4, <3>1
      <3> QED
        BY <2>2, <2>4, <2>5, <3>1, <3>2
    <2>8. CASE x \notin T
      <3>1. s \cap T = r \cap T /\ h[x] = 0
        BY <2>2, <2>3, <2>6, <2>8
      <3>2. f[r] = f[s \cap T]
        BY <2>4, <3>1
      <3>3. f[s] = f[r]
        BY <2>5, <2>6, <3>1
      <3> QED
        BY <2>2, <3>2, <3>3
    <2> QED
      BY <2>7, <2>8
  <1>6. f[S] = f[T]
    <2>1. S \cap T = T
      OBVIOUS
    <2> QED
      BY <1>5, <2>1
  <1>7. f[T] = g[T]
    <2>1. T \in SUBSET (S \cap T)
      OBVIOUS
    <2> HIDE DEF T
    <2> QED
      BY <1>1, <1>3, <2>1, SumsAgree
  <1>8. Total(h, S) = Total(h, T)
    BY <1>1, <1>3, <1>6, <1>7
  <1> QED
    BY <1>8

(* The elements of one set are paid for by different elements of another.  *)
LEMMA TotalInto ==
  ASSUME NEW S, IsFiniteSet(S), NEW h, \A x \in S : h[x] \in Nat,
         NEW R, IsFiniteSet(R), NEW k, \A y \in R : k[y] \in Nat,
         NEW m, \A x \in S : m[x] \in R /\ h[x] =< k[m[x]],
         \A x, z \in S : m[x] = m[z] => x = z
  PROVE  Total(h, S) =< Total(k, R)
  <1>1. PICK f : Sums(f, h, S) /\ Splits(f, h, S) /\ Total(h, S) = f[S]
    BY TotalIsSum
  <1>2. PICK g : Sums(g, k, R) /\ Splits(g, k, R) /\ Total(k, R) = g[R]
    BY TotalIsSum
  <1>3. \A p \in SUBSET R : \A z \in p : g[p] = k[z] + g[p \ {z}]
    BY <1>2 DEF Splits
  <1> DEFINE Image(s) == {m[x] : x \in s}
             Bad == {s \in SUBSET S : ~(f[s] =< g[Image(s)])}
  <1>4. ASSUME Bad # {} PROVE FALSE
    <2>1. PICK s \in Bad : \A x \in s : s \ {x} \notin Bad
      <3>1. Bad \in SUBSET (SUBSET S)
        OBVIOUS
      <3> HIDE DEF Bad
      <3> QED
        BY <1>4, <3>1, Smallest
    <2>2. s \in SUBSET S /\ Image(s) \in SUBSET R /\ ~(f[s] =< g[Image(s)])
      BY <2>1
    <2>3. CASE s = {}
      <3>1. Image(s) = {} /\ {} \in SUBSET R /\ {} \in SUBSET S
        BY <2>3
      <3>2. g[{}] = 0 /\ f[{}] = 0
        BY <1>1, <1>2, <3>1 DEF Sums, PickedSum
      <3> QED
        BY <2>2, <2>3, <3>1, <3>2
    <2>4. CASE s # {}
      <3> DEFINE x == Pick(s)
                 r == s \ {x}
      <3>1. x \in s /\ f[s] = h[x] + f[r]
        BY <1>1, <2>2, <2>4, PickIsMember DEF Sums, PickedSum
      <3> HIDE DEF x
      <3>2. r \in SUBSET S /\ Image(r) \in SUBSET R /\ f[r] =< g[Image(r)]
        BY <2>1, <2>2, <3>1
      <3>3. Image(s) \ {m[x]} = Image(r) /\ m[x] \in Image(s)
        BY <2>2, <3>1
      <3> HIDE DEF Image, r
      <3>4. g[Image(s)] = k[m[x]] + g[Image(r)]
        <4>1. g[Image(s)] = k[m[x]] + g[Image(s) \ {m[x]}]
          BY <1>3, <2>2, <3>3
        <4> QED
          BY <3>3, <4>1
      <3>5. /\ f[r] \in Nat /\ g[Image(r)] \in Nat /\ h[x] \in Nat /\ k[m[x]] \in Nat
            /\ h[x] =< k[m[x]]
        BY <1>1, <1>2, <2>2, <3>1, <3>2 DEF Sums
      <3>6. f[s] =< g[Image(s)]
        BY <3>1, <3>2, <3>4, <3>5
      <3> QED
        BY <2>2, <3>6
    <2> QED
      BY <2>3, <2>4
  <1>5. f[S] =< g[Image(S)]
    BY <1>4
  <1>6. Image(S) \in SUBSET R /\ R \in SUBSET R
    OBVIOUS
  <1>7. g[Image(S)] =< g[R]
    <2>1. IsFiniteSet(Image(S))
      BY <1>6, FS_Subset
    <2> HIDE DEF Image
    <2>2. Total(k, Image(S)) =< Total(k, R)
      <3>1. \A y \in Image(S) : k[y] \in Nat /\ k[y] =< k[y]
        BY <1>6
      <3> QED
        BY <1>6, <3>1, TotalLess
    <2>3. PICK p : Sums(p, k, Image(S)) /\ Total(k, Image(S)) = p[Image(S)]
      <3>1. \A y \in Image(S) : k[y] \in Nat
        BY <1>6
      <3> QED
        BY <2>1, <3>1, TotalIsSum
    <2>4. g[Image(S)] = p[Image(S)]
      <3>1. Image(S) \in SUBSET (R \cap Image(S))
        BY <1>6
      <3> QED
        BY <1>2, <2>3, <3>1, SumsAgree
    <2> QED
      BY <1>2, <2>2, <2>3, <2>4
  <1>8. f[S] \in Nat /\ g[Image(S)] \in Nat /\ g[R] \in Nat
    BY <1>1, <1>2, <1>6 DEF Sums
  <1> HIDE DEF Image
  <1> QED
    BY <1>1, <1>2, <1>5, <1>7, <1>8

-----------------------------------------------------------------------------
(* Entries.                                                                *)
LEMMA PostTyped ==
  ASSUME NEW K, NEW l \in [K -> Entry], NEW k, NEW amt \in Nat
  PROVE  /\ PostEntry(l, k, amt) \in [K -> Entry]
         /\ \A q \in K : l[q].status = "posted" => PostEntry(l, k, amt)[q] = l[q]
  BY DEF PostEntry, Entry, Free

LEMMA AcceptedPosts ==
  ASSUME NEW K, NEW l \in [K -> Entry], NEW k \in K, NEW amt \in Nat, Accepts(l, k, amt)
  PROVE  PostEntry(l, k, amt)[k].status = "posted" /\ PostEntry(l, k, amt)[k].amount = amt
  BY DEF Accepts, PostEntry, Posted, Free

(* Totals of the posted entries under the keys of K.                       *)
PostedKeys(l, K) == {k \in K : Posted(l, k)}
AmountsOf(l, K)  == [k \in K |-> l[k].amount]

LEMMA PostedTotalIsTotal ==
  ASSUME NEW l, NEW K
  PROVE  PostedTotal(l, K) = Total(AmountsOf(l, K), PostedKeys(l, K))
  BY DEF Total, PostedTotal, MapThenSumSet, MapThenFoldSet, AmountsOf, PostedKeys

LEMMA AmountsTyped ==
  ASSUME NEW K, IsFiniteSet(K), NEW D, K \subseteq D, NEW l \in [D -> Entry]
  PROVE  /\ IsFiniteSet(PostedKeys(l, K))
         /\ \A k \in PostedKeys(l, K) : AmountsOf(l, K)[k] \in Nat
  <1>1. PostedKeys(l, K) \in SUBSET K
    BY DEF PostedKeys
  <1>2. IsFiniteSet(PostedKeys(l, K))
    BY <1>1, FS_Subset
  <1> QED
    BY <1>1, <1>2 DEF AmountsOf, Entry

LEMMA PostedTotalTyped ==
  ASSUME NEW K, IsFiniteSet(K), NEW D, K \subseteq D, NEW l \in [D -> Entry]
  PROVE  PostedTotal(l, K) \in Nat
  BY PostedTotalIsTotal, AmountsTyped, TotalTyped

LEMMA PostedTotalKept ==
  ASSUME NEW K, IsFiniteSet(K), NEW D, K \subseteq D, NEW l \in [D -> Entry],
         NEW n, \A k \in K : n[k] = l[k]
  PROVE  PostedTotal(n, K) = PostedTotal(l, K)
  <1>1. PostedKeys(n, K) = PostedKeys(l, K) /\ AmountsOf(n, K) = AmountsOf(l, K)
    BY DEF PostedKeys, AmountsOf, Posted
  <1> QED
    BY <1>1, PostedTotalIsTotal

(* Filling a free key adds its amount, and no posting adds more.           *)
LEMMA PostingAdds ==
  ASSUME NEW K, IsFiniteSet(K), NEW D, K \subseteq D, NEW l \in [D -> Entry],
         NEW k \in K, NEW amt \in Nat, Free(l, k)
  PROVE  PostedTotal(PostEntry(l, k, amt), K) = PostedTotal(l, K) + amt
  <1> DEFINE n == PostEntry(l, k, amt)
             S == PostedKeys(n, K)
             h == AmountsOf(n, K)
             T == PostedKeys(l, K)
             g == AmountsOf(l, K)
  <1>1. n \in [D -> Entry]
    BY PostTyped
  <1>2. n = [l EXCEPT ![k] = [amount |-> amt, status |-> "posted"]]
    BY DEF PostEntry
  <1> HIDE DEF n
  <1>3. k \in S /\ S \ {k} = T /\ h[k] = amt /\ \A q \in T : h[q] = g[q]
    BY <1>2 DEF PostedKeys, AmountsOf, Posted, Free
  <1>4. IsFiniteSet(S) /\ \A q \in S : h[q] \in Nat
    BY <1>1, AmountsTyped
  <1>5. IsFiniteSet(T) /\ \A q \in T : g[q] \in Nat
    BY AmountsTyped
  <1>6. PostedTotal(n, K) = Total(h, S) /\ PostedTotal(l, K) = Total(g, T)
    BY PostedTotalIsTotal
  <1> HIDE DEF S, T, h, g
  <1>7. Total(h, S) = h[k] + Total(h, S \ {k})
    BY <1>3, <1>4, TotalSplit
  <1>8. Total(h, T) = Total(g, T) /\ Total(g, T) \in Nat
    BY <1>3, <1>5, TotalSame, TotalTyped
  <1>9. PostedTotal(n, K) = amt + Total(g, T)
    BY <1>3, <1>6, <1>7, <1>8
  <1>10. PostedTotal(n, K) = PostedTotal(l, K) + amt
    BY <1>6, <1>8, <1>9
  <1> QED
    BY <1>10 DEF n

LEMMA PostingAddsNoMore ==
  ASSUME NEW K, IsFiniteSet(K), NEW D, K \subseteq D, NEW l \in [D -> Entry],
         NEW k, NEW amt \in Nat
  PROVE  PostedTotal(PostEntry(l, k, amt), K) =< PostedTotal(l, K) + amt
  <1>1. PostedTotal(l, K) \in Nat
    BY PostedTotalTyped
  <1>2. CASE k \in K /\ Free(l, k)
    <2>1. PostedTotal(PostEntry(l, k, amt), K) = PostedTotal(l, K) + amt
      BY <1>2, PostingAdds
    <2> QED
      BY <1>1, <2>1
  <1>3. CASE ~(k \in K /\ Free(l, k))
    <2>1. \A q \in K : PostEntry(l, k, amt)[q] = l[q]
      BY <1>3 DEF PostEntry
    <2>2. PostedTotal(PostEntry(l, k, amt), K) = PostedTotal(l, K)
      BY <2>1, PostedTotalKept
    <2> QED
      BY <1>1, <2>2
  <1> QED
    BY <1>2, <1>3

(* A void adds nothing.                                                    *)
LEMMA VoidingAddsNothing ==
  ASSUME NEW K, IsFiniteSet(K), NEW D, K \subseteq D, NEW l \in [D -> Entry], NEW k
  PROVE  /\ VoidEntry(l, k) \in [D -> Entry]
         /\ PostedTotal(VoidEntry(l, k), K) =< PostedTotal(l, K)
  <1> DEFINE n == VoidEntry(l, k)
             S == PostedKeys(l, K)
             h == AmountsOf(l, K)
             T == PostedKeys(n, K)
             g == AmountsOf(n, K)
  <1>1. n \in [D -> Entry]
    BY DEF VoidEntry, Entry
  <1>2. /\ T \in SUBSET S
        /\ \A q \in T : g[q] = h[q]
    BY DEF VoidEntry, PostedKeys, AmountsOf, Posted
  <1>3. IsFiniteSet(S) /\ \A q \in S : h[q] \in Nat
    BY AmountsTyped
  <1>4. PostedTotal(n, K) = Total(g, T) /\ PostedTotal(l, K) = Total(h, S)
    BY PostedTotalIsTotal
  <1> HIDE DEF n, S, T, h, g
  <1>5. \A q \in T : g[q] \in Nat /\ g[q] =< h[q]
    BY <1>2, <1>3
  <1>6. Total(g, T) =< Total(h, S)
    BY <1>2, <1>3, <1>5, TotalLess
  <1>7. PostedTotal(n, K) =< PostedTotal(l, K)
    BY <1>4, <1>6
  <1> QED
    BY <1>1, <1>7 DEF n
=============================================================================
