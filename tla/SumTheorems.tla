---------------------------- MODULE SumTheorems ----------------------------
(***************************************************************************)
(* Facts about SumFunctionOnSet of the community module Functions, which   *)
(* the modules use for Python's sum(d.values()): the sum of an integer     *)
(* function over a finite set exists, is an integer, and moves by exactly  *)
(* the change of the one entry that an assignment d[x] = v rewrites.       *)
(* The inductions are by smallest counterexample, over cardinalities.      *)
(***************************************************************************)
EXTENDS Integers, FiniteSets, Functions, FiniteSetTheorems,
        WellFoundedInduction, TLAPS

\* One unfolding of the fold at the set s: it peels off one element.
Peeled(g, f, s) ==
    IF s = {} THEN 0
    ELSE f[CHOOSE x \in s : TRUE] + g[s \ {CHOOSE x \in s : TRUE}]

\* g is the fold's recursive function over the subsets of S.
Follows(g, f, S) == g = [s \in SUBSET S |-> Peeled(g, f, s)]

\* The sum is the value at S of the chosen function that follows the fold.
LEMMA SumUnfolds ==
    ASSUME NEW f, NEW S
    PROVE  SumFunctionOnSet(f, S) = (CHOOSE g : Follows(g, f, S))[S]
BY DEF SumFunctionOnSet, FoldFunctionOnSet, MapThenFoldSet, Follows, Peeled

\* A non-empty set of naturals has a smallest element.
LEMMA Smallest ==
    ASSUME NEW T \in SUBSET Nat, T # {}
    PROVE  \E n \in T : \A m \in T : n <= m
<1>1. \E n \in T : \A m \in T : ~(<<m, n>> \in OpToRel(<, Nat))
  BY WFMin, NatLessThanWellFounded
<1>2. PICK n \in T : \A m \in T : ~(<<m, n>> \in OpToRel(<, Nat))
  BY <1>1
<1>3. \A m \in T : ~(m < n)
  BY <1>2 DEF OpToRel
<1> QED BY <1>3

\* What the peeling leaves is a smaller subset, and the peeled element is in s.
LEMMA PeelShrinks ==
    ASSUME NEW S, IsFiniteSet(S), NEW s \in SUBSET S, s # {},
           NEW c, c = (CHOOSE x \in s : TRUE)
    PROVE  /\ c \in s /\ c \in S
           /\ s \ {c} \in SUBSET S
           /\ Cardinality(s) \in Nat
           /\ Cardinality(s \ {c}) \in Nat
           /\ Cardinality(s \ {c}) = Cardinality(s) - 1
<1>1. c \in s
  OBVIOUS
<1>2. IsFiniteSet(s)
  BY FS_Subset
<1>3. IsFiniteSet(s \ {c}) /\ Cardinality(s \ {c}) = Cardinality(s) - 1
  BY <1>1, <1>2, FS_RemoveElement
<1>4. Cardinality(s) \in Nat /\ Cardinality(s \ {c}) \in Nat
  BY <1>2, <1>3, FS_CardinalityType
<1> QED BY <1>1, <1>3, <1>4

\* At most one function follows the fold of f.
LEMMA FollowsUnique ==
    ASSUME NEW S, IsFiniteSet(S), NEW f, NEW g, NEW h,
           Follows(g, f, S), Follows(h, f, S)
    PROVE  g = h
<1> DEFINE Bad == {n \in Nat : \E s \in SUBSET S : Cardinality(s) = n /\ g[s] # h[s]}
<1>1. ASSUME Bad # {} PROVE FALSE
  <2>1. PICK n \in Bad : \A m \in Bad : n <= m
    BY <1>1, Smallest
  <2>2. PICK s \in SUBSET S : Cardinality(s) = n /\ g[s] # h[s]
    BY <2>1
  <2>3. g[s] = Peeled(g, f, s) /\ h[s] = Peeled(h, f, s)
    BY DEF Follows
  <2>4. s # {}
    BY <2>2, <2>3 DEF Peeled
  <2> DEFINE c == CHOOSE x \in s : TRUE
  <2>5. /\ s \ {c} \in SUBSET S
        /\ Cardinality(s \ {c}) \in Nat
        /\ Cardinality(s \ {c}) = Cardinality(s) - 1
    BY <2>4, PeelShrinks
  <2>6. g[s \ {c}] # h[s \ {c}]
    BY <2>2, <2>3, <2>4 DEF Peeled
  <2>7. Cardinality(s \ {c}) \in Bad
    BY <2>5, <2>6
  <2> HIDE DEF Bad, c
  <2>8. n <= Cardinality(s \ {c}) /\ n \in Nat
    BY <2>1, <2>7 DEF Bad
  <2> QED BY <2>2, <2>5, <2>8
<1>2. \A s \in SUBSET S : Cardinality(s) \in Nat
  BY FS_Subset, FS_CardinalityType
<1>3. \A s \in SUBSET S : g[s] = h[s]
  BY <1>1, <1>2
<1>4. g = [s \in SUBSET S |-> g[s]] /\ h = [s \in SUBSET S |-> h[s]]
  BY DEF Follows
<1> QED BY <1>3, <1>4

\* Some integer-valued function follows the fold of an integer function.
LEMMA FollowsExists ==
    ASSUME NEW S, IsFiniteSet(S), NEW f \in [S -> Int]
    PROVE  \E g \in [SUBSET S -> Int] : Follows(g, f, S)
<1> DEFINE Upto(n, g) ==
        /\ g \in [SUBSET S -> Int]
        /\ \A s \in SUBSET S : Cardinality(s) <= n => g[s] = Peeled(g, f, s)
           Bad == {n \in Nat : ~ \E g : Upto(n, g)}
<1>0. \A s \in SUBSET S : /\ IsFiniteSet(s)
                          /\ Cardinality(s) \in Nat
                          /\ Cardinality(s) <= Cardinality(S)
  BY FS_Subset, FS_CardinalityType
<1>1. \E g : Upto(0, g)
  <2> DEFINE z == [s \in SUBSET S |-> 0]
  <2>1. ASSUME NEW s \in SUBSET S, Cardinality(s) <= 0
        PROVE  z[s] = Peeled(z, f, s)
    <3>1. Cardinality(s) = 0
      BY <1>0, <2>1
    <3>2. s = {}
      BY <1>0, <3>1, FS_EmptySet
    <3> QED BY <3>2 DEF Peeled
  <2>2. Upto(0, z)
    BY <2>1
  <2> QED BY <2>2
<1>2. ASSUME NEW n \in Nat, NEW g, Upto(n, g)
      PROVE  \E h : Upto(n + 1, h)
  <2> DEFINE h == [s \in SUBSET S |->
                    IF Cardinality(s) <= n THEN g[s] ELSE Peeled(g, f, s)]
  <2>1. ASSUME NEW s \in SUBSET S
        PROVE  /\ Peeled(g, f, s) \in Int
               /\ Cardinality(s) <= n + 1 => h[s] = Peeled(h, f, s)
    <3> DEFINE c == CHOOSE x \in s : TRUE
    <3>1. CASE s = {}
      <4>1. Cardinality(s) = 0
        BY <3>1, FS_EmptySet
      <4> QED BY <3>1, <4>1, <1>2 DEF Peeled
    <3>2. CASE s # {}
      <4>1. /\ c \in S
            /\ s \ {c} \in SUBSET S
            /\ Cardinality(s) \in Nat
            /\ Cardinality(s \ {c}) \in Nat
            /\ Cardinality(s \ {c}) = Cardinality(s) - 1
        BY <3>2, PeelShrinks
      <4>2. Peeled(g, f, s) = f[c] + g[s \ {c}] /\ Peeled(h, f, s) = f[c] + h[s \ {c}]
        BY <3>2 DEF Peeled
      <4> HIDE DEF c
      <4>3. Peeled(g, f, s) \in Int
        BY <4>1, <4>2, <1>2
      <4>4. ASSUME Cardinality(s) <= n + 1 PROVE h[s \ {c}] = g[s \ {c}]
        BY <4>1, <4>4
      <4>5. h[s] = Peeled(g, f, s)
        BY <1>2
      <4> QED BY <4>2, <4>3, <4>4, <4>5
    <3> QED BY <3>1, <3>2
  <2>2. h \in [SUBSET S -> Int]
    BY <2>1, <1>2
  <2>3. Upto(n + 1, h)
    BY <2>1, <2>2
  <2> QED BY <2>3
<1>3. Bad = {}
  <2>1. SUFFICES ASSUME Bad # {} PROVE FALSE
    OBVIOUS
  <2>2. PICK n \in Bad : \A m \in Bad : n <= m
    BY <2>1, Smallest
  <2>3. n # 0
    BY <1>1, <2>2
  <2>4. n - 1 \in Nat /\ (n - 1) + 1 = n /\ ~(n <= n - 1)
    BY <2>2, <2>3
  <2>5. n - 1 \notin Bad
    BY <2>2, <2>4
  <2>6. \E g : Upto(n - 1, g)
    BY <2>4, <2>5
  <2>7. \E h : Upto((n - 1) + 1, h)
    BY <1>2, <2>4, <2>6
  <2> QED BY <2>2, <2>4, <2>7
<1>4. PICK g : Upto(Cardinality(S), g)
  BY <1>3, FS_CardinalityType
<1>5. \A s \in SUBSET S : g[s] = Peeled(g, f, s)
  BY <1>0, <1>4
<1>6. g \in [SUBSET S -> Int]
  BY <1>4
<1>7. g = [s \in SUBSET S |-> Peeled(g, f, s)]
  BY <1>5, <1>6
<1> QED BY <1>6, <1>7 DEF Follows

\* The function that follows the fold gives the sum.
LEMMA FollowsGivesSum ==
    ASSUME NEW S, IsFiniteSet(S), NEW f, NEW g, Follows(g, f, S)
    PROVE  SumFunctionOnSet(f, S) = g[S]
<1> DEFINE chosen == CHOOSE h : Follows(h, f, S)
<1>1. Follows(chosen, f, S)
  OBVIOUS
<1> HIDE DEF chosen
<1>2. chosen = g
  BY <1>1, FollowsUnique
<1>3. SumFunctionOnSet(f, S) = chosen[S]
  BY SumUnfolds DEF chosen
<1> QED BY <1>2, <1>3

\* The sum of an integer function is an integer.
THEOREM SumType ==
    ASSUME NEW S, IsFiniteSet(S), NEW f \in [S -> Int]
    PROVE  SumFunctionOnSet(f, S) \in Int
<1>1. PICK g \in [SUBSET S -> Int] : Follows(g, f, S)
  BY FollowsExists
<1>2. SumFunctionOnSet(f, S) = g[S]
  BY <1>1, FollowsGivesSum
<1> QED BY <1>2

\* The sum of the zero function is zero.
THEOREM SumZero ==
    ASSUME NEW S, IsFiniteSet(S)
    PROVE  SumFunctionOnSet([x \in S |-> 0], S) = 0
<1> DEFINE f == [x \in S |-> 0]
           z == [s \in SUBSET S |-> 0]
<1>1. ASSUME NEW s \in SUBSET S PROVE Peeled(z, f, s) = 0
  BY DEF Peeled
<1>2. Follows(z, f, S)
  BY <1>1 DEF Follows
<1> QED BY <1>2, FollowsGivesSum

\* Two functions that agree but at x have sums that differ as they do at x.
THEOREM SumUpdate ==
    ASSUME NEW S, IsFiniteSet(S), NEW f \in [S -> Int], NEW e \in [S -> Int],
           NEW x \in S, \A y \in S \ {x} : e[y] = f[y]
    PROVE  SumFunctionOnSet(e, S) = SumFunctionOnSet(f, S) - f[x] + e[x]
<1>1. PICK g \in [SUBSET S -> Int] : Follows(g, f, S)
  BY FollowsExists
<1> DEFINE h == [s \in SUBSET S |-> g[s] + (IF x \in s THEN e[x] - f[x] ELSE 0)]
<1>2. ASSUME NEW s \in SUBSET S PROVE h[s] = Peeled(h, e, s)
  <2> DEFINE c == CHOOSE y \in s : TRUE
  <2>0. g[s] = Peeled(g, f, s)
    BY <1>1 DEF Follows
  <2>1. CASE s = {}
    BY <2>0, <2>1 DEF Peeled
  <2>2. CASE s # {}
    <3>1. c \in s /\ c \in S /\ s \ {c} \in SUBSET S
      BY <2>2, PeelShrinks
    <3>2. Peeled(g, f, s) = f[c] + g[s \ {c}] /\ Peeled(h, e, s) = e[c] + h[s \ {c}]
      BY <2>2 DEF Peeled
    <3> HIDE DEF c
    <3>3. /\ f[c] \in Int /\ f[x] \in Int /\ e[x] \in Int /\ g[s \ {c}] \in Int
          /\ c # x => e[c] = f[c]
          /\ h[s \ {c}] = g[s \ {c}] + (IF x \in s \ {c} THEN e[x] - f[x] ELSE 0)
          /\ h[s] = g[s] + (IF x \in s THEN e[x] - f[x] ELSE 0)
      BY <3>1, <1>1
    <3> HIDE DEF h
    <3>4. CASE c = x
      BY <2>0, <3>1, <3>2, <3>3, <3>4
    <3>5. CASE c # x
      BY <2>0, <3>1, <3>2, <3>3, <3>5
    <3> QED BY <3>4, <3>5
  <2> QED BY <2>1, <2>2
<1>3. Follows(h, e, S)
  BY <1>2 DEF Follows
<1>4. SumFunctionOnSet(e, S) = h[S] /\ SumFunctionOnSet(f, S) = g[S]
  BY <1>1, <1>3, FollowsGivesSum
<1>5. /\ h[S] = g[S] + (e[x] - f[x])
      /\ g[S] \in Int /\ f[x] \in Int /\ e[x] \in Int
  BY <1>1
<1> QED BY <1>4, <1>5

\* A function that is zero but at x adds up to its value there.
THEOREM SumSingle ==
    ASSUME NEW S, IsFiniteSet(S), NEW f \in [S -> Int], NEW x \in S,
           \A y \in S \ {x} : f[y] = 0
    PROVE  SumFunctionOnSet(f, S) = f[x]
<1> DEFINE zero == [y \in S |-> 0]
<1>1. zero \in [S -> Int] /\ zero[x] = 0 /\ \A y \in S \ {x} : f[y] = zero[y]
  OBVIOUS
<1>2. SumFunctionOnSet(zero, S) = 0
  BY SumZero
<1> HIDE DEF zero
<1>3. SumFunctionOnSet(f, S) = SumFunctionOnSet(zero, S) - zero[x] + f[x]
  BY <1>1, SumUpdate
<1>4. f[x] \in Int
  OBVIOUS
<1> QED BY <1>1, <1>2, <1>3, <1>4

\* A function that is nowhere larger has no larger sum.
THEOREM SumMonotone ==
    ASSUME NEW S, IsFiniteSet(S), NEW f \in [S -> Int], NEW e \in [S -> Int],
           \A x \in S : f[x] <= e[x]
    PROVE  SumFunctionOnSet(f, S) <= SumFunctionOnSet(e, S)
<1>1. PICK g \in [SUBSET S -> Int] : Follows(g, f, S)
  BY FollowsExists
<1>2. PICK h \in [SUBSET S -> Int] : Follows(h, e, S)
  BY FollowsExists
<1> DEFINE Bad == {n \in Nat : \E s \in SUBSET S : Cardinality(s) = n /\ ~(g[s] <= h[s])}
<1>3. ASSUME Bad # {} PROVE FALSE
  <2>1. PICK n \in Bad : \A m \in Bad : n <= m
    BY <1>3, Smallest
  <2>2. PICK s \in SUBSET S : Cardinality(s) = n /\ ~(g[s] <= h[s])
    BY <2>1
  <2>3. g[s] = Peeled(g, f, s) /\ h[s] = Peeled(h, e, s)
    BY <1>1, <1>2 DEF Follows
  <2>4. s # {}
    BY <2>2, <2>3 DEF Peeled
  <2> DEFINE c == CHOOSE x \in s : TRUE
  <2>5. /\ c \in S /\ s \ {c} \in SUBSET S
        /\ Cardinality(s \ {c}) \in Nat
        /\ Cardinality(s \ {c}) = Cardinality(s) - 1
    BY <2>4, PeelShrinks
  <2>6. g[s] = f[c] + g[s \ {c}] /\ h[s] = e[c] + h[s \ {c}]
    BY <2>3, <2>4 DEF Peeled
  <2> HIDE DEF c
  <2>7. ~(g[s \ {c}] <= h[s \ {c}])
    BY <2>2, <2>5, <2>6
  <2>8. Cardinality(s \ {c}) \in Bad
    BY <2>5, <2>7
  <2> HIDE DEF Bad
  <2>9. n <= Cardinality(s \ {c}) /\ n \in Nat
    BY <2>1, <2>8 DEF Bad
  <2> QED BY <2>2, <2>5, <2>9
<1>4. Cardinality(S) \in Nat
  BY FS_CardinalityType
<1>5. g[S] <= h[S]
  BY <1>3, <1>4
<1> QED BY <1>1, <1>2, <1>5, FollowsGivesSum

\* Any element may be peeled off first.
PeelsAny(g, f, S) ==
    \A r \in SUBSET S : \A y \in r : g[r] = f[y] + g[r \ {y}]

LEMMA PeelAny ==
    ASSUME NEW S, IsFiniteSet(S), NEW f \in [S -> Int],
           NEW g \in [SUBSET S -> Int], Follows(g, f, S)
    PROVE  PeelsAny(g, f, S)
<1> DEFINE Odd(s) == \E z \in s : g[s] # f[z] + g[s \ {z}]
           Bad == {n \in Nat : \E s \in SUBSET S : Cardinality(s) = n /\ Odd(s)}
<1>1. ASSUME Bad # {} PROVE FALSE
  <2>1. PICK n \in Bad : \A m \in Bad : n <= m
    BY <1>1, Smallest
  <2>2. PICK s \in SUBSET S : Cardinality(s) = n /\ Odd(s)
    BY <2>1
  <2>3. PICK z \in s : g[s] # f[z] + g[s \ {z}]
    BY <2>2
  <2> DEFINE c == CHOOSE x \in s : TRUE
  <2>4. g[s] = f[c] + g[s \ {c}]
    BY <2>3 DEF Follows, Peeled
  <2>5. c \in s /\ c # z
    BY <2>3, <2>4
  <2> HIDE DEF c
  <2>6. /\ \A x \in s : s \ {x} \in SUBSET S /\ Cardinality(s \ {x}) \in Nat
        /\ \A x \in s : Cardinality(s \ {x}) < n
    <3>1. IsFiniteSet(s) /\ n \in Nat
      BY <2>2, FS_Subset
    <3>2. \A x \in s : /\ IsFiniteSet(s \ {x})
                       /\ Cardinality(s \ {x}) = Cardinality(s) - 1
      BY <3>1, FS_RemoveElement
    <3>3. \A x \in s : Cardinality(s \ {x}) \in Nat /\ s \ {x} \in SUBSET S
      BY <3>2, FS_CardinalityType
    <3>4. \A x \in s : Cardinality(s \ {x}) = n - 1
      BY <2>2, <3>2
    <3> HIDE DEF Bad, Odd
    <3> QED BY <3>1, <3>3, <3>4
  <2>7. \A x \in s : ~Odd(s \ {x})
    <3> SUFFICES ASSUME NEW x \in s, Odd(s \ {x}) PROVE FALSE
      OBVIOUS
    <3>1. Cardinality(s \ {x}) \in Bad
      BY <2>6
    <3> HIDE DEF Bad
    <3> QED BY <2>1, <2>6, <3>1 DEF Bad
  <2>8. /\ g[s \ {c}] = f[z] + g[(s \ {c}) \ {z}]
        /\ g[s \ {z}] = f[c] + g[(s \ {z}) \ {c}]
    BY <2>3, <2>5, <2>7
  <2>9. (s \ {c}) \ {z} = (s \ {z}) \ {c} /\ (s \ {z}) \ {c} \in SUBSET S
    OBVIOUS
  <2>10. f[c] \in Int /\ f[z] \in Int /\ g[(s \ {z}) \ {c}] \in Int
    BY <2>3, <2>5, <2>9
  <2>11. g[s \ {z}] = f[c] + g[(s \ {z}) \ {c}] /\ g[s] = f[c] + (f[z] + g[(s \ {z}) \ {c}])
    BY <2>4, <2>8, <2>9
  <2>12. g[s] = f[z] + g[s \ {z}]
    BY <2>10, <2>11
  <2> QED BY <2>3, <2>12
<1>2. \A s \in SUBSET S : Cardinality(s) \in Nat
  BY FS_Subset, FS_CardinalityType
<1> QED BY <1>1, <1>2 DEF PeelsAny

\* One element more adds its value to the sum.
THEOREM SumExtend ==
    ASSUME NEW T, IsFiniteSet(T), NEW x \in T, NEW f \in [T -> Int],
           NEW e \in [T \ {x} -> Int], \A y \in T \ {x} : e[y] = f[y]
    PROVE  SumFunctionOnSet(f, T) = SumFunctionOnSet(e, T \ {x}) + f[x]
<1> DEFINE S == T \ {x}
<1>1. PICK g \in [SUBSET T -> Int] : Follows(g, f, T)
  BY FollowsExists
<1>2. g[T] = f[x] + g[S]
  <2>1. PeelsAny(g, f, T)
    BY <1>1, PeelAny
  <2>2. T \in SUBSET T
    OBVIOUS
  <2> QED BY <2>1, <2>2 DEF PeelsAny
<1>3. IsFiniteSet(S)
  BY FS_RemoveElement
<1> DEFINE h == [s \in SUBSET S |-> g[s]]
<1>4. Follows(h, e, S)
  <2>1. ASSUME NEW s \in SUBSET S PROVE h[s] = Peeled(h, e, s)
    <3>1. s \in SUBSET T /\ g[s] = Peeled(g, f, s)
      BY <1>1 DEF Follows
    <3>2. CASE s = {}
      BY <3>1, <3>2 DEF Peeled
    <3>3. CASE s # {}
      <4> DEFINE c == CHOOSE z \in s : TRUE
      <4>1. c \in s /\ c \in S /\ s \ {c} \in SUBSET S
        BY <3>3
      <4>2. g[s] = f[c] + g[s \ {c}] /\ h[s \ {c}] = g[s \ {c}] /\ f[c] = e[c]
        BY <3>1, <3>3, <4>1 DEF Peeled
      <4> HIDE DEF h
      <4> QED BY <3>3, <4>2 DEF Peeled, h
    <3> QED BY <3>2, <3>3
  <2> QED BY <2>1 DEF Follows
<1>5. SumFunctionOnSet(f, T) = g[T] /\ SumFunctionOnSet(e, S) = h[S] /\ h[S] = g[S]
  BY <1>1, <1>3, <1>4, FollowsGivesSum
<1>6. f[x] \in Int /\ g[S] \in Int
  BY <1>1
<1> QED BY <1>2, <1>5, <1>6

\* Entries that are zero may be left out of the sum.
THEOREM SumPadded ==
    ASSUME NEW S, IsFiniteSet(S), NEW R \in SUBSET S, NEW f \in [S -> Int],
           NEW e \in [R -> Int], \A x \in R : e[x] = f[x], \A x \in S \ R : f[x] = 0
    PROVE  SumFunctionOnSet(f, S) = SumFunctionOnSet(e, R)
<1>1. PICK g \in [SUBSET S -> Int] : Follows(g, f, S)
  BY FollowsExists
<1>2. PeelsAny(g, f, S)
  BY <1>1, PeelAny
<1> DEFINE Odd(s) == g[s] # g[s \cap R]
           Bad == {n \in Nat : \E s \in SUBSET S : Cardinality(s) = n /\ Odd(s)}
<1>3. ASSUME Bad # {} PROVE FALSE
  <2>1. PICK n \in Bad : \A m \in Bad : n <= m
    BY <1>3, Smallest
  <2>2. PICK s \in SUBSET S : Cardinality(s) = n /\ Odd(s)
    BY <2>1
  <2>3. PICK y \in s : y \notin R
    <3>1. s \cap R # s
      BY <2>2
    <3> QED BY <3>1
  <2>4. g[s] = f[y] + g[s \ {y}] /\ f[y] = 0 /\ g[s \ {y}] \in Int
    BY <1>2, <2>3 DEF PeelsAny
  <2>5. g[s] = g[s \ {y}]
    BY <2>4
  <2>6. (s \ {y}) \cap R = s \cap R
    BY <2>3
  <2>7. Odd(s \ {y})
    BY <2>2, <2>5, <2>6
  <2>8. Cardinality(s \ {y}) \in Nat /\ Cardinality(s \ {y}) = n - 1
    BY <2>2, <2>3, FS_Subset, FS_RemoveElement, FS_CardinalityType
  <2>9. s \ {y} \in SUBSET S
    OBVIOUS
  <2> HIDE DEF Odd
  <2>10. Cardinality(s \ {y}) \in Bad
    BY <2>7, <2>8, <2>9
  <2> HIDE DEF Bad
  <2>11. n <= Cardinality(s \ {y}) /\ n \in Nat
    BY <2>1, <2>10 DEF Bad
  <2> QED BY <2>8, <2>11
<1>4. g[S] = g[R]
  <2>1. Cardinality(S) \in Nat /\ S \cap R = R
    BY FS_CardinalityType
  <2> QED BY <1>3, <2>1
<1> DEFINE h == [s \in SUBSET R |-> g[s]]
<1>5. Follows(h, e, R)
  <2>1. ASSUME NEW s \in SUBSET R PROVE h[s] = Peeled(h, e, s)
    <3>1. s \in SUBSET S /\ g[s] = Peeled(g, f, s)
      BY <1>1 DEF Follows
    <3>2. CASE s = {}
      BY <3>1, <3>2 DEF Peeled
    <3>3. CASE s # {}
      <4> DEFINE c == CHOOSE z \in s : TRUE
      <4>1. c \in s /\ c \in R /\ s \ {c} \in SUBSET R
        BY <3>3
      <4>2. g[s] = f[c] + g[s \ {c}] /\ h[s \ {c}] = g[s \ {c}] /\ f[c] = e[c]
        BY <3>1, <3>3, <4>1 DEF Peeled
      <4> HIDE DEF h
      <4> QED BY <3>3, <4>2 DEF Peeled, h
    <3> QED BY <3>2, <3>3
  <2> QED BY <2>1 DEF Follows
<1>6. IsFiniteSet(R)
  BY FS_Subset
<1>7. SumFunctionOnSet(f, S) = g[S] /\ SumFunctionOnSet(e, R) = h[R] /\ h[R] = g[R]
  BY <1>1, <1>5, <1>6, FollowsGivesSum
<1> QED BY <1>4, <1>7
=============================================================================
