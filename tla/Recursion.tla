----------------------------- MODULE Recursion -----------------------------
(* Induction and recursion over finite data, in a form the provers can use:  *)
(* a property is a set instead of an operator.                               *)
EXTENDS Integers, FiniteSetTheorems, WellFoundedInduction, TLAPS

\* A set of naturals that is not empty has a least one.
LEMMA LeastOfNats ==
  ASSUME NEW T \in SUBSET Nat, T # {}
  PROVE  \E m \in T : \A k \in T : m <= k
<1> DEFINE Less == {p \in Nat \X Nat : p[1] < p[2]}
<1>1. \A x, y \in Nat : x < y => <<x, y>> \in Less
  OBVIOUS
<1>2. IsWellFoundedOn(Less, Nat)
  BY NatLessThanWellFounded DEF OpToRel
<1> HIDE DEF Less
<1>3. PICK m \in T : \A k \in T : <<k, m>> \notin Less
  BY <1>2, WFMin
<1>4. ASSUME NEW k \in T PROVE m <= k
  <2>1. k \in Nat /\ m \in Nat
    OBVIOUS
  <2>2. ~(k < m)
    BY <1>1, <1>3, <2>1
  <2> QED BY <2>1, <2>2
<1> QED BY <1>4

\* A set of positions that is not empty has a last one.
LEMMA LastPosition ==
  ASSUME NEW n \in Nat, NEW K \in SUBSET (1..n), K # {}
  PROVE  \E last \in K : \A i \in K : i <= last
<1> DEFINE Left == {n - k : k \in K}
<1>1. \A k \in K : k \in Nat /\ n - k \in Nat /\ n - k \in Left
  OBVIOUS
<1>2. Left \subseteq Nat /\ Left # {} /\ \A y \in Left : \E k \in K : y = n - k
  BY <1>1
<1> HIDE DEF Left
<1>3. PICK x \in K : \A y \in Left : n - x <= y
  BY <1>2, LeastOfNats
<1>4. \A k \in K : k <= x
  BY <1>1, <1>3
<1> QED BY <1>4

\* Induction over the naturals.
LEMMA Induction ==
  ASSUME NEW P, 0 \in P, \A n \in Nat : n \in P => n + 1 \in P
  PROVE  Nat \subseteq P
<1> SUFFICES ASSUME Nat \ P # {} PROVE FALSE
  OBVIOUS
<1>1. PICK m \in Nat \ P : \A k \in Nat \ P : m <= k
  BY LeastOfNats
<1>2. m - 1 \in Nat
  BY <1>1
<1>3. m - 1 \in P
  BY <1>1, <1>2
<1> QED BY <1>2, <1>3

\* Induction over the subsets of a finite set, from all smaller ones to the next.
LEMMA FiniteInduction ==
  ASSUME NEW S, IsFiniteSet(S), NEW P,
         \A T \in SUBSET S : (\A U \in SUBSET T : U # T => U \in P) => T \in P
  PROVE  SUBSET S \subseteq P
<1> DEFINE Q == {n \in Nat : \A T \in SUBSET S : Cardinality(T) <= n => T \in P}
<1>1. \A T \in SUBSET S : IsFiniteSet(T) /\ Cardinality(T) \in Nat
  BY FS_Subset, FS_CardinalityType
<1>2. ASSUME NEW T \in SUBSET S, NEW U \in SUBSET T, U # T
      PROVE  Cardinality(U) < Cardinality(T)
  <2>1. Cardinality(U) <= Cardinality(T) /\ (Cardinality(U) = Cardinality(T) => U = T)
    BY <1>1, FS_Subset
  <2> QED BY <1>1, <1>2, <2>1
<1>3. 0 \in Q
  <2>1. ASSUME NEW T \in SUBSET S, Cardinality(T) <= 0 PROVE T \in P
    <3>1. \A U \in SUBSET T : U = T
      BY <1>1, <1>2, <2>1
    <3> QED BY <3>1
  <2> QED BY <2>1
<1>4. ASSUME NEW n \in Nat, n \in Q PROVE n + 1 \in Q
  <2>1. ASSUME NEW T \in SUBSET S, Cardinality(T) <= n + 1 PROVE T \in P
    <3>1. ASSUME NEW U \in SUBSET T, U # T PROVE U \in P
      <4>1. U \in SUBSET S /\ Cardinality(U) < Cardinality(T)
        BY <1>2, <3>1
      <4>2. Cardinality(U) <= n
        BY <1>1, <2>1, <4>1
      <4> QED BY <1>4, <4>1, <4>2
    <3> QED BY <3>1
  <2> QED BY <2>1
<1> HIDE DEF Q
<1>5. Cardinality(S) \in Q
  BY <1>1, <1>3, <1>4, Induction
<1> QED BY <1>5, FS_Subset DEF Q

-----------------------------------------------------------------------------
(* Functions that are defined by recursion over the subsets of a finite set, *)
(* one element at a time: what the folds of the community modules are.       *)

Recursive(f, S, pick, step, base) ==
  f = [T \in SUBSET S |-> IF T = {} THEN base ELSE step[<<pick[T], f[T \ {pick[T]}]>>]]

\* Such a function exists, whatever is picked and whatever a step computes.
LEMMA RecursionExists ==
  ASSUME NEW S, IsFiniteSet(S), NEW V, NEW base \in V,
         NEW pick, \A T \in SUBSET S : T # {} => pick[T] \in T,
         NEW step \in [S \X V -> V]
  PROVE  \E f \in [SUBSET S -> V] : Recursive(f, S, pick, step, base)
<1> DEFINE Upto(n) == {T \in SUBSET S : Cardinality(T) <= n}
           Body(g, T) == IF T = {} THEN base ELSE step[<<pick[T], g[T \ {pick[T]}]>>]
           Solves(g, n) == g \in [Upto(n) -> V] /\ \A T \in Upto(n) : g[T] = Body(g, T)
           Q == {n \in Nat : \E g \in [Upto(n) -> V] : Solves(g, n)}
<1>1. \A T \in SUBSET S : IsFiniteSet(T) /\ Cardinality(T) \in Nat
  BY FS_Subset, FS_CardinalityType
<1>2. \A T \in SUBSET S : T # {} => /\ T \ {pick[T]} \in SUBSET S
                                    /\ Cardinality(T \ {pick[T]}) = Cardinality(T) - 1
  BY <1>1, FS_RemoveElement
<1>3. 0 \in Q
  <2>1. \A T \in Upto(0) : T = {}
    BY <1>1, FS_EmptySet
  <2>2. Solves([T \in Upto(0) |-> base], 0)
    BY <2>1
  <2> QED BY <2>2
<1>4. ASSUME NEW n \in Q PROVE n + 1 \in Q
  <2>1. PICK g \in [Upto(n) -> V] : Solves(g, n)
    OBVIOUS
  <2>2. n \in Nat /\ \A T \in Upto(n + 1) : T # {} => T \ {pick[T]} \in Upto(n)
    BY <1>1, <1>2
  <2> DEFINE h == [T \in Upto(n + 1) |-> Body(g, T)]
  <2>3. ASSUME NEW T \in Upto(n + 1) PROVE h[T] \in V /\ h[T] = Body(g, T)
    <3>1. T # {} => g[T \ {pick[T]}] \in V /\ pick[T] \in S
      BY <2>1, <2>2
    <3> QED BY <3>1
  <2>4. \A T \in Upto(n) : T \in Upto(n + 1) /\ h[T] = g[T]
    BY <1>1, <2>1, <2>2
  <2>5. \A T \in Upto(n + 1) : h[T] = Body(h, T)
    BY <2>2, <2>3, <2>4
  <2>6. h \in [Upto(n + 1) -> V]
    BY <2>3
  <2> HIDE DEF h
  <2>7. Solves(h, n + 1)
    BY <2>5, <2>6
  <2>8. n + 1 \in Nat
    BY <2>2
  <2> HIDE DEF Solves
  <2>9. \E g1 \in [Upto(n + 1) -> V] : Solves(g1, n + 1)
    BY <2>6, <2>7
  <2> QED BY <2>8, <2>9
<1> HIDE DEF Q
<1>5. Cardinality(S) \in Q
  BY <1>1, <1>3, <1>4, Induction
<1>6. Upto(Cardinality(S)) = SUBSET S
  BY FS_Subset
<1>7. PICK g \in [SUBSET S -> V] : Solves(g, Cardinality(S))
  BY <1>5, <1>6 DEF Q
<1>8. g = [T \in SUBSET S |-> Body(g, T)]
  BY <1>6, <1>7
<1> QED BY <1>8 DEF Recursive

-----------------------------------------------------------------------------
(* Sums over finite sets: the function that MapThenSumSet computes.          *)

SumsUp(g, w, S) ==
  g = [T \in SUBSET S |-> IF T = {} THEN 0
                          ELSE w[CHOOSE x \in T : TRUE] + g[T \ {CHOOSE x \in T : TRUE}]]

\* g[T] is the sum of the numbers w[x] over x \in T.
IsSum(g, w, S) ==
  /\ IsFiniteSet(S) /\ w \in [S -> Int] /\ g \in [SUBSET S -> Int]
  /\ SumsUp(g, w, S)

\* Integers on a finite set have a sum.
LEMMA SumsExist ==
  ASSUME NEW S, IsFiniteSet(S), NEW w \in [S -> Int]
  PROVE  \E g : IsSum(g, w, S)
<1> DEFINE pick == [T \in SUBSET S |-> CHOOSE x \in T : TRUE]
           step == [p \in S \X Int |-> w[p[1]] + p[2]]
<1>1. \A T \in SUBSET S : T # {} => pick[T] \in T
  OBVIOUS
<1>2. step \in [S \X Int -> Int]
  OBVIOUS
<1>3. \E g \in [SUBSET S -> Int] : Recursive(g, S, pick, step, 0)
  <2> HIDE DEF pick, step
  <2>1. 0 \in Int
    OBVIOUS
  <2> QED BY <1>1, <1>2, <2>1, RecursionExists, ZenonT(30)
<1>4. ASSUME NEW g \in [SUBSET S -> Int], Recursive(g, S, pick, step, 0) PROVE SumsUp(g, w, S)
  <2>1. \A T \in SUBSET S : T # {} => /\ pick[T] = CHOOSE x \in T : TRUE
                                      /\ pick[T] \in S /\ g[T \ {pick[T]}] \in Int
    BY <1>1
  <2>2. \A x \in S, n \in Int : step[<<x, n>>] = w[x] + n
    OBVIOUS
  <2> HIDE DEF step, pick
  <2>3. g = [T \in SUBSET S |-> IF T = {} THEN 0 ELSE step[<<pick[T], g[T \ {pick[T]}]>>]]
    BY <1>4 DEF Recursive
  <2>4. ASSUME NEW T \in SUBSET S, T # {}
        PROVE  step[<<pick[T], g[T \ {pick[T]}]>>]
                 = w[CHOOSE x \in T : TRUE] + g[T \ {CHOOSE x \in T : TRUE}]
    BY <2>1, <2>2, <2>4
  <2> QED BY <2>3, <2>4 DEF SumsUp
<1> QED BY <1>3, <1>4 DEF IsSum

\* What is defined as a sum of integers is one.
LEMMA SumsAreSums ==
  ASSUME NEW S, IsFiniteSet(S), NEW w \in [S -> Int], NEW g, SumsUp(g, w, S)
  PROVE  IsSum(g, w, S)
<1> DEFINE P == {T \in SUBSET S : g[T] \in Int}
<1>1. ASSUME NEW T \in SUBSET S, \A U \in SUBSET T : U # T => U \in P PROVE T \in P
  <2>1. CASE T = {}
    BY <2>1 DEF SumsUp
  <2>2. CASE T # {}
    <3> DEFINE x == CHOOSE x \in T : TRUE
    <3>1. x \in T
      BY <2>2
    <3>2. g[T] = w[x] + g[T \ {x}]
      BY <2>2 DEF SumsUp
    <3> HIDE DEF x
    <3>3. g[T \ {x}] \in Int /\ w[x] \in Int
      BY <1>1, <3>1
    <3> QED BY <3>2, <3>3
  <2> QED BY <2>1, <2>2
<1> HIDE DEF P
<1>2. SUBSET S \subseteq P
  BY <1>1, FiniteInduction
<1>3. \A T \in SUBSET S : g[T] \in Int
  BY <1>2 DEF P
<1>4. g = [T \in SUBSET S |-> g[T]]
  BY DEF SumsUp
<1>5. g \in [SUBSET S -> Int]
  BY <1>3, <1>4
<1> QED BY <1>5 DEF IsSum

\* Two sums of the same numbers agree wherever both are defined.
LEMMA SumsAgree ==
  ASSUME NEW S, NEW R, NEW g, NEW h, NEW w, NEW v, IsSum(g, w, S), IsSum(h, v, R),
         S \subseteq R, \A x \in S : w[x] = v[x]
  PROVE  g[S] = h[S]
<1> DEFINE P == {T \in SUBSET S : g[T] = h[T]}
<1>1. ASSUME NEW T \in SUBSET S, \A U \in SUBSET T : U # T => U \in P PROVE T \in P
  <2>1. CASE T = {}
    BY <2>1 DEF IsSum, SumsUp
  <2>2. CASE T # {}
    <3> DEFINE x == CHOOSE x \in T : TRUE
    <3>1. x \in T
      BY <2>2
    <3>2. g[T] = w[x] + g[T \ {x}] /\ h[T] = v[x] + h[T \ {x}]
      BY <2>2 DEF IsSum, SumsUp
    <3> HIDE DEF x
    <3>3. g[T \ {x}] = h[T \ {x}]
      BY <1>1, <3>1
    <3> QED BY <3>1, <3>2, <3>3
  <2> QED BY <2>1, <2>2
<1> HIDE DEF P
<1>2. IsFiniteSet(S)
  BY DEF IsSum
<1>3. SUBSET S \subseteq P
  BY <1>1, <1>2, FiniteInduction
<1> QED BY <1>3 DEF P

\* Which element is taken out first makes no difference.
LEMMA SumTakesOut ==
  ASSUME NEW S, NEW g, NEW w, IsSum(g, w, S), NEW b \in S
  PROVE  g[S] = w[b] + g[S \ {b}]
<1> DEFINE P == {T \in SUBSET S : \A a \in T : g[T] = w[a] + g[T \ {a}]}
<1>1. ASSUME NEW T \in SUBSET S, \A U \in SUBSET T : U # T => U \in P PROVE T \in P
  <2> SUFFICES ASSUME NEW a \in T PROVE g[T] = w[a] + g[T \ {a}]
    OBVIOUS
  <2> DEFINE x == CHOOSE x \in T : TRUE
  <2>1. x \in T
    OBVIOUS
  <2>2. g[T] = w[x] + g[T \ {x}]
    BY DEF IsSum, SumsUp
  <2> HIDE DEF x
  <2>3. CASE x = a
    BY <2>2, <2>3
  <2>4. CASE x # a
    <3>1. T \ {x} \in P /\ a \in T \ {x} /\ T \ {a} \in P /\ x \in T \ {a}
      BY <1>1, <2>1, <2>4
    <3>2. g[T \ {x}] = w[a] + g[(T \ {x}) \ {a}] /\ g[T \ {a}] = w[x] + g[(T \ {a}) \ {x}]
      BY <3>1
    <3>3. (T \ {x}) \ {a} = (T \ {a}) \ {x} /\ (T \ {x}) \ {a} \in SUBSET S
      OBVIOUS
    <3> DEFINE n == g[(T \ {x}) \ {a}]
    <3>4. n \in Int /\ w[a] \in Int /\ w[x] \in Int
      BY <2>1, <3>3 DEF IsSum
    <3>5. g[T] = w[x] + (w[a] + n) /\ g[T \ {a}] = w[x] + n
      BY <2>2, <3>2, <3>3
    <3> HIDE DEF n
    <3> QED BY <3>4, <3>5
  <2> QED BY <2>3, <2>4
<1> HIDE DEF P
<1>2. IsFiniteSet(S)
  BY DEF IsSum
<1>3. SUBSET S \subseteq P
  BY <1>1, <1>2, FiniteInduction
<1> QED BY <1>3 DEF P

\* One more number.
LEMMA SumAdds ==
  ASSUME NEW R, NEW S, NEW a, R = S \cup {a}, a \notin S,
         NEW g, NEW w, IsSum(g, w, R), NEW h, NEW v, IsSum(h, v, S),
         \A x \in S : w[x] = v[x]
  PROVE  g[R] = w[a] + h[S]
<1>1. S \subseteq R /\ a \in R /\ R \ {a} = S /\ \A x \in S : v[x] = w[x]
  OBVIOUS
<1>2. h[S] = g[S]
  BY <1>1, SumsAgree
<1>3. g[R] = w[a] + g[R \ {a}]
  BY <1>1, SumTakesOut
<1> QED BY <1>1, <1>2, <1>3

\* Nothing but zeros adds up to zero.
LEMMA SumOfZeros ==
  ASSUME NEW S, NEW g, NEW w, IsSum(g, w, S), \A x \in S : w[x] = 0
  PROVE  g[S] = 0
<1> DEFINE P == {T \in SUBSET S : g[T] = 0}
<1>1. ASSUME NEW T \in SUBSET S, \A U \in SUBSET T : U # T => U \in P PROVE T \in P
  <2>1. CASE T = {}
    BY <2>1 DEF IsSum, SumsUp
  <2>2. CASE T # {}
    <3> DEFINE x == CHOOSE x \in T : TRUE
    <3>1. x \in T
      BY <2>2
    <3>2. g[T] = w[x] + g[T \ {x}]
      BY <2>2 DEF IsSum, SumsUp
    <3> HIDE DEF x
    <3>3. g[T \ {x}] = 0 /\ w[x] = 0
      BY <1>1, <3>1
    <3> QED BY <3>2, <3>3
  <2> QED BY <2>1, <2>2
<1> HIDE DEF P
<1>2. IsFiniteSet(S)
  BY DEF IsSum
<1>3. SUBSET S \subseteq P
  BY <1>1, <1>2, FiniteInduction
<1> QED BY <1>3 DEF P

\* Naturals add up to a natural.
LEMMA SumOfNats ==
  ASSUME NEW S, NEW g, NEW w, IsSum(g, w, S), \A x \in S : w[x] \in Nat
  PROVE  g[S] \in Nat
<1> DEFINE P == {T \in SUBSET S : g[T] \in Nat}
<1>1. ASSUME NEW T \in SUBSET S, \A U \in SUBSET T : U # T => U \in P PROVE T \in P
  <2>1. CASE T = {}
    BY <2>1 DEF IsSum, SumsUp
  <2>2. CASE T # {}
    <3> DEFINE x == CHOOSE x \in T : TRUE
    <3>1. x \in T
      BY <2>2
    <3>2. g[T] = w[x] + g[T \ {x}]
      BY <2>2 DEF IsSum, SumsUp
    <3> HIDE DEF x
    <3>3. g[T \ {x}] \in Nat /\ w[x] \in Nat
      BY <1>1, <3>1
    <3> QED BY <3>2, <3>3
  <2> QED BY <2>1, <2>2
<1> HIDE DEF P
<1>2. IsFiniteSet(S)
  BY DEF IsSum
<1>3. SUBSET S \subseteq P
  BY <1>1, <1>2, FiniteInduction
<1> QED BY <1>3 DEF P
=============================================================================
