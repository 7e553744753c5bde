--------------------------- MODULE InductionProofs ---------------------------
(***************************************************************************)
(* Induction over data: counting, primitive recursion, and sums over       *)
(* finite sets.  The library's induction theorems are about an operator;   *)
(* what is used here is that inclusion is well-founded, which is about     *)
(* sets: a property is the set of what has it, a step is a function, and   *)
(* the minimal counterexample stands in for the induction step.            *)
(***************************************************************************)
EXTENDS Integers, FiniteSets, Functions, FiniteSetTheorems,
        WellFoundedInduction, TLAPS

(* What passes from the sets with one element less to a set holds of S.    *)
LEMMA SetInduction ==
    ASSUME NEW S, IsFiniteSet(S), NEW Good,
           \A T \in SUBSET S : (\A x \in T : T \ {x} \in Good) => T \in Good
    PROVE  S \in Good
<1> SUFFICES ASSUME S \notin Good PROVE FALSE
  OBVIOUS
<1> DEFINE Bad == {T \in SUBSET S : T \notin Good}
<1>1. Bad \subseteq FiniteSubsetsOf(S) /\ Bad # {}
  BY FS_FiniteSubsetsOfFinite
<1>2. PICK T \in Bad : \A U \in Bad : <<U, T>> \notin StrictSubsetOrdering(S)
  <2> HIDE DEF Bad
  <2>1. IsWellFoundedOn(StrictSubsetOrdering(S), FiniteSubsetsOf(S))
    BY FS_StrictSubsetOrderingWellFounded
  <2> QED
    BY ONLY <1>1, <2>1, WFMin
<1>3. PICK x \in T : T \ {x} \in Bad
  BY <1>2
<1>4. <<T \ {x}, T>> \in StrictSubsetOrdering(S)
  BY <1>3 DEF StrictSubsetOrdering
<1> QED
  BY <1>2, <1>3, <1>4

(* A set of numbers with 0 and the successors of its members has them all. *)
LEMMA Counting ==
    ASSUME NEW Good, 0 \in Good, \A n \in Nat : n \in Good => n + 1 \in Good
    PROVE  \A n \in Nat : n \in Good
<1> SUFFICES ASSUME NEW n \in Nat PROVE n \in Good
  OBVIOUS
<1> DEFINE S == 1 .. n
           Sized == {T \in SUBSET S : Cardinality(T) \in Good}
<1>1. IsFiniteSet(S) /\ Cardinality(S) = n
  BY FS_Interval
<1>2. ASSUME NEW T \in SUBSET S, \A x \in T : T \ {x} \in Sized
      PROVE  T \in Sized
  <2>1. IsFiniteSet(T) /\ Cardinality(T) \in Nat
    BY <1>1, FS_Subset, FS_CardinalityType
  <2>2. CASE T = {}
    BY <2>2, FS_EmptySet
  <2>3. CASE T # {}
    <3>1. PICK x \in T : T \ {x} \in Sized
      BY <1>2, <2>3
    <3>2. IsFiniteSet(T \ {x}) /\ Cardinality(T \ {x}) = Cardinality(T) - 1
      BY <2>1, FS_RemoveElement
    <3>3. Cardinality(T \ {x}) \in Nat
      BY <3>2, FS_CardinalityType
    <3>4. Cardinality(T \ {x}) \in Good
      BY <3>1
    <3> HIDE DEF Sized, S
    <3>5. Cardinality(T) - 1 + 1 \in Good
      BY <3>2, <3>3, <3>4
    <3>6. Cardinality(T) - 1 + 1 = Cardinality(T)
      BY <2>1
    <3> QED
      BY <3>5, <3>6 DEF Sized
  <2> QED
    BY <2>2, <2>3
<1> HIDE DEF Sized
<1>3. S \in Sized
  BY ONLY <1>1, <1>2, SetInduction
<1> QED
  BY <1>1, <1>3 DEF Sized

(* The same up to a bound.                                                 *)
LEMMA CountingUpTo ==
    ASSUME NEW n \in Nat, NEW Good, 0 \in Good,
           \A k \in 1 .. n : k - 1 \in Good => k \in Good
    PROVE  \A k \in 0 .. n : k \in Good
<1> DEFINE G == {k \in Nat : k <= n => k \in Good}
<1>1. 0 \in G
  OBVIOUS
<1>2. ASSUME NEW k \in Nat, k \in G PROVE k + 1 \in G
  <2> SUFFICES ASSUME k + 1 <= n PROVE k + 1 \in Good
    OBVIOUS
  <2>1. k + 1 \in 1 .. n /\ k + 1 - 1 = k /\ k \in Good
    BY <1>2
  <2> QED
    BY <2>1
<1> HIDE DEF G
<1>3. \A k \in Nat : k \in G
  BY <1>1, <1>2, Counting
<1> QED
  BY <1>3 DEF G

(* Primitive recursion over 0 .. n.                                        *)
Within(step, n, S) == \A k \in 1 .. n, x \in S : step[k][x] \in S

Runs(f, a, n, step) == f[0] = a /\ \A k \in 1 .. n : f[k] = step[k][f[k - 1]]

(* Steps that stay in S run from a through all of 0 .. n.                  *)
LEMMA Recursion ==
    ASSUME NEW S, NEW a \in S, NEW n \in Nat, NEW step,
           Within(step, n, S)
    PROVE  \E f \in [0 .. n -> S] : Runs(f, a, n, step)
<1> DEFINE Good == {m \in Nat : m <= n =>
              \E f \in [0 .. m -> S] : f[0] = a /\ \A k \in 1 .. m : f[k] = step[k][f[k - 1]]}
<1>1. 0 \in Good
  <2> DEFINE f == [k \in 0 .. 0 |-> a]
  <2>1. f \in [0 .. 0 -> S] /\ f[0] = a /\ \A k \in 1 .. 0 : f[k] = step[k][f[k - 1]]
    OBVIOUS
  <2> HIDE DEF f
  <2> QED
    BY <2>1
<1>2. ASSUME NEW m \in Nat, m \in Good PROVE m + 1 \in Good
  <2> SUFFICES ASSUME m + 1 <= n
               PROVE  \E f \in [0 .. m + 1 -> S] :
                        f[0] = a /\ \A k \in 1 .. m + 1 : f[k] = step[k][f[k - 1]]
    OBVIOUS
  <2>1. PICK f \in [0 .. m -> S] :
             f[0] = a /\ \A k \in 1 .. m : f[k] = step[k][f[k - 1]]
    BY <1>2
  <2> DEFINE x == step[m + 1][f[m]]
             g == [k \in 0 .. m + 1 |-> IF k = m + 1 THEN x ELSE f[k]]
  <2>2. x \in S
    BY <2>1 DEF Within
  <2> HIDE DEF x
  <2>3. g \in [0 .. m + 1 -> S]
    BY <2>1, <2>2
  <2>4. g[0] = a /\ g[m + 1] = x
    BY <2>1
  <2>5. ASSUME NEW k \in 1 .. m PROVE g[k] = step[k][g[k - 1]]
    BY <2>1
  <2>6. g[m + 1] = step[m + 1][g[m + 1 - 1]]
    <3>1. g[m] = f[m] /\ m + 1 - 1 = m
      OBVIOUS
    <3> HIDE DEF g
    <3> QED
      BY <2>4, <3>1 DEF x
  <2> HIDE DEF g
  <2>7. ASSUME NEW k \in 1 .. m + 1 PROVE g[k] = step[k][g[k - 1]]
    <3>1. k \in 1 .. m \/ k = m + 1
      OBVIOUS
    <3> QED
      BY <2>5, <2>6, <3>1
  <2> QED
    BY <2>3, <2>4, <2>7
<1> HIDE DEF Good
<1>3. n \in Good
  BY <1>1, <1>2, Counting
<1> QED
  BY <1>3 DEF Good, Runs

-----------------------------------------------------------------------------
(* The recursive function behind a sum: that it exists, that it is unique. *)

some(s) == CHOOSE x \in s : TRUE

IsSumOver(g, f, D) ==
    g = [s \in D |-> IF s = {} THEN 0 ELSE f[some(s)] + g[s \ {some(s)}]]

(* A set that is not empty has some element.                               *)
LEMMA SomeOfIt == ASSUME NEW s, s # {} PROVE some(s) \in s
  BY DEF some

(* A recursive sum over the subsets of a finite set exists.                *)
LEMMA SumExists ==
    ASSUME NEW f, NEW S, IsFiniteSet(S)
    PROVE  \E g : IsSumOver(g, f, SUBSET S)
<1> DEFINE D(T) == {s \in SUBSET S : Cardinality(s) <= Cardinality(T)}
           Good == {T \in SUBSET S : \E g : IsSumOver(g, f, D(T))}
<1>1. ASSUME NEW T \in SUBSET S, \A x \in T : T \ {x} \in Good
      PROVE  T \in Good
  <2>1. \A s \in SUBSET S : IsFiniteSet(s) /\ Cardinality(s) \in Nat
    BY FS_Subset, FS_CardinalityType
  <2>2. CASE T = {}
    <3> DEFINE g == [s \in D(T) |-> 0]
    <3>1. D(T) = {{}}
      BY <2>1, <2>2, FS_EmptySet
    <3>2. IsSumOver(g, f, D(T))
      BY <3>1 DEF IsSumOver
    <3> QED
      BY <3>2
  <2>3. CASE T # {}
    <3> DEFINE x == some(T)
    <3>1. x \in T
      BY <2>3, SomeOfIt
    <3>2. PICK g : IsSumOver(g, f, D(T \ {x}))
      BY <1>1, <3>1
    <3> DEFINE h == [s \in D(T) |-> IF s = {} THEN 0
                                    ELSE f[some(s)] + g[s \ {some(s)}]]
    <3>3. Cardinality(T \ {x}) = Cardinality(T) - 1
      BY <2>1, <3>1, FS_RemoveElement
    <3>4. ASSUME NEW s \in D(T \ {x}) PROVE s \in D(T) /\ h[s] = g[s]
      <4>1. s \in D(T)
        BY <2>1, <3>3
      <4>2. g[s] = IF s = {} THEN 0 ELSE f[some(s)] + g[s \ {some(s)}]
        BY <3>2 DEF IsSumOver
      <4> QED
        BY <4>1, <4>2
    <3>5. ASSUME NEW s \in D(T), s # {} PROVE s \ {some(s)} \in D(T \ {x})
      <4>1. some(s) \in s
        BY <3>5, SomeOfIt
      <4>2. Cardinality(s \ {some(s)}) = Cardinality(s) - 1
        BY <2>1, <4>1, FS_RemoveElement
      <4> QED
        BY <2>1, <3>3, <4>2
    <3>6. h = [s \in D(T) |-> IF s = {} THEN 0
                              ELSE f[some(s)] + h[s \ {some(s)}]]
      <4> HIDE DEF D
      <4> QED
        BY <3>4, <3>5
    <3>7. IsSumOver(h, f, D(T))
      <4> HIDE DEF h
      <4> QED
        BY <3>6 DEF IsSumOver
    <3> QED
      BY <3>7
  <2> QED
    BY <2>2, <2>3
<1>2. S \in Good
  <2> HIDE DEF Good
  <2> QED
    BY <1>1, SetInduction
<1>3. D(S) = SUBSET S
  BY FS_Subset
<1> QED
  BY <1>2, <1>3

(* Two such sums agree wherever both are defined.                          *)
LEMMA SumUnique ==
    ASSUME NEW f, NEW S, NEW T, NEW g, NEW h, NEW U, IsFiniteSet(U),
           IsSumOver(g, f, SUBSET S), IsSumOver(h, f, SUBSET T),
           U \subseteq S, U \subseteq T
    PROVE  g[U] = h[U]
<1> DEFINE Good == {V \in SUBSET U : g[V] = h[V]}
<1>1. ASSUME NEW V \in SUBSET U, \A x \in V : V \ {x} \in Good
      PROVE  V \in Good
  <2>1. /\ g[V] = IF V = {} THEN 0 ELSE f[some(V)] + g[V \ {some(V)}]
        /\ h[V] = IF V = {} THEN 0 ELSE f[some(V)] + h[V \ {some(V)}]
    BY DEF IsSumOver
  <2> QED
    BY <1>1, <2>1, SomeOfIt
<1>2. U \in Good
  <2> HIDE DEF Good
  <2> QED
    BY <1>1, SetInduction
<1> QED
  BY <1>2

-----------------------------------------------------------------------------
(* What a sum is.                                                          *)

(* SumFunctionOnSet is one of them.                                        *)
LEMMA SumDef ==
    ASSUME NEW f, NEW S, IsFiniteSet(S)
    PROVE  \E g : IsSumOver(g, f, SUBSET S) /\ SumFunctionOnSet(f, S) = g[S]
<1> DEFINE iter == CHOOSE g : IsSumOver(g, f, SUBSET S)
<1>1. IsSumOver(iter, f, SUBSET S)
  BY SumExists
<1>2. SumFunctionOnSet(f, S) = iter[S]
  BY DEF SumFunctionOnSet, FoldFunctionOnSet, MapThenFoldSet, IsSumOver, some
<1> QED
  BY <1>1, <1>2

(* Over no elements the sum is 0.                                          *)
LEMMA SumEmpty == ASSUME NEW f PROVE SumFunctionOnSet(f, {}) = 0
<1>1. PICK g : IsSumOver(g, f, SUBSET {}) /\ SumFunctionOnSet(f, {}) = g[{}]
  BY SumDef, FS_EmptySet
<1> QED
  BY <1>1 DEF IsSumOver

(* Over others it is one value and the sum over what is left.              *)
LEMMA SumSome ==
    ASSUME NEW f, NEW S, IsFiniteSet(S), S # {}
    PROVE  SumFunctionOnSet(f, S) = f[some(S)] + SumFunctionOnSet(f, S \ {some(S)})
<1> DEFINE T == S \ {some(S)}
<1>1. IsFiniteSet(T)
  BY FS_RemoveElement
<1>2. PICK g : IsSumOver(g, f, SUBSET S) /\ SumFunctionOnSet(f, S) = g[S]
  BY SumDef
<1>3. PICK h : IsSumOver(h, f, SUBSET T) /\ SumFunctionOnSet(f, T) = h[T]
  BY <1>1, SumDef
<1>4. g[T] = h[T]
  <2> HIDE DEF T
  <2>1. T \subseteq S
    BY DEF T
  <2> QED
    BY <1>1, <1>2, <1>3, <2>1, SumUnique
<1>5. g[S] = f[some(S)] + g[T]
  BY <1>2 DEF IsSumOver
<1> QED
  BY <1>2, <1>3, <1>4, <1>5

(* Whatever holds 0 and takes in one more value of f.                      *)
LEMMA SumIn ==
    ASSUME NEW f, NEW S, IsFiniteSet(S),
           NEW R, 0 \in R, \A x \in S, n \in R : f[x] + n \in R
    PROVE  SumFunctionOnSet(f, S) \in R
<1> DEFINE Good == {T \in SUBSET S : SumFunctionOnSet(f, T) \in R}
<1>1. ASSUME NEW T \in SUBSET S, \A x \in T : T \ {x} \in Good
      PROVE  T \in Good
  <2>1. IsFiniteSet(T)
    BY FS_Subset
  <2>2. CASE T = {}
    BY <2>2, SumEmpty
  <2>3. CASE T # {}
    <3>1. /\ some(T) \in T
          /\ SumFunctionOnSet(f, T) = f[some(T)] + SumFunctionOnSet(f, T \ {some(T)})
      BY <2>1, <2>3, SumSome, SomeOfIt
    <3> QED
      BY <1>1, <3>1
  <2> QED
    BY <2>2, <2>3
<1>2. S \in Good
  <2> HIDE DEF Good
  <2> QED
    BY <1>1, SetInduction
<1> QED
  BY <1>2

(* A sum of integers is an integer.                                        *)
LEMMA SumInt ==
    ASSUME NEW f, NEW S, IsFiniteSet(S), \A x \in S : f[x] \in Int
    PROVE  SumFunctionOnSet(f, S) \in Int
BY SumIn

(* A sum of naturals is a natural.                                         *)
LEMMA SumNat ==
    ASSUME NEW f, NEW S, IsFiniteSet(S), \A x \in S : f[x] \in Nat
    PROVE  SumFunctionOnSet(f, S) \in Nat
<1>1. 0 \in Nat /\ \A x \in S, n \in Nat : f[x] + n \in Nat
  OBVIOUS
<1> QED
  BY <1>1, SumIn

(* A sum of zeros is zero.                                                 *)
LEMMA SumZero ==
    ASSUME NEW f, NEW S, IsFiniteSet(S), \A x \in S : f[x] = 0
    PROVE  SumFunctionOnSet(f, S) = 0
<1>1. 0 \in {0} /\ \A x \in S, n \in {0} : f[x] + n \in {0}
  OBVIOUS
<1>2. SumFunctionOnSet(f, S) \in {0}
  BY <1>1, SumIn
<1> QED
  BY <1>2


(* Any element may be taken out first.                                     *)
LEMMA SumRemove ==
    ASSUME NEW f, NEW S, IsFiniteSet(S), \A x \in S : f[x] \in Int, NEW a \in S
    PROVE  SumFunctionOnSet(f, S) = f[a] + SumFunctionOnSet(f, S \ {a})
<1> DEFINE Good == {T \in SUBSET S :
                      \A x \in T : SumFunctionOnSet(f, T)
                                     = f[x] + SumFunctionOnSet(f, T \ {x})}
<1>1. ASSUME NEW T \in SUBSET S, \A x \in T : T \ {x} \in Good
      PROVE  T \in Good
  <2> SUFFICES ASSUME NEW x \in T
               PROVE  SumFunctionOnSet(f, T) = f[x] + SumFunctionOnSet(f, T \ {x})
    OBVIOUS
  <2> DEFINE y == some(T)
             R == (T \ {x}) \ {y}
  <2>1. IsFiniteSet(T) /\ IsFiniteSet(T \ {x}) /\ IsFiniteSet(R)
    BY FS_Subset
  <2>2. y \in T /\ SumFunctionOnSet(f, T) = f[y] + SumFunctionOnSet(f, T \ {y})
    BY <2>1, SumSome, SomeOfIt
  <2>3. CASE x # y
    <3>1. (T \ {y}) \ {x} = R /\ x \in T \ {y} /\ y \in T \ {x}
      BY <2>2, <2>3
    <3>2. SumFunctionOnSet(f, T \ {y}) = f[x] + SumFunctionOnSet(f, R)
      BY <1>1, <2>2, <3>1
    <3>3. SumFunctionOnSet(f, T \ {x}) = f[y] + SumFunctionOnSet(f, R)
      BY <1>1, <3>1
    <3>4. SumFunctionOnSet(f, R) \in Int /\ f[x] \in Int /\ f[y] \in Int
      BY <2>1, <2>2, SumInt
    <3> QED
      BY <2>2, <3>2, <3>3, <3>4
  <2> QED
    BY <2>2, <2>3
<1>2. S \in Good
  <2> HIDE DEF Good
  <2> QED
    BY <1>1, SetInduction
<1> QED
  BY <1>2

(* Only the values on the set count.                                       *)
LEMMA SumSame ==
    ASSUME NEW f, NEW g, NEW S, IsFiniteSet(S), \A x \in S : f[x] = g[x]
    PROVE  SumFunctionOnSet(f, S) = SumFunctionOnSet(g, S)
<1> DEFINE Good == {T \in SUBSET S :
                      SumFunctionOnSet(f, T) = SumFunctionOnSet(g, T)}
<1>1. ASSUME NEW T \in SUBSET S, \A x \in T : T \ {x} \in Good
      PROVE  T \in Good
  <2>1. IsFiniteSet(T)
    BY FS_Subset
  <2>2. CASE T = {}
    BY <2>2, SumEmpty
  <2>3. CASE T # {}
    <3>1. /\ some(T) \in T
          /\ SumFunctionOnSet(f, T) = f[some(T)] + SumFunctionOnSet(f, T \ {some(T)})
          /\ SumFunctionOnSet(g, T) = g[some(T)] + SumFunctionOnSet(g, T \ {some(T)})
      BY <2>1, <2>3, SumSome, SomeOfIt
    <3> QED
      BY <1>1, <3>1
  <2> QED
    BY <2>2, <2>3
<1>2. S \in Good
  <2> HIDE DEF Good
  <2> QED
    BY <1>1, SetInduction
<1> QED
  BY <1>2

(* The sum is no less than any one of its naturals, or any two.            *)
LEMMA SumAtLeast ==
    ASSUME NEW f, NEW S, IsFiniteSet(S), \A x \in S : f[x] \in Nat, NEW a \in S
    PROVE  f[a] <= SumFunctionOnSet(f, S)
<1>1. SumFunctionOnSet(f, S) = f[a] + SumFunctionOnSet(f, S \ {a})
  BY SumRemove
<1>2. SumFunctionOnSet(f, S \ {a}) \in Nat
  BY SumNat, FS_RemoveElement
<1> QED
  BY <1>1, <1>2

(* No less than two of its naturals together.                              *)
LEMMA SumAtLeastTwo ==
    ASSUME NEW f, NEW S, IsFiniteSet(S), \A x \in S : f[x] \in Nat,
           NEW a \in S, NEW b \in S, a # b
    PROVE  f[a] + f[b] <= SumFunctionOnSet(f, S)
<1>1. SumFunctionOnSet(f, S) = f[a] + SumFunctionOnSet(f, S \ {a})
  BY SumRemove
<1>2. IsFiniteSet(S \ {a}) /\ b \in S \ {a}
  BY FS_RemoveElement
<1>3. SumFunctionOnSet(f, S \ {a}) \in Nat /\ f[b] <= SumFunctionOnSet(f, S \ {a})
  BY <1>2, SumNat, SumAtLeast
<1> QED
  BY <1>1, <1>3

(* Two functions that differ at one place.                                 *)
LEMMA SumChange ==
    ASSUME NEW f, NEW g, NEW S, IsFiniteSet(S), NEW a \in S,
           \A x \in S : f[x] \in Int /\ g[x] \in Int,
           \A x \in S \ {a} : g[x] = f[x]
    PROVE  SumFunctionOnSet(g, S) = SumFunctionOnSet(f, S) - f[a] + g[a]
<1>1. /\ SumFunctionOnSet(f, S) = f[a] + SumFunctionOnSet(f, S \ {a})
      /\ SumFunctionOnSet(g, S) = g[a] + SumFunctionOnSet(g, S \ {a})
  BY SumRemove
<1>2. IsFiniteSet(S \ {a})
  BY FS_RemoveElement
<1>3. /\ SumFunctionOnSet(f, S \ {a}) = SumFunctionOnSet(g, S \ {a})
      /\ SumFunctionOnSet(f, S \ {a}) \in Int
  BY <1>2, SumSame, SumInt
<1> QED
  BY <1>1, <1>3

(* One element more.                                                       *)
LEMMA SumInsert ==
    ASSUME NEW f, NEW S, IsFiniteSet(S), NEW a, a \notin S,
           \A x \in S \cup {a} : f[x] \in Int
    PROVE  SumFunctionOnSet(f, S \cup {a}) = f[a] + SumFunctionOnSet(f, S)
<1>1. IsFiniteSet(S \cup {a}) /\ (S \cup {a}) \ {a} = S
  BY FS_AddElement
<1> QED
  BY <1>1, SumRemove

=============================================================================
