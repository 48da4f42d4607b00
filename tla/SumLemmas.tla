------------------------------ MODULE SumLemmas ------------------------------
(***************************************************************************)
(* Sums over finite sets (SumFunction of Functions), cardinalities and     *)
(* greatest elements, as far as the accounting proofs need them.           *)
(*                                                                         *)
(* SumFunction adds the values up in an order a CHOOSE takes. The lemmas   *)
(* never unfold that order: SumIsAdditive shows once that it computes the  *)
(* value of any additive set function, and the others use only additivity. *)
(***************************************************************************)
EXTENDS Integers, FiniteSets, Functions, FiniteSetTheorems, TLAPS

\* A family of subsets of a finite set has a smallest member.
LEMMA SmallestSet ==
    ASSUME NEW S, IsFiniteSet(S), NEW Bad, Bad \subseteq SUBSET S, Bad # {}
    PROVE  \E T \in Bad : \A U \in Bad : U \subseteq T => U = T
<1>1. IsWellFoundedOn(StrictSubsetOrdering(S), FiniteSubsetsOf(S))
  BY FS_StrictSubsetOrderingWellFounded
<1>2. FiniteSubsetsOf(S) = SUBSET S
  BY FS_FiniteSubsetsOfFinite
<1>3. PICK T \in Bad : \A U \in Bad : ~ (<<U, T>> \in StrictSubsetOrdering(S))
  <2>. HIDE DEF FiniteSubsetsOf, StrictSubsetOrdering
  <2>1. Bad \subseteq FiniteSubsetsOf(S)
    BY <1>2
  <2>. QED
    BY <1>1, <2>1, WFMin
<1>. QED
  BY <1>3 DEF StrictSubsetOrdering

\* What holds of {} and survives adding an element holds of a finite set: this
\* is induction over finite sets, with a set in the place of the predicate.
LEMMA SetsGrow ==
    ASSUME NEW S, IsFiniteSet(S), NEW Good, {} \in Good,
           \A T \in SUBSET S, x \in S : T \in Good /\ x \notin T => T \cup {x} \in Good
    PROVE  S \in Good
<1>. DEFINE Bad == (SUBSET S) \ Good
<1>. SUFFICES ASSUME Bad # {} PROVE FALSE
  OBVIOUS
<1>1. PICK T \in Bad : \A U \in Bad : U \subseteq T => U = T
  <2>. HIDE DEF Bad
  <2>1. Bad \subseteq SUBSET S
    BY DEF Bad
  <2>. QED
    BY <2>1, SmallestSet
<1>2. PICK x \in T : TRUE
  OBVIOUS
<1>3. T \ {x} \in Good
  BY <1>1, <1>2
<1>4. (T \ {x}) \cup {x} = T
  BY <1>2
<1>. QED
  BY <1>2, <1>3, <1>4

\* g gives each subset of S the sum of f over it.
Additive(g, f, S) ==
    /\ g \in [SUBSET S -> Int]
    /\ g[{}] = 0
    /\ \A T \in SUBSET S, x \in S : x \in T => g[T] = f[x] + g[T \ {x}]

\* Such a g exists, built up one element of D at a time.
LEMMA AdditiveExists ==
    ASSUME NEW D, IsFiniteSet(D), NEW f \in [D -> Int]
    PROVE  \E g : Additive(g, f, D)
<1>. DEFINE Good == {S \in SUBSET D : \E g : Additive(g, f, S)}
<1>1. {} \in Good
  <2>1. Additive([T \in SUBSET {} |-> 0], f, {})
    BY DEF Additive
  <2>. QED
    BY <2>1
<1>2. ASSUME NEW S \in SUBSET D, NEW a \in D, S \in Good, a \notin S
      PROVE  S \cup {a} \in Good
  <2>1. PICK h : Additive(h, f, S)
    BY <1>2
  <2>. DEFINE g == [T \in SUBSET (S \cup {a}) |->
                      IF a \in T THEN f[a] + h[T \ {a}] ELSE h[T]]
  <2>2. g \in [SUBSET (S \cup {a}) -> Int]
    <3>. SUFFICES ASSUME NEW T \in SUBSET (S \cup {a}) PROVE g[T] \in Int
      OBVIOUS
    <3>1. T \ {a} \in SUBSET S
      OBVIOUS
    <3>2. h[T \ {a}] \in Int /\ (a \notin T => h[T] \in Int)
      BY <2>1, <3>1 DEF Additive
    <3>. QED
      BY <3>2
  <2>3. g[{}] = 0
    BY <2>1 DEF Additive
  <2>4. ASSUME NEW T \in SUBSET (S \cup {a}), NEW x \in S \cup {a}, x \in T
        PROVE  g[T] = f[x] + g[T \ {x}]
    <3>1. CASE x = a
      BY <2>4, <3>1
    <3>2. CASE x # a /\ a \notin T
      <4>1. T \in SUBSET S /\ x \in S /\ a \notin T \ {x}
        BY <3>2, <2>4
      <4>2. h[T] = f[x] + h[T \ {x}]
        BY <2>1, <2>4, <4>1 DEF Additive
      <4>. QED
        BY <4>1, <4>2, <3>2
    <3>3. CASE x # a /\ a \in T
      <4>. DEFINE U == T \ {a}
      <4>1. U \in SUBSET S /\ x \in S /\ x \in U /\ U \ {x} \in SUBSET S
        BY <3>3, <2>4
      <4>2. h[U] = f[x] + h[U \ {x}]
        BY <2>1, <4>1 DEF Additive
      <4>3. (T \ {x}) \ {a} = U \ {x} /\ a \in T \ {x} /\ T \ {x} \in SUBSET (S \cup {a})
        BY <3>3
      <4>4. g[T] = f[a] + h[U] /\ g[T \ {x}] = f[a] + h[U \ {x}]
        BY <3>3, <4>3
      <4>5. h[U \ {x}] \in Int /\ f[a] \in Int /\ f[x] \in Int
        BY <2>1, <4>1 DEF Additive
      <4>. HIDE DEF g, U
      <4>. QED
        BY <4>2, <4>4, <4>5
    <3>. QED
      BY <3>1, <3>2, <3>3
  <2>5. Additive(g, f, S \cup {a})
    <3>. HIDE DEF g
    <3>. QED
      BY <2>2, <2>3, <2>4 DEF Additive
  <2>. QED
    BY <2>5
<1>3. \A T \in SUBSET D, x \in D : T \in Good /\ x \notin T => T \cup {x} \in Good
  BY <1>2
<1>4. D \in Good
  <2>. HIDE DEF Good
  <2>. QED
    BY <1>1, <1>3, SetsGrow
<1>. QED
  BY <1>4

\* SumFunction computes the sum: whatever order its CHOOSE takes the elements in.
LEMMA SumIsAdditive ==
    ASSUME NEW D, IsFiniteSet(D), NEW f \in [D -> Int], NEW g, Additive(g, f, D)
    PROVE  SumFunction(f) = g[D]
<1>. DEFINE Pick(s) == CHOOSE x \in s : TRUE
            Step(h) == [s \in SUBSET D |->
                          IF s = {} THEN 0 ELSE f[Pick(s)] + h[s \ {Pick(s)}]]
            iter == CHOOSE h : h = Step(h)
<1>1. SumFunction(f) = iter[D]
  <2>1. DOMAIN f = D
    OBVIOUS
  <2>. QED
    BY <2>1 DEF SumFunction, SumFunctionOnSet, FoldFunctionOnSet, MapThenFoldSet
<1>2. \A s : s # {} => Pick(s) \in s
  OBVIOUS
<1>3. g = Step(g)
  <2>1. ASSUME NEW s \in SUBSET D
        PROVE  g[s] = IF s = {} THEN 0 ELSE f[Pick(s)] + g[s \ {Pick(s)}]
    <3>1. CASE s = {}
      BY <3>1 DEF Additive
    <3>2. CASE s # {}
      <4>1. Pick(s) \in s /\ Pick(s) \in D
        BY <1>2, <3>2
      <4>. HIDE DEF Pick
      <4>. QED
        BY <3>2, <4>1 DEF Additive
    <3>. QED
      BY <3>1, <3>2
  <2>. HIDE DEF Pick
  <2>. QED
    BY <2>1 DEF Additive
<1>4. iter = Step(iter)
  <2>. HIDE DEF Step
  <2>. QED
    BY <1>3
<1>. HIDE DEF iter
<1>. DEFINE Bad == {s \in SUBSET D : iter[s] # g[s]}
<1>5. SUFFICES ASSUME Bad # {} PROVE FALSE
  BY <1>1, <1>4, <1>3
<1>6. PICK T \in Bad : \A U \in Bad : U \subseteq T => U = T
  <2>1. Bad \subseteq SUBSET D
    OBVIOUS
  <2>. HIDE DEF Bad
  <2>. QED
    BY <1>5, <2>1, SmallestSet
<1>7. CASE T = {}
  BY <1>7, <1>6, <1>4, <1>3
<1>8. CASE T # {}
  <2>1. Pick(T) \in T
    BY <1>2, <1>8
  <2>. DEFINE U == T \ {Pick(T)}
  <2>2. U \in SUBSET D /\ U \subseteq T /\ U # T
    BY <2>1
  <2>3. iter[U] = g[U]
    BY <1>6, <2>2
  <2>4. iter[T] = f[Pick(T)] + iter[U] /\ g[T] = f[Pick(T)] + g[U]
    <3>. HIDE DEF Pick
    <3>. QED
      BY <1>3, <1>4, <1>8
  <2>. QED
    BY <2>3, <2>4, <1>6
<1>. QED
  BY <1>7, <1>8

\* A sum of integers is an integer.
LEMMA SumIsInt ==
    ASSUME NEW D, IsFiniteSet(D), NEW f \in [D -> Int]
    PROVE  SumFunction(f) \in Int
<1>1. PICK g : Additive(g, f, D)
  BY AdditiveExists
<1>2. SumFunction(f) = g[D]
  BY <1>1, SumIsAdditive
<1>. QED
  BY <1>1, <1>2 DEF Additive

\* When one summand changes, the sum changes by as much.
LEMMA SumUpdate ==
    ASSUME NEW D, IsFiniteSet(D), NEW f \in [D -> Int], NEW g \in [D -> Int],
           NEW a \in D, \A x \in D : x # a => g[x] = f[x]
    PROVE  SumFunction(g) = SumFunction(f) - f[a] + g[a]
<1>1. PICK F : Additive(F, f, D)
  BY AdditiveExists
<1>2. PICK G : Additive(G, g, D)
  BY AdditiveExists
<1>. DEFINE R == D \ {a}
            Good == {T \in SUBSET R : F[T] = G[T]}
<1>3. IsFiniteSet(R)
  BY FS_RemoveElement
<1>4. {} \in Good
  BY <1>1, <1>2 DEF Additive
<1>5. ASSUME NEW T \in SUBSET R, NEW x \in R, T \in Good, x \notin T
      PROVE  T \cup {x} \in Good
  <2>. DEFINE U == T \cup {x}
  <2>1. U \in SUBSET D /\ x \in U /\ U \ {x} = T /\ U \in SUBSET R
    BY <1>5
  <2>2. F[U] = f[x] + F[T] /\ G[U] = g[x] + G[T]
    <3>. HIDE DEF U
    <3>. QED
      BY <1>1, <1>2, <2>1 DEF Additive
  <2>. QED
    BY <1>5, <2>1, <2>2
<1>6. R \in Good
  <2>. HIDE DEF Good, R
  <2>. QED
    BY <1>3, <1>4, <1>5, SetsGrow
<1>7. F[D] = f[a] + F[R] /\ G[D] = g[a] + G[R]
  BY <1>1, <1>2 DEF Additive
<1>8. SumFunction(f) = F[D] /\ SumFunction(g) = G[D]
  BY <1>1, <1>2, SumIsAdditive
<1>9. F[R] \in Int /\ f[a] \in Int /\ g[a] \in Int
  BY <1>1 DEF Additive
<1>. QED
  BY <1>6, <1>7, <1>8, <1>9

\* A sum of zeros is zero.
LEMMA SumOfZeros ==
    ASSUME NEW D, IsFiniteSet(D), NEW f \in [D -> Int], \A x \in D : f[x] = 0
    PROVE  SumFunction(f) = 0
<1>. DEFINE g == [T \in SUBSET D |-> 0]
<1>1. Additive(g, f, D)
  BY DEF Additive
<1>. HIDE DEF g
<1>2. SumFunction(f) = g[D]
  BY <1>1, SumIsAdditive
<1>. QED
  BY <1>2 DEF g

\* Summands that are zero may be left out.
LEMMA SumSupport ==
    ASSUME NEW D, IsFiniteSet(D), NEW f \in [D -> Int], NEW E \in SUBSET D,
           \A x \in D \ E : f[x] = 0
    PROVE  SumFunction([x \in E |-> f[x]]) = SumFunction(f)
<1>1. PICK g : Additive(g, f, D)
  BY AdditiveExists
<1>. DEFINE h == [T \in SUBSET E |-> g[T]]
            fE == [x \in E |-> f[x]]
            R == D \ E
            Good == {T \in SUBSET R : g[E \cup T] = g[E]}
<1>2. IsFiniteSet(E) /\ IsFiniteSet(R)
  BY FS_Subset, FS_Difference
<1>3. fE \in [E -> Int]
  OBVIOUS
<1>4. Additive(h, fE, E)
  BY <1>1 DEF Additive
<1>5. SumFunction(fE) = g[E]
  <2>1. SumFunction(fE) = h[E]
    <3>. HIDE DEF h, fE
    <3>. QED
      BY <1>2, <1>3, <1>4, SumIsAdditive
  <2>. QED
    BY <2>1
<1>6. {} \in Good
  OBVIOUS
<1>7. ASSUME NEW T \in SUBSET R, NEW x \in R, T \in Good, x \notin T
      PROVE  T \cup {x} \in Good
  <2>. DEFINE U == E \cup (T \cup {x})
  <2>1. U \in SUBSET D /\ x \in D /\ x \in U /\ U \ {x} = E \cup T
    BY <1>7
  <2>2. g[U] = f[x] + g[U \ {x}]
    <3>. HIDE DEF U
    <3>. QED
      BY <1>1, <2>1 DEF Additive
  <2>3. f[x] = 0 /\ g[E] \in Int
    BY <1>1 DEF Additive
  <2>. QED
    BY <1>7, <2>1, <2>2, <2>3
<1>8. R \in Good
  <2>. HIDE DEF Good, R
  <2>. QED
    BY <1>2, <1>6, <1>7, SetsGrow
<1>9. E \cup R = D
  OBVIOUS
<1>10. SumFunction(f) = g[D]
  BY <1>1, SumIsAdditive
<1>. QED
  BY <1>5, <1>8, <1>9, <1>10

\* Membership as a number.
In(x, A) == IF x \in A THEN 1 ELSE 0

\* When one element comes or goes, the cardinality changes by as much.
LEMMA CardinalityUpdate ==
    ASSUME NEW A, IsFiniteSet(A), NEW B, NEW a, A \ {a} = B \ {a}
    PROVE  /\ IsFiniteSet(B)
           /\ Cardinality(A) \in Nat /\ Cardinality(B) \in Nat
           /\ Cardinality(B) = Cardinality(A) - In(a, A) + In(a, B)
<1>1. IsFiniteSet(A \ {a}) /\ Cardinality(A \ {a}) = Cardinality(A) - In(a, A)
  BY FS_RemoveElement, FS_CardinalityType DEF In
<1>2. B = (IF a \in B THEN (A \ {a}) \cup {a} ELSE A \ {a})
  OBVIOUS
<1>3. IsFiniteSet((A \ {a}) \cup {a})
      /\ Cardinality((A \ {a}) \cup {a}) = Cardinality(A \ {a}) + 1
  BY <1>1, FS_AddElement
<1>4. Cardinality(A) \in Nat /\ (IsFiniteSet(B) => Cardinality(B) \in Nat)
  BY FS_CardinalityType
<1>5. CASE a \in B
  BY <1>1, <1>2, <1>3, <1>4, <1>5 DEF In
<1>6. CASE a \notin B
  BY <1>1, <1>2, <1>4, <1>6 DEF In
<1>. QED
  BY <1>5, <1>6

\* A finite set of integers has a greatest element.
LEMMA MaxExists ==
    ASSUME NEW S, IsFiniteSet(S), S # {}, S \subseteq Int
    PROVE  \E m \in S : \A x \in S : x <= m
<1>. DEFINE Good == {T \in SUBSET S : T = {} \/ \E m \in T : \A x \in T : x <= m}
<1>1. {} \in Good
  OBVIOUS
<1>2. ASSUME NEW T \in SUBSET S, NEW x \in S, T \in Good, x \notin T
      PROVE  T \cup {x} \in Good
  <2>1. CASE T = {}
    BY <2>1
  <2>2. CASE T # {}
    <3>1. PICK m \in T : \A y \in T : y <= m
      BY <1>2, <2>2
    <3>2. CASE x <= m
      <4>1. m \in T \cup {x} /\ \A y \in T \cup {x} : y <= m
        BY <3>1, <3>2
      <4>. QED
        BY <4>1
    <3>3. CASE m <= x
      <4>1. x \in T \cup {x} /\ \A y \in T \cup {x} : y <= x
        BY <3>1, <3>3
      <4>. QED
        BY <4>1
    <3>. QED
      BY <3>2, <3>3
  <2>. QED
    BY <2>1, <2>2
<1>3. S \in Good
  <2>. HIDE DEF Good
  <2>. QED
    BY <1>1, <1>2, SetsGrow
<1>. QED
  BY <1>3

\* An image of a finite set under a function is finite.
LEMMA ImageIsFinite ==
    ASSUME NEW S, IsFiniteSet(S), NEW f
    PROVE  IsFiniteSet({f[x] : x \in S})
<1>. DEFINE Good == {T \in SUBSET S : IsFiniteSet({f[x] : x \in T})}
<1>1. {} \in Good
  <2>1. {f[x] : x \in {}} = {}
    OBVIOUS
  <2>. QED
    BY <2>1, FS_EmptySet
<1>2. ASSUME NEW T \in SUBSET S, NEW a \in S, T \in Good, a \notin T
      PROVE  T \cup {a} \in Good
  <2>1. {f[x] : x \in T \cup {a}} = {f[x] : x \in T} \cup {f[a]}
    OBVIOUS
  <2>2. IsFiniteSet({f[x] : x \in T} \cup {f[a]})
    BY <1>2, FS_AddElement
  <2>. QED
    BY <2>1, <2>2
<1>3. S \in Good
  <2>. HIDE DEF Good
  <2>. QED
    BY <1>1, <1>2, SetsGrow
<1>. QED
  BY <1>3
======================================================================================================================================================
