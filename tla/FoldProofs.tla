----------------------------- MODULE FoldProofs -----------------------------
(***************************************************************************)
(* Facts about folds over finite sets: the sums that say what the ledger   *)
(* holds, and the digits a length is read from.  They are proved by        *)
(* induction; the predicate of an induction is a set, which the provers    *)
(* can instantiate where they cannot instantiate an operator.              *)
(***************************************************************************)
EXTENDS Functions, FiniteSetTheorems, TLAPS

-----------------------------------------------------------------------------
(***************************************************************************)
(* Inductions.                                                             *)
(***************************************************************************)
\* A set that contains zero and, with every natural number, its successor contains
\* all of them: induction with a set for the predicate.
LEMMA NatSetInduction ==
  ASSUME NEW P, 0 \in P, \A n \in Nat : n \in P => n + 1 \in P
  PROVE  Nat \subseteq P
<1> DEFINE T == Nat \ P
           R == OpToRel(<, Nat)
<1> SUFFICES ASSUME T # {} PROVE FALSE
  OBVIOUS
<1>1. IsWellFoundedOn(R, Nat)
  BY NatLessThanWellFounded
<1>2. \A x, y \in Nat : y < x => <<y, x>> \in R
  BY DEF OpToRel
<1> HIDE DEF R
<1>3. PICK x \in T : \A y \in T : ~(<<y, x>> \in R)
  BY <1>1, WFMin
<1>4. x # 0 /\ x \in Nat
  OBVIOUS
<1>5. x - 1 \in Nat /\ x - 1 < x /\ (x - 1) + 1 = x
  BY <1>4
<1>6. x - 1 \notin P
  BY <1>5, x \notin P
<1> QED
  BY <1>2, <1>3, <1>4, <1>5, <1>6

\* What the inductions below need to know of the cardinality of subsets.
SizeOn(size, S) ==
  /\ size \in [SUBSET S -> Nat]
  /\ \A T \in SUBSET S : size[T] = 0 <=> T = {}
  /\ \A T \in SUBSET S : \A x \in T : size[T \ {x}] = size[T] - 1
  /\ \A T \in SUBSET S : size[T] <= size[S]

\* Every finite set has one: Cardinality.
LEMMA SizeExists ==
  ASSUME NEW S, IsFiniteSet(S)
  PROVE  \E size : SizeOn(size, S)
<1> DEFINE size == [T \in SUBSET S |-> Cardinality(T)]
<1>1. \A T \in SUBSET S : IsFiniteSet(T) /\ Cardinality(T) <= Cardinality(S)
  BY FS_Subset
<1>2. \A T \in SUBSET S : Cardinality(T) \in Nat /\ (Cardinality(T) = 0 <=> T = {})
  BY <1>1, FS_CardinalityType, FS_EmptySet
<1>3. \A T \in SUBSET S : \A x \in T : T \ {x} \in SUBSET S /\ Cardinality(T \ {x}) = Cardinality(T) - 1
  BY <1>1, FS_RemoveElement
<1>4. SizeOn(size, S)
  BY <1>1, <1>2, <1>3 DEF SizeOn
<1> QED
  BY <1>4

-----------------------------------------------------------------------------
(***************************************************************************)
(* Folds.  The folds of the community modules choose a function by its     *)
(* equation; what it computes is known once a function with that equation  *)
(* exists.                                                                 *)
(***************************************************************************)
\* The order in which a fold takes elements, the operator it applies, and the
\* equation of the function it iterates.
ChoosesFrom(c, S) == \A T \in SUBSET S : T # {} => c[T] \in T
MapsInto(F, S, V) == \A x \in S, v \in V : F[x][v] \in V
IsFold(it, base, c, F, S) ==
  \A T \in SUBSET S : it[T] = IF T = {} THEN base ELSE F[c[T]][it[T \ {c[T]}]]

\* A fold over a finite set exists, whatever the order and the operator.
LEMMA FoldExists ==
  ASSUME NEW S, IsFiniteSet(S), NEW V, NEW base \in V,
         NEW c, ChoosesFrom(c, S), NEW F, MapsInto(F, S, V)
  PROVE  \E it \in [SUBSET S -> V] : IsFold(it, base, c, F, S)
<1> USE DEF ChoosesFrom, MapsInto, IsFold
<1> DEFINE Folds(it, T) == it[T] = IF T = {} THEN base ELSE F[c[T]][it[T \ {c[T]}]]
<1>1. PICK size : SizeOn(size, S)
  BY SizeExists
<1> DEFINE UpTo(it, n)  == \A T \in SUBSET S : size[T] <= n => Folds(it, T)
           P == {n \in Nat : \E it \in [SUBSET S -> V] : UpTo(it, n)}
<1>2. \A T \in SUBSET S : T # {} => /\ c[T] \in T /\ T \ {c[T]} \in SUBSET S
                                   /\ size[T \ {c[T]}] = size[T] - 1
  BY <1>1 DEF SizeOn
<1>3. 0 \in P
  <2> DEFINE it == [T \in SUBSET S |-> base]
  <2>1. \A T \in SUBSET S : size[T] <= 0 => T = {}
    BY <1>1 DEF SizeOn
  <2>2. it \in [SUBSET S -> V] /\ UpTo(it, 0)
    BY <2>1
  <2> QED
    BY <2>2
<1>4. ASSUME NEW n \in Nat, n \in P PROVE n + 1 \in P
  <2>1. PICK it \in [SUBSET S -> V] : UpTo(it, n)
    BY <1>4
  <2> DEFINE step == [T \in SUBSET S |-> IF T = {} THEN base ELSE F[c[T]][it[T \ {c[T]}]]]
             next == [T \in SUBSET S |-> IF size[T] <= n THEN it[T] ELSE step[T]]
  <2>2. step \in [SUBSET S -> V]
    BY <1>2
  <2>3. next \in [SUBSET S -> V]
    BY <2>2
  <2>4. ASSUME NEW T \in SUBSET S, size[T] <= n + 1 PROVE Folds(next, T)
    <3>0. size[T] \in Nat
      BY <1>1 DEF SizeOn
    <3>1. CASE T = {}
      <4>1. size[T] <= n
        BY <1>1, <3>1 DEF SizeOn
      <4> QED
        BY <2>1, <3>1, <4>1
    <3>2. CASE T # {}
      <4>1. c[T] \in T /\ T \ {c[T]} \in SUBSET S /\ size[T \ {c[T]}] = size[T] - 1
        BY <1>2, <3>2
      <4>2. size[T \ {c[T]}] <= n
        BY <2>4, <3>0, <4>1
      <4>3. next[T \ {c[T]}] = it[T \ {c[T]}]
        BY <4>1, <4>2
      <4>4. CASE size[T] <= n
        BY <2>1, <3>2, <4>3, <4>4
      <4>5. CASE ~(size[T] <= n)
        BY <3>2, <4>3, <4>5
      <4> QED
        BY <4>4, <4>5
    <3> QED
      BY <3>1, <3>2
  <2> HIDE DEF next, Folds
  <2>5. UpTo(next, n + 1)
    BY <2>4
  <2> HIDE DEF UpTo
  <2> QED
    BY <2>3, <2>5
<1> HIDE DEF P
<1>5. size[S] \in P
  BY <1>1, <1>3, <1>4, NatSetInduction DEF SizeOn
<1> USE DEF P
<1>6. PICK it \in [SUBSET S -> V] : UpTo(it, size[S])
  BY <1>5
<1> QED
  BY <1>1, <1>6 DEF SizeOn

\* A set of subsets that contains the empty one, and every other whose subsets
\* with one element less it contains, contains all of them.
LEMMA SubsetInduction ==
  ASSUME NEW S, IsFiniteSet(S), NEW P, {} \in P,
         \A T \in SUBSET S : T # {} /\ (\A x \in T : T \ {x} \in P) => T \in P
  PROVE  SUBSET S \subseteq P
<1>1. PICK size : SizeOn(size, S)
  BY SizeExists
<1> DEFINE N == {n \in Nat : \A T \in SUBSET S : size[T] <= n => T \in P}
<1>2. \A T \in SUBSET S : size[T] \in Nat /\ size[T] <= size[S]
  BY <1>1 DEF SizeOn
<1>3. 0 \in N
  <2>1. \A T \in SUBSET S : size[T] <= 0 => T = {}
    BY <1>1 DEF SizeOn
  <2> QED
    BY <2>1
<1>4. ASSUME NEW n \in Nat, n \in N PROVE n + 1 \in N
  <2>1. ASSUME NEW T \in SUBSET S, size[T] <= n + 1, T # {} PROVE T \in P
    <3>1. \A x \in T : T \ {x} \in SUBSET S /\ size[T \ {x}] <= n
      BY <1>1, <1>2, <2>1 DEF SizeOn
    <3>2. \A x \in T : T \ {x} \in P
      BY <1>4, <3>1
    <3> QED
      BY <2>1, <3>2
  <2>2. \A T \in SUBSET S : size[T] <= n + 1 => T \in P
    BY <2>1
  <2> QED
    BY <2>2
<1> HIDE DEF N
<1>5. size[S] \in N
  BY <1>2, <1>3, <1>4, NatSetInduction
<1> QED
  BY <1>2, <1>5 DEF N

-----------------------------------------------------------------------------
(***************************************************************************)
(* Sums.                                                                   *)
(***************************************************************************)
\* The equation SumFunctionOnSet chooses its function by.
SumEquation(it, f, S) ==
  it = [s \in SUBSET S |-> IF s = {} THEN 0 ELSE LET x == CHOOSE x \in s : TRUE
                                                 IN  f[x] + it[s \ {x}]]

\* It does.
LEMMA SumDef ==
  ASSUME NEW f, NEW S
  PROVE  SumFunctionOnSet(f, S) = (CHOOSE it : SumEquation(it, f, S))[S]
  BY DEF SumFunctionOnSet, FoldFunctionOnSet, MapThenFoldSet, SumEquation

\* The sums of f over the subsets of S, taken in some order.
Sums(it, f, S) ==
  /\ it \in [SUBSET S -> Int]
  /\ it[{}] = 0
  /\ \A T \in SUBSET S : T # {} => \E x \in T : it[T] = f[x] + it[T \ {x}]

\* SumFunctionOnSet computes such sums.
LEMMA SumIter ==
  ASSUME NEW S, IsFiniteSet(S), NEW f \in [S -> Int]
  PROVE  \E it : Sums(it, f, S) /\ SumFunctionOnSet(f, S) = it[S]
<1> DEFINE c == [T \in SUBSET S |-> CHOOSE x \in T : TRUE]
           F == [x \in S |-> [v \in Int |-> f[x] + v]]
<1>1. ChoosesFrom(c, S)
  BY DEF ChoosesFrom
<1>2. MapsInto(F, S, Int) /\ \A x \in S, v \in Int : F[x][v] = f[x] + v
  BY DEF MapsInto
<1>3. \A T \in SUBSET S : c[T] = CHOOSE x \in T : TRUE
  OBVIOUS
<1> HIDE DEF c, F
<1>4. PICK it \in [SUBSET S -> Int] : IsFold(it, 0, c, F, S)
  <2> DEFINE Z == Int
  <2>1. 0 \in Z /\ MapsInto(F, S, Z)
    BY <1>2
  <2> HIDE DEF Z
  <2>2. \E it \in [SUBSET S -> Z] : IsFold(it, 0, c, F, S)
    BY <1>1, <2>1, FoldExists
  <2> QED
    BY <2>2 DEF Z
<1>5. \A T \in SUBSET S : T # {} =>
        c[T] \in T /\ c[T] \in S /\ it[T \ {c[T]}] \in Int /\ it[T] = f[c[T]] + it[T \ {c[T]}]
  <2>1. \A T \in SUBSET S : T # {} => c[T] \in T /\ c[T] \in S /\ it[T \ {c[T]}] \in Int
    BY <1>1, <1>4 DEF ChoosesFrom
  <2> QED
    BY <1>2, <1>4, <2>1 DEF IsFold
<1>6. SumEquation(it, f, S)
  BY <1>3, <1>4, <1>5 DEF IsFold, SumEquation
<1> DEFINE g == CHOOSE h : SumEquation(h, f, S)
<1>7. SumEquation(g, f, S)
  BY <1>6
<1>8. SumFunctionOnSet(f, S) = g[S]
  BY SumDef
<1> HIDE DEF g
<1>9. g = it
  <2> DEFINE P == {T \in SUBSET S : g[T] = it[T]}
  <2>1. {} \in P
    BY <1>4, <1>7 DEF SumEquation, IsFold
  <2>2. ASSUME NEW T \in SUBSET S, T # {}, \A x \in T : T \ {x} \in P PROVE T \in P
    <3>1. c[T] \in T /\ it[T] = f[c[T]] + it[T \ {c[T]}]
      BY <1>5, <2>2
    <3>2. g[T] = f[c[T]] + g[T \ {c[T]}]
      BY <1>3, <1>7, <2>2 DEF SumEquation
    <3> QED
      BY <2>2, <3>1, <3>2
  <2> HIDE DEF P
  <2>3. SUBSET S \subseteq P
    BY <2>1, <2>2, SubsetInduction
  <2>4. \A T \in SUBSET S : g[T] = it[T]
    BY <2>3 DEF P
  <2>5. g = [T \in SUBSET S |-> g[T]] /\ it = [T \in SUBSET S |-> it[T]]
    BY <1>4, <1>7 DEF SumEquation
  <2> QED
    BY <2>4, <2>5
<1> QED
  BY <1>4, <1>5, <1>8, <1>9 DEF Sums, IsFold

\* The order does not matter: any element may be taken first.
LEMMA SumsRemove ==
  ASSUME NEW S, IsFiniteSet(S), NEW f \in [S -> Int], NEW it, Sums(it, f, S)
  PROVE  \A T \in SUBSET S : \A x \in T : it[T] = f[x] + it[T \ {x}]
<1> DEFINE P == {T \in SUBSET S : \A x \in T : it[T] = f[x] + it[T \ {x}]}
<1>1. {} \in P
  OBVIOUS
<1>2. ASSUME NEW T \in SUBSET S, T # {}, \A x \in T : T \ {x} \in P,
             NEW x \in T
      PROVE  it[T] = f[x] + it[T \ {x}]
  <2>1. PICK y \in T : it[T] = f[y] + it[T \ {y}]
    BY <1>2 DEF Sums
  <2>2. CASE x = y
    BY <2>1, <2>2
  <2>3. CASE x # y
    <3> DEFINE U == (T \ {x}) \ {y}
    <3>1. U = (T \ {y}) \ {x} /\ U \in SUBSET S /\ x \in T \ {y} /\ y \in T \ {x}
      BY <2>3
    <3>2. it[T \ {y}] = f[x] + it[U]
      BY <1>2, <3>1
    <3>3. it[T \ {x}] = f[y] + it[U]
      BY <1>2, <3>1
    <3>4. f[x] \in Int /\ f[y] \in Int /\ it[U] \in Int
      BY <3>1 DEF Sums
    <3> HIDE DEF U
    <3> QED
      BY <2>1, <3>2, <3>3, <3>4
  <2> QED
    BY <2>2, <2>3
<1> HIDE DEF P
<1>3. \A T \in SUBSET S : T # {} /\ (\A x \in T : T \ {x} \in P) => T \in P
  BY <1>2 DEF P
<1>4. SUBSET S \subseteq P
  BY <1>1, <1>3, SubsetInduction
<1> QED
  BY <1>4 DEF P

\* Functions that agree but for one argument have the same sum without it.
LEMMA SumsAgree ==
  ASSUME NEW S, IsFiniteSet(S), NEW f \in [S -> Int], NEW g \in [S -> Int],
         NEW a, \A x \in S \ {a} : f[x] = g[x],
         NEW it, Sums(it, f, S), NEW jt, Sums(jt, g, S)
  PROVE  it[S \ {a}] = jt[S \ {a}]
<1> DEFINE P == {T \in SUBSET S : a \notin T => it[T] = jt[T]}
<1>1. {} \in P
  BY DEF Sums
<1>2. ASSUME NEW T \in SUBSET S, T # {}, \A x \in T : T \ {x} \in P, a \notin T
      PROVE  it[T] = jt[T]
  <2>1. PICK x \in T : it[T] = f[x] + it[T \ {x}]
    BY <1>2 DEF Sums
  <2>2. jt[T] = g[x] + jt[T \ {x}]
    BY SumsRemove
  <2>3. f[x] = g[x] /\ it[T \ {x}] = jt[T \ {x}]
    BY <1>2
  <2> QED
    BY <2>1, <2>2, <2>3
<1> HIDE DEF P
<1>3. \A T \in SUBSET S : T # {} /\ (\A x \in T : T \ {x} \in P) => T \in P
  BY <1>2 DEF P
<1>4. SUBSET S \subseteq P
  BY <1>1, <1>3, SubsetInduction
<1> QED
  BY <1>4 DEF P

\* A sum of integers is an integer.
LEMMA SumInt ==
  ASSUME NEW S, IsFiniteSet(S), NEW f \in [S -> Int]
  PROVE  SumFunction(f) \in Int
<1>1. SumFunction(f) = SumFunctionOnSet(f, S)
  BY DEF SumFunction
<1>2. PICK it : Sums(it, f, S) /\ SumFunctionOnSet(f, S) = it[S]
  BY SumIter
<1> QED
  BY <1>1, <1>2 DEF Sums

\* Changing one value changes the sum by the difference.
LEMMA SumExcept ==
  ASSUME NEW S, IsFiniteSet(S), NEW f \in [S -> Int], NEW a \in S, NEW v \in Int
  PROVE  SumFunction([f EXCEPT ![a] = v]) = SumFunction(f) - f[a] + v
<1> DEFINE g == [f EXCEPT ![a] = v]
<1>1. g \in [S -> Int] /\ g[a] = v /\ \A x \in S \ {a} : f[x] = g[x]
  OBVIOUS
<1> HIDE DEF g
<1>2. PICK it : Sums(it, f, S) /\ SumFunctionOnSet(f, S) = it[S]
  BY SumIter
<1>3. PICK jt : Sums(jt, g, S) /\ SumFunctionOnSet(g, S) = jt[S]
  BY <1>1, SumIter
<1>4. it[S] = f[a] + it[S \ {a}]
  BY <1>2, SumsRemove
<1>5. jt[S] = g[a] + jt[S \ {a}]
  BY <1>1, <1>3, SumsRemove
<1>6. it[S \ {a}] = jt[S \ {a}]
  BY <1>1, <1>2, <1>3, SumsAgree
<1>7. SumFunction(f) = it[S] /\ SumFunction(g) = jt[S]
  BY <1>1, <1>2, <1>3 DEF SumFunction
<1>8. f[a] \in Int /\ it[S \ {a}] \in Int
  BY <1>2 DEF Sums
<1>9. SumFunction(g) = SumFunction(f) - f[a] + v
  BY <1>1, <1>4, <1>5, <1>6, <1>7, <1>8
<1> QED
  BY <1>9 DEF g
=============================================================================
