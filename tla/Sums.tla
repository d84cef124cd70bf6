-------------------------------- MODULE Sums --------------------------------
(***************************************************************************)
(* Sums over finite sets, remainders and powers of two, and the tables of  *)
(* QueryPlan with what a query takes: what the proofs about the streams,   *)
(* the commands, the sizing, the provider and the query share.  Induction  *)
(* is by the smallest counterexample: the subsets of a finite set and the  *)
(* naturals are well founded.                                              *)
(***************************************************************************)
EXTENDS QueryPlan, FiniteSetsExt, FiniteSetTheorems, SequenceTheorems, TLAPS

\* A nonempty set of naturals has a smallest element.
LEMMA SmallestNumber ==
    ASSUME NEW T \in SUBSET Nat, T # {}
    PROVE  \E x \in T : \A y \in T : x <= y
<1>1. IsWellFoundedOn(OpToRel(<, Nat), Nat)
    BY NatLessThanWellFounded DEF OpToRel
<1>2. PICK x \in T : \A y \in T : ~(<<y, x>> \in OpToRel(<, Nat))
    BY <1>1, WFMin
<1>3. \A y \in T : ~(y < x)
    BY <1>2 DEF OpToRel
<1> QED
    BY <1>3

\* A nonempty set of subsets of a finite set has a minimal one.
LEMMA MinimalSubset ==
    ASSUME NEW S, IsFiniteSet(S), NEW T \in SUBSET (SUBSET S), T # {}
    PROVE  \E x \in T : \A y \in T : y \subseteq x => y = x
<1>1. IsWellFoundedOn(StrictSubsetOrdering(S), FiniteSubsetsOf(S))
    BY FS_StrictSubsetOrderingWellFounded
<1>2. PICK x \in T : \A y \in T : ~(<<y, x>> \in StrictSubsetOrdering(S))
    BY <1>1, WFMin, FS_FiniteSubsetsOfFinite
<1> QED
    BY <1>2 DEF StrictSubsetOrdering

----------------------------------------------------------------------------
(* Sums over finite sets: SumFunctionOnSet is a fold in the order of       *)
(* CHOOSE, so that first of all the fold exists and the order is nothing.  *)

Pick(s) == CHOOSE x \in s : TRUE

\* g is the function that the fold over subsets of S is defined by.
Folds(g, f, S) ==
    g = [s \in SUBSET S |-> IF s = {} THEN 0 ELSE f[Pick(s)] + g[s \ {Pick(s)}]]

\* Folds over two sets agree on their common subsets.
LEMMA FoldsAgree ==
    ASSUME NEW f, NEW S, NEW T, IsFiniteSet(S), NEW g, NEW h,
           Folds(g, f, S), Folds(h, f, T)
    PROVE  \A s \in SUBSET S : s \in SUBSET T => g[s] = h[s]
<1> DEFINE Bad == {s \in SUBSET S : s \in SUBSET T /\ g[s] # h[s]}
<1> SUFFICES ASSUME Bad # {} PROVE FALSE
    OBVIOUS
<1>0. Bad \in SUBSET (SUBSET S)
    OBVIOUS
<1>1. PICK s \in Bad : \A y \in Bad : y \subseteq s => y = s
    <2> HIDE DEF Bad
    <2> QED
        BY <1>0, MinimalSubset
<1>2. s \in SUBSET S /\ s \in SUBSET T /\ g[s] # h[s]
    OBVIOUS
<1>3. s # {}
    BY <1>2 DEF Folds
<1>4. Pick(s) \in s
    BY <1>3 DEF Pick
<1>5. s \ {Pick(s)} \notin Bad
    BY <1>1, <1>4
<1>6. g[s \ {Pick(s)}] = h[s \ {Pick(s)}]
    BY <1>2, <1>5
<1>7. /\ g[s] = f[Pick(s)] + g[s \ {Pick(s)}]
      /\ h[s] = f[Pick(s)] + h[s \ {Pick(s)}]
    BY <1>2, <1>3 DEF Folds
<1> QED
    BY <1>2, <1>6, <1>7

\* On a finite set there is such a function.
LEMMA FoldsExist ==
    ASSUME NEW f, NEW S, IsFiniteSet(S)
    PROVE  \E g : Folds(g, f, S)
<1> DEFINE Bad == {T \in SUBSET S : ~\E g : Folds(g, f, T)}
<1> SUFFICES ASSUME Bad # {} PROVE FALSE
    OBVIOUS
<1>0. Bad \in SUBSET (SUBSET S)
    OBVIOUS
<1>1. PICK T \in Bad : \A y \in Bad : y \subseteq T => y = T
    <2> HIDE DEF Bad
    <2> QED
        BY <1>0, MinimalSubset
<1>2. T \in SUBSET S /\ ~\E g : Folds(g, f, T)
    OBVIOUS
<1> DEFINE Fold(s) == CHOOSE g : Folds(g, f, s)
           Val(s) == IF s = {} THEN 0
                     ELSE IF s = T THEN f[Pick(T)] + Fold(T \ {Pick(T)})[T \ {Pick(T)}]
                     ELSE Fold(s)[s]
           G == [s \in SUBSET T |-> Val(s)]
<1>3. \A s \in SUBSET T : s # T => Folds(Fold(s), f, s) /\ IsFiniteSet(s)
    <2> TAKE s \in SUBSET T
    <2> HAVE s # T
    <2>1. s \in SUBSET S /\ s \notin Bad
        BY <1>1, <1>2
    <2>2. \E g : Folds(g, f, s)
        BY <2>1
    <2> HIDE DEF Bad
    <2> QED
        BY <2>1, <2>2, FS_Subset
<1>4. \A s \in SUBSET T : s # {} => Pick(s) \in s
    BY DEF Pick
<1>5. ASSUME NEW s \in SUBSET T, s # {}
      PROVE  Val(s) = f[Pick(s)] + Val(s \ {Pick(s)})
    <2> DEFINE r == s \ {Pick(s)}
    <2>1. r \in SUBSET T /\ r # T /\ r # s /\ r \in SUBSET s
        BY <1>4, <1>5
    <2>2. Folds(Fold(r), f, r) /\ IsFiniteSet(r)
        BY <1>3, <2>1
    <2>3. Val(r) = Fold(r)[r]
        <3>1. CASE r = {}
            <4>1. Fold(r)[r] = 0
                BY <3>1, <2>2 DEF Folds
            <4> QED
                BY <3>1, <4>1
        <3>2. CASE r # {}
            BY <3>2, <2>1
        <3> QED
            BY <3>1, <3>2
    <2>4. CASE s = T
        BY <2>3, <2>4, <1>5
    <2>5. CASE s # T
        <3>1. Folds(Fold(s), f, s)
            BY <2>5, <1>3
        <3>2. Fold(s)[s] = f[Pick(s)] + Fold(s)[r]
            <4> HIDE DEF Fold
            <4> QED BY <3>1, <1>5 DEF Folds
        <3>3. Fold(r)[r] = Fold(s)[r]
            BY <3>1, <2>2, <2>1, FoldsAgree
        <3> QED
            BY <3>2, <3>3, <2>3, <2>5, <1>5
    <2> QED
        BY <2>4, <2>5
<1>6. G = [s \in SUBSET T |-> IF s = {} THEN 0 ELSE f[Pick(s)] + G[s \ {Pick(s)}]]
    <2>1. \A s \in SUBSET T : s # {} => G[s \ {Pick(s)}] = Val(s \ {Pick(s)})
        OBVIOUS
    <2>2. Val({}) = 0
        OBVIOUS
    <2> HIDE DEF Val
    <2> QED
        BY <2>1, <2>2, <1>5
<1> QED
    BY <1>6, <1>2 DEF Folds

\* Induction over the subsets of a finite set.
LEMMA SubsetInduction ==
    ASSUME NEW S, IsFiniteSet(S), NEW Good, {} \in Good,
           \A s \in SUBSET S : s # {} /\ (\A x \in s : s \ {x} \in Good) => s \in Good
    PROVE  S \in Good
<1> DEFINE Bad == {s \in SUBSET S : s \notin Good}
<1> SUFFICES ASSUME Bad # {} PROVE FALSE
    OBVIOUS
<1>0. Bad \in SUBSET (SUBSET S)
    OBVIOUS
<1>1. PICK s \in Bad : \A y \in Bad : y \subseteq s => y = s
    <2> HIDE DEF Bad
    <2> QED
        BY <1>0, MinimalSubset
<1>2. s # {}
    OBVIOUS
<1>3. \A x \in s : s \ {x} \in Good
    BY <1>1
<1> QED
    BY <1>2, <1>3

SumOn(f, S) == SumFunctionOnSet(f, S)

\* SumFunction is such a fold.
LEMMA SumFolds ==
    ASSUME NEW f, NEW S, IsFiniteSet(S)
    PROVE  \E g : Folds(g, f, S) /\ SumOn(f, S) = g[S]
<1> DEFINE g == CHOOSE g : Folds(g, f, S)
<1>1. Folds(g, f, S)
    BY FoldsExist
<1>2. SumOn(f, S) = g[S]
    BY DEF SumOn, SumFunctionOnSet, FoldFunctionOnSet, MapThenFoldSet, Folds, Pick
<1> QED
    BY <1>1, <1>2

\* The empty sum.
LEMMA SumEmpty == ASSUME NEW f PROVE SumOn(f, {}) = 0
<1>1. PICK g : Folds(g, f, {}) /\ SumOn(f, {}) = g[{}]
    BY SumFolds, FS_EmptySet
<1>2. g[{}] = 0
    BY <1>1 DEF Folds
<1> QED
    BY <1>1, <1>2

\* One term split off, the one that CHOOSE picks.
LEMMA SumPick ==
    ASSUME NEW f, NEW S, IsFiniteSet(S), S # {}
    PROVE  Pick(S) \in S /\ SumOn(f, S) = f[Pick(S)] + SumOn(f, S \ {Pick(S)})
<1>1. Pick(S) \in S
    BY DEF Pick
<1> DEFINE R == S \ {Pick(S)}
<1>2. IsFiniteSet(R) /\ R \in SUBSET S
    BY FS_Subset
<1>3. PICK g : Folds(g, f, S) /\ SumOn(f, S) = g[S]
    BY SumFolds
<1>4. PICK h : Folds(h, f, R) /\ SumOn(f, R) = h[R]
    BY SumFolds, <1>2
<1>5. g[R] = h[R]
    BY <1>2, <1>3, <1>4, FoldsAgree
<1>6. g[S] = f[Pick(S)] + g[R]
    BY <1>3 DEF Folds
<1> QED
    BY <1>1, <1>3, <1>4, <1>5, <1>6

\* A sum of integers is an integer.
LEMMA SumInt ==
    ASSUME NEW f, NEW S, IsFiniteSet(S), \A x \in S : f[x] \in Int
    PROVE  SumOn(f, S) \in Int
<1> DEFINE Good == {s \in SUBSET S : SumOn(f, s) \in Int}
<1>1. {} \in Good
    BY SumEmpty
<1>2. ASSUME NEW s \in SUBSET S, s # {}, \A x \in s : s \ {x} \in Good
      PROVE  s \in Good
    <2>1. IsFiniteSet(s)
        BY FS_Subset
    <2>2. Pick(s) \in s /\ SumOn(f, s) = f[Pick(s)] + SumOn(f, s \ {Pick(s)})
        BY <1>2, <2>1, SumPick
    <2>3. SumOn(f, s \ {Pick(s)}) \in Int /\ f[Pick(s)] \in Int
        BY <1>2, <2>2
    <2> QED
        BY <2>2, <2>3
<1>3. S \in Good
    <2> HIDE DEF Good
    <2> QED
        BY <1>1, <1>2, SubsetInduction
<1> QED
    BY <1>3

\* The order of a sum does not matter.
LEMMA SumRemove ==
    ASSUME NEW f, NEW S, IsFiniteSet(S), \A x \in S : f[x] \in Int, NEW y \in S
    PROVE  SumOn(f, S) = f[y] + SumOn(f, S \ {y})
<1> DEFINE Good == {s \in SUBSET S : \A z \in s : SumOn(f, s) = f[z] + SumOn(f, s \ {z})}
<1>1. {} \in Good
    OBVIOUS
<1>2. ASSUME NEW s \in SUBSET S, s # {}, \A x \in s : s \ {x} \in Good
      PROVE  s \in Good
    <2> SUFFICES ASSUME NEW z \in s
                 PROVE  SumOn(f, s) = f[z] + SumOn(f, s \ {z})
        OBVIOUS
    <2> DEFINE x == Pick(s)
               r == (s \ {x}) \ {z}
    <2>1. IsFiniteSet(s) /\ IsFiniteSet(r)
        BY FS_Subset
    <2>2. x \in s /\ SumOn(f, s) = f[x] + SumOn(f, s \ {x})
        BY <2>1, <1>2, SumPick
    <2>3. CASE x = z
        BY <2>2, <2>3
    <2>4. CASE x # z
        <3>1. SumOn(f, s \ {x}) = f[z] + SumOn(f, r)
            BY <1>2, <2>2, <2>4
        <3>2. SumOn(f, s \ {z}) = f[x] + SumOn(f, r)
            <4>1. (s \ {z}) \ {x} = r
                OBVIOUS
            <4>2. SumOn(f, s \ {z}) = f[x] + SumOn(f, (s \ {z}) \ {x})
                BY <1>2, <2>2, <2>4
            <4> HIDE DEF x, r
            <4> QED
                BY <4>1, <4>2, Zenon
        <3>4. \A w \in r : f[w] \in Int
            OBVIOUS
        <3>5. SumOn(f, r) \in Int /\ f[x] \in Int /\ f[z] \in Int
            BY <3>4, <2>1, <2>2, SumInt
        <3> HIDE DEF x, r
        <3> QED
            BY <2>2, <3>1, <3>2, <3>5
    <2> QED
        BY <2>3, <2>4
<1>3. S \in Good
    <2> HIDE DEF Good
    <2> QED
        BY <1>1, <1>2, SubsetInduction
<1> QED
    BY <1>3


\* The sum of two functions.
LEMMA SumPlus ==
    ASSUME NEW f, NEW g, NEW h, NEW S, IsFiniteSet(S),
           \A x \in S : f[x] \in Int /\ g[x] \in Int /\ h[x] = f[x] + g[x]
    PROVE  SumOn(h, S) = SumOn(f, S) + SumOn(g, S)
<1> DEFINE Good == {s \in SUBSET S : SumOn(h, s) = SumOn(f, s) + SumOn(g, s)}
<1>1. {} \in Good
    BY SumEmpty
<1>2. ASSUME NEW s \in SUBSET S, s # {}, \A x \in s : s \ {x} \in Good
      PROVE  s \in Good
    <2> DEFINE x == Pick(s)
               r == s \ {x}
    <2>1. IsFiniteSet(s) /\ IsFiniteSet(r)
        BY FS_Subset
    <2>2. /\ x \in s
          /\ SumOn(f, s) = f[x] + SumOn(f, r)
          /\ SumOn(g, s) = g[x] + SumOn(g, r)
          /\ SumOn(h, s) = h[x] + SumOn(h, r)
        BY <1>2, <2>1, SumPick
    <2>3. SumOn(h, r) = SumOn(f, r) + SumOn(g, r)
        BY <1>2, <2>2
    <2>4. f[x] \in Int /\ g[x] \in Int /\ h[x] = f[x] + g[x]
        BY <2>2
    <2>5. \A w \in r : f[w] \in Int /\ g[w] \in Int
        OBVIOUS
    <2>6. SumOn(f, r) \in Int /\ SumOn(g, r) \in Int
        BY <2>5, <2>1, SumInt
    <2>7. SumOn(h, s) = SumOn(f, s) + SumOn(g, s)
        <3> HIDE DEF x, r
        <3> QED
            BY <2>2, <2>3, <2>4, <2>6
    <2> QED
        BY <2>7
<1>3. S \in Good
    <2> HIDE DEF Good
    <2> QED
        BY <1>1, <1>2, SubsetInduction
<1> QED
    BY <1>3

\* A constant factor.
LEMMA SumTimes ==
    ASSUME NEW f, NEW h, NEW S, IsFiniteSet(S), NEW c \in Int,
           \A x \in S : f[x] \in Int /\ h[x] = c * f[x]
    PROVE  SumOn(h, S) = c * SumOn(f, S)
<1> DEFINE Good == {s \in SUBSET S : SumOn(h, s) = c * SumOn(f, s)}
<1>1. {} \in Good
    <2>1. SumOn(f, {}) = 0 /\ SumOn(h, {}) = 0
        BY SumEmpty
    <2>2. c * 0 = 0
        OBVIOUS
    <2> QED
        BY <2>1, <2>2
<1>2. ASSUME NEW s \in SUBSET S, s # {}, \A x \in s : s \ {x} \in Good
      PROVE  s \in Good
    <2> DEFINE x == Pick(s)
               r == s \ {x}
    <2>1. IsFiniteSet(s) /\ IsFiniteSet(r)
        BY FS_Subset
    <2>2. /\ x \in s
          /\ SumOn(f, s) = f[x] + SumOn(f, r)
          /\ SumOn(h, s) = h[x] + SumOn(h, r)
        BY <1>2, <2>1, SumPick
    <2>3. SumOn(h, r) = c * SumOn(f, r)
        BY <1>2, <2>2
    <2>4. f[x] \in Int /\ h[x] = c * f[x]
        BY <2>2
    <2>5. \A w \in r : f[w] \in Int
        OBVIOUS
    <2>6. SumOn(f, r) \in Int
        BY <2>5, <2>1, SumInt
    <2>7. \A u, F \in Int : c * u + c * F = c * (u + F)
        OBVIOUS
    <2>8. SumOn(h, s) = c * SumOn(f, s)
        <3> HIDE DEF x, r
        <3> QED
            BY <2>2, <2>3, <2>4, <2>6, <2>7
    <2> QED
        BY <2>8
<1>3. S \in Good
    <2> HIDE DEF Good
    <2> QED
        BY <1>1, <1>2, SubsetInduction
<1> QED
    BY <1>3

\* Equal terms have equal sums.
LEMMA SumCong ==
    ASSUME NEW f, NEW g, NEW S, IsFiniteSet(S),
           \A x \in S : f[x] \in Int /\ g[x] = f[x]
    PROVE  SumOn(g, S) = SumOn(f, S)
<1>1. \A x \in S : f[x] \in Int /\ g[x] = 1 * f[x]
    OBVIOUS
<1>2. SumOn(g, S) = 1 * SumOn(f, S)
    BY <1>1, SumTimes
<1> QED
    BY <1>2, SumInt

\* A sum of zeros.
LEMMA SumZero ==
    ASSUME NEW f, NEW S, IsFiniteSet(S), \A x \in S : f[x] = 0
    PROVE  SumOn(f, S) = 0
<1> DEFINE o == 0
<1>0. o \in Int /\ \A z \in Int : o * z = 0
    OBVIOUS
<1>1. \A x \in S : f[x] \in Int /\ f[x] = o * f[x]
    OBVIOUS
<1>2. SumOn(f, S) \in Int
    BY <1>1, SumInt
<1> HIDE DEF o
<1>3. SumOn(f, S) = o * SumOn(f, S)
    BY <1>0, <1>1, SumTimes
<1> QED
    BY <1>0, <1>2, <1>3

\* A sum of equal terms.
LEMMA SumConstant ==
    ASSUME NEW f, NEW S, IsFiniteSet(S), NEW c \in Int, \A x \in S : f[x] = c
    PROVE  SumOn(f, S) = c * Cardinality(S)
<1> DEFINE Good == {s \in SUBSET S : SumOn(f, s) = c * Cardinality(s)}
<1>1. {} \in Good
    <2>1. c * 0 = 0
        OBVIOUS
    <2> QED
        BY <2>1, SumEmpty, FS_EmptySet
<1>2. ASSUME NEW s \in SUBSET S, s # {}, \A x \in s : s \ {x} \in Good
      PROVE  s \in Good
    <2>1. IsFiniteSet(s)
        BY FS_Subset
    <2>2. Pick(s) \in s /\ SumOn(f, s) = f[Pick(s)] + SumOn(f, s \ {Pick(s)})
        BY <1>2, <2>1, SumPick
    <2>3. SumOn(f, s \ {Pick(s)}) = c * Cardinality(s \ {Pick(s)}) /\ f[Pick(s)] = c
        BY <1>2, <2>2
    <2>4. Cardinality(s \ {Pick(s)}) = Cardinality(s) - 1 /\ Cardinality(s) \in Nat
        BY <2>1, <2>2, FS_RemoveElement, FS_CardinalityType
    <2>5. \A n \in Nat : c + c * (n - 1) = c * n
        OBVIOUS
    <2> QED
        BY <2>2, <2>3, <2>4, <2>5
<1>3. S \in Good
    <2> HIDE DEF Good
    <2> QED
        BY <1>1, <1>2, SubsetInduction
<1> QED
    BY <1>3

\* A sum of equal terms over a part of a set, and of zeros over the rest.
LEMMA SumWhere ==
    ASSUME NEW f, NEW S, IsFiniteSet(S), NEW T, NEW c \in Int,
           \A x \in S \cap T : f[x] = c, \A x \in S \ T : f[x] = 0
    PROVE  SumOn(f, S) = c * Cardinality(S \cap T)
<1>0. \A n \in Nat : c + c * (n - 1) = c * n /\ 0 + c * n = c * n
    OBVIOUS
<1> DEFINE Good == {s \in SUBSET S : SumOn(f, s) = c * Cardinality(s \cap T)}
<1>1. {} \in Good
    <2>1. c * 0 = 0 /\ {} \cap T = {}
        OBVIOUS
    <2> QED
        BY <2>1, SumEmpty, FS_EmptySet
<1>2. ASSUME NEW s \in SUBSET S, s # {}, \A x \in s : s \ {x} \in Good
      PROVE  s \in Good
    <2> DEFINE y == Pick(s)
               R == s \ {y}
    <2>1. IsFiniteSet(s) /\ IsFiniteSet(s \cap T) /\ IsFiniteSet(R \cap T)
        BY FS_Subset
    <2>2. y \in s /\ SumOn(f, s) = f[y] + SumOn(f, R)
        BY <1>2, <2>1, SumPick
    <2>3. SumOn(f, R) = c * Cardinality(R \cap T)
        BY <1>2, <2>2
    <2> HIDE DEF y, Good
    <2>4. CASE y \in T
        <3>1. R \cap T = (s \cap T) \ {y} /\ y \in s \cap T
            BY <2>2, <2>4
        <3>2. Cardinality(R \cap T) = Cardinality(s \cap T) - 1 /\ Cardinality(s \cap T) \in Nat
            <4> DEFINE U == s \cap T
            <4>1. IsFiniteSet(U) /\ y \in U /\ R \cap T = U \ {y}
                BY <2>1, <3>1
            <4> HIDE DEF U, R
            <4>2. Cardinality(U \ {y}) = Cardinality(U) - 1 /\ Cardinality(U) \in Nat
                BY <4>1, FS_RemoveElement, FS_CardinalityType
            <4> QED
                BY <4>1, <4>2 DEF U
        <3>4. f[y] = c
            BY <2>2, <2>4
        <3>5. SumOn(f, s) = c * Cardinality(s \cap T)
            BY <1>0, <2>2, <2>3, <3>2, <3>4
        <3> QED
            BY <3>5 DEF Good
    <2>5. CASE y \notin T
        <3>1. R \cap T = s \cap T
            BY <2>2, <2>5
        <3>2. f[y] = 0 /\ Cardinality(s \cap T) \in Nat
            BY <2>1, <2>2, <2>5, FS_CardinalityType
        <3>4. SumOn(f, s) = c * Cardinality(s \cap T)
            <4>1. SumOn(f, R) = c * Cardinality(s \cap T) /\ SumOn(f, s) = 0 + SumOn(f, R)
                BY <2>2, <2>3, <3>1, <3>2
            <4> QED
                BY <1>0, <3>2, <4>1
        <3> QED
            BY <3>4 DEF Good
    <2> QED
        BY <2>4, <2>5
<1>3. S \in Good
    <2> HIDE DEF Good
    <2> QED
        BY <1>1, <1>2, SubsetInduction
<1> QED
    BY <1>3

\* A sum with a single term that is not zero.
LEMMA SumOnly ==
    ASSUME NEW f, NEW S, IsFiniteSet(S), NEW y \in S, f[y] \in Int,
           \A x \in S : x # y => f[x] = 0
    PROVE  SumOn(f, S) = f[y]
<1>1. \A x \in S : f[x] \in Int
    OBVIOUS
<1>2. SumOn(f, S) = f[y] + SumOn(f, S \ {y})
    BY <1>1, SumRemove
<1>3. IsFiniteSet(S \ {y}) /\ \A x \in S \ {y} : f[x] = 0
    BY FS_Subset
<1>4. SumOn(f, S \ {y}) = 0
    BY <1>3, SumZero
<1> QED
    BY <1>2, <1>4

\* A sum of naturals is a natural.
LEMMA SumNat ==
    ASSUME NEW f, NEW S, IsFiniteSet(S), \A x \in S : f[x] \in Nat
    PROVE  SumOn(f, S) \in Nat
<1> DEFINE Good == {s \in SUBSET S : SumOn(f, s) \in Nat}
<1>1. {} \in Good
    BY SumEmpty
<1>2. ASSUME NEW s \in SUBSET S, s # {}, \A x \in s : s \ {x} \in Good
      PROVE  s \in Good
    <2>1. IsFiniteSet(s)
        BY FS_Subset
    <2>2. Pick(s) \in s /\ SumOn(f, s) = f[Pick(s)] + SumOn(f, s \ {Pick(s)})
        BY <1>2, <2>1, SumPick
    <2>3. SumOn(f, s \ {Pick(s)}) \in Nat /\ f[Pick(s)] \in Nat
        BY <1>2, <2>2
    <2> QED
        BY <2>2, <2>3
<1>3. S \in Good
    <2> HIDE DEF Good
    <2> QED
        BY <1>1, <1>2, SubsetInduction
<1> QED
    BY <1>3

\* A sum of naturals is no smaller than the one over a subset.
LEMMA SumMono ==
    ASSUME NEW f, NEW S, IsFiniteSet(S), \A x \in S : f[x] \in Nat, NEW T \in SUBSET S
    PROVE  SumOn(f, T) <= SumOn(f, S)
<1> DEFINE Good == {s \in SUBSET S : T \subseteq s => SumOn(f, T) <= SumOn(f, s)}
<1>0. \A s \in SUBSET S : SumOn(f, s) \in Nat
    <2> SUFFICES ASSUME NEW s \in SUBSET S PROVE SumOn(f, s) \in Nat
        OBVIOUS
    <2>1. IsFiniteSet(s) /\ \A x \in s : f[x] \in Nat
        BY FS_Subset
    <2> QED
        BY <2>1, SumNat
<1>1. {} \in Good
    <2>1. T \subseteq {} => T = {}
        OBVIOUS
    <2>2. T \subseteq {} => SumOn(f, T) = SumOn(f, {})
        BY <2>1, Zenon
    <2> QED
        BY <2>2, <1>0
<1>2. ASSUME NEW s \in SUBSET S, s # {}, \A x \in s : s \ {x} \in Good
      PROVE  s \in Good
    <2> SUFFICES ASSUME T \subseteq s PROVE SumOn(f, T) <= SumOn(f, s)
        OBVIOUS
    <2>1. CASE T = s
        <3>1. SumOn(f, T) = SumOn(f, s)
            BY <2>1, Zenon
        <3> QED
            BY <3>1, <1>0
    <2>2. CASE T # s
        <3>1. PICK x \in s : x \notin T
            BY <2>2
        <3>2. SumOn(f, T) <= SumOn(f, s \ {x})
            BY <3>1, <1>2
        <3>3. IsFiniteSet(s) /\ \A w \in s : f[w] \in Int
            BY FS_Subset
        <3>4. SumOn(f, s) = f[x] + SumOn(f, s \ {x})
            BY <3>3, SumRemove
        <3>5. SumOn(f, s \ {x}) \in Nat /\ SumOn(f, T) \in Nat /\ f[x] \in Nat
            BY <1>0
        <3> QED
            BY <3>2, <3>4, <3>5
    <2> QED
        BY <2>1, <2>2
<1>3. S \in Good
    <2> HIDE DEF Good
    <2> QED
        BY <1>1, <1>2, SubsetInduction
<1> QED
    BY <1>3

\* The sums of the columns of a table, over the rows s.
ColumnSums(C, T, s) == [y \in T |-> SumOn(C[y], s)]

\* The rows R and the columns C of a table, with their sums f and g.
Table(S, T, R, C, f, g) ==
    /\ IsFiniteSet(S) /\ IsFiniteSet(T)
    /\ \A x \in S : \A y \in T : R[x][y] \in Int /\ C[y][x] = R[x][y]
    /\ \A x \in S : f[x] = SumOn(R[x], T)
    /\ \A y \in T : g[y] = SumOn(C[y], S)

\* A table can be summed by rows or by columns.
LEMMA SumSwap ==
    ASSUME NEW S, NEW T, NEW R, NEW C, NEW f, NEW g, Table(S, T, R, C, f, g)
    PROVE  SumOn(f, S) = SumOn(g, T)
<1>0. /\ IsFiniteSet(S) /\ IsFiniteSet(T)
      /\ \A x \in S : \A y \in T : R[x][y] \in Int /\ C[y][x] = R[x][y]
      /\ \A x \in S : f[x] = SumOn(R[x], T)
      /\ \A y \in T : g[y] = SumOn(C[y], S)
    BY DEF Table
<1> USE <1>0
<1> DEFINE Good == {s \in SUBSET S : SumOn(f, s) = SumOn(ColumnSums(C, T, s), T)}
<1>1. {} \in Good
    <2>1. \A y \in T : ColumnSums(C, T, {})[y] = 0
        BY SumEmpty DEF ColumnSums
    <2>2. SumOn(ColumnSums(C, T, {}), T) = 0
        BY <2>1, SumZero
    <2> QED
        BY <2>2, SumEmpty
<1>2. \A s \in SUBSET S : \A y \in T :
          IsFiniteSet(s) /\ SumOn(C[y], s) \in Int /\ ColumnSums(C, T, s)[y] = SumOn(C[y], s)
    <2> SUFFICES ASSUME NEW s \in SUBSET S, NEW y \in T
                 PROVE  IsFiniteSet(s) /\ SumOn(C[y], s) \in Int
        BY DEF ColumnSums
    <2>1. IsFiniteSet(s)
        BY FS_Subset
    <2>2. \A x \in s : C[y][x] \in Int
        OBVIOUS
    <2> QED
        BY <2>1, <2>2, SumInt
<1>3. \A x \in S : SumOn(R[x], T) \in Int
    BY SumInt
<1>4. ASSUME NEW s \in SUBSET S, s # {}, \A x \in s : s \ {x} \in Good
      PROVE  s \in Good
    <2>1. PICK x \in s : TRUE
        BY <1>4
    <2> DEFINE r == s \ {x}
               G == ColumnSums(C, T, s)
               H == ColumnSums(C, T, r)
    <2>2. IsFiniteSet(s) /\ r \in SUBSET S
        BY FS_Subset
    <2>3. \A y \in T : SumOn(C[y], s) = C[y][x] + SumOn(C[y], r)
        <3> SUFFICES ASSUME NEW y \in T
                     PROVE  SumOn(C[y], s) = C[y][x] + SumOn(C[y], s \ {x})
            OBVIOUS
        <3>1. \A w \in s : C[y][w] \in Int
            OBVIOUS
        <3> QED
            BY <3>1, <2>2, SumRemove
    <2>4. \A y \in T : R[x][y] \in Int /\ H[y] \in Int /\ G[y] = R[x][y] + H[y]
        <3> SUFFICES ASSUME NEW y \in T
                     PROVE  R[x][y] \in Int /\ H[y] \in Int /\ G[y] = R[x][y] + H[y]
            OBVIOUS
        <3>1. R[x][y] \in Int /\ C[y][x] = R[x][y]
            OBVIOUS
        <3>2. H[y] = SumOn(C[y], r) /\ H[y] \in Int
            <4> HIDE DEF r
            <4> QED BY <1>2, <2>2
        <3>3. G[y] = SumOn(C[y], s)
            BY <1>2
        <3> HIDE DEF r, G, H
        <3> QED
            BY <3>1, <3>2, <3>3, <2>3
    <2>5. SumOn(G, T) = SumOn(R[x], T) + SumOn(H, T)
        <3> HIDE DEF G, H
        <3> QED
            BY <2>4, SumPlus
    <2>6. SumOn(f, s) = f[x] + SumOn(f, r)
        <3>1. \A w \in s : f[w] \in Int
            BY <1>3
        <3> QED
            BY <3>1, <2>2, SumRemove
    <2>7. SumOn(f, r) = SumOn(H, T) /\ f[x] = SumOn(R[x], T)
        BY <1>4
    <2>8. SumOn(f, s) = SumOn(G, T)
        <3> HIDE DEF r, G, H
        <3> QED
            BY <2>5, <2>6, <2>7
    <2> QED
        BY <2>8
<1>5. S \in Good
    <2> HIDE DEF Good
    <2> QED
        BY <1>1, <1>4, SubsetInduction
<1>6. SumOn(g, T) = SumOn(ColumnSums(C, T, S), T)
    <2>1. \A y \in T : ColumnSums(C, T, S)[y] \in Int /\ g[y] = ColumnSums(C, T, S)[y]
        BY <1>2
    <2> QED
        BY <2>1, SumCong
<1> QED
    BY <1>5, <1>6

----------------------------------------------------------------------------
(* Remainders.                                                             *)

\* Division with remainder.
LEMMA ModDef ==
    ASSUME NEW a \in Int, NEW m \in Nat, m > 0
    PROVE  /\ a % m \in 0..m - 1
           /\ a \div m \in Int
           /\ a = m * (a \div m) + (a % m)
OBVIOUS

\* The remainder is the only one in range.
LEMMA ModUnique ==
    ASSUME NEW a \in Int, NEW m \in Nat, m > 0, NEW k \in Int, NEW r \in 0..m - 1,
           a = m * k + r
    PROVE  a % m = r /\ a \div m = k
OBVIOUS

\* Multiples of m do not change the remainder.
LEMMA ModMultiple ==
    ASSUME NEW b \in Int, NEW m \in Nat, m > 0, NEW k \in Int
    PROVE  (b + m * k) % m = b % m
<1>1. b % m \in 0..m - 1 /\ b \div m \in Int /\ b = m * (b \div m) + (b % m)
    BY ModDef
<1> DEFINE q == b \div m
           r == b % m
<1> DEFINE a == b + m * k
<1>2. a = m * (q + k) + r
    <2>1. \A x, y \in Int : m * (x + y) = m * x + m * y
        OBVIOUS
    <2> QED
        BY <1>1, <2>1
<1>3. r \in 0..m - 1 /\ q + k \in Int /\ a \in Int
    BY <1>1
<1> HIDE DEF q, r, a
<1>4. a % m = r
    BY <1>2, <1>3, ModUnique
<1> QED
    BY <1>4 DEF r, a

\* Equal remainders differ by a multiple.
LEMMA ModSame ==
    ASSUME NEW a \in Int, NEW b \in Int, NEW m \in Nat, m > 0, a % m = b % m
    PROVE  \E k \in Int : a = b + m * k
<1>1. /\ a \div m \in Int /\ a = m * (a \div m) + (a % m)
      /\ b \div m \in Int /\ b = m * (b \div m) + (b % m)
      /\ a % m \in Int
    BY ModDef
<1>2. \A x, y \in Int : m * x = m * y + m * (x - y)
    OBVIOUS
<1>3. m * (a \div m) = m * (b \div m) + m * ((a \div m) - (b \div m))
    BY <1>1, <1>2
<1> DEFINE k == (a \div m) - (b \div m)
<1>4. k \in Int /\ m * k \in Int /\ m * (b \div m) \in Int
    BY <1>1
<1>5. a = b + m * k
    <2> DEFINE A == m * (a \div m)
               B == m * (b \div m)
               K == m * k
    <2>1. A = B + K /\ a = A + (a % m) /\ b = B + (a % m)
        BY <1>1, <1>3
    <2>2. B \in Int /\ K \in Int /\ a % m \in Int
        BY <1>1, <1>4
    <2>3. a = b + K
        <3> HIDE DEF A, B, K, k
        <3> QED
            BY <2>1, <2>2
    <2> QED
        BY <2>3
<1> QED
    BY <1>4, <1>5

\* A sum may be taken of the remainders.
LEMMA ModAdd ==
    ASSUME NEW a \in Int, NEW b \in Int, NEW m \in Nat, m > 0
    PROVE  ((a % m) + b) % m = (a + b) % m
<1>1. a % m \in Int /\ a \div m \in Int /\ a = m * (a \div m) + (a % m)
    BY ModDef
<1> DEFINE A == a + b
           B == (a % m) + b
           k == a \div m
<1>2. A \in Int /\ B \in Int /\ k \in Int
    BY <1>1
<1>3. A = B + m * k
    BY <1>1
<1>4. A % m = B % m
    <2> HIDE DEF A, B, k
    <2> QED
        BY <1>2, <1>3, ModMultiple
<1> QED
    BY <1>4

\* Sums that agree modulo m in every term.
LEMMA SumMod ==
    ASSUME NEW f, NEW g, NEW S, IsFiniteSet(S), NEW m \in Nat, m > 0,
           \A x \in S : f[x] \in Int /\ g[x] \in Int /\ f[x] % m = g[x] % m
    PROVE  SumOn(f, S) % m = SumOn(g, S) % m
<1> DEFINE k == [x \in S |-> CHOOSE i \in Int : f[x] = g[x] + m * i]
           mk == [x \in S |-> m * k[x]]
<1>1. \A x \in S : k[x] \in Int /\ f[x] = g[x] + m * k[x]
    <2> SUFFICES ASSUME NEW x \in S PROVE k[x] \in Int /\ f[x] = g[x] + m * k[x]
        OBVIOUS
    <2>1. \E i \in Int : f[x] = g[x] + m * i
        BY ModSame
    <2> QED
        BY <2>1
<1>2. \A x \in S : mk[x] = m * k[x] /\ mk[x] \in Int
    BY <1>1
<1> HIDE DEF k, mk
<1>3. SumOn(mk, S) = m * SumOn(k, S)
    BY <1>1, <1>2, SumTimes
<1>4. SumOn(f, S) = SumOn(g, S) + SumOn(mk, S)
    BY <1>1, <1>2, SumPlus
<1> DEFINE F == SumOn(f, S)
           G == SumOn(g, S)
           K == SumOn(k, S)
<1>5. F \in Int /\ G \in Int /\ K \in Int
    BY <1>1, SumInt
<1>6. F = G + m * K
    BY <1>3, <1>4
<1>7. F % m = G % m
    <2> HIDE DEF F, G, K
    <2> QED
        BY <1>5, <1>6, ModMultiple
<1> QED
    BY <1>7

\* Division by a product, in two steps.
LEMMA ModSplit ==
    ASSUME NEW x \in Int, NEW A \in Nat \ {0}, NEW B \in Nat \ {0}
    PROVE  /\ x % (A * B) = (x % A) + A * ((x \div A) % B)
           /\ x \div (A * B) = (x \div A) \div B
<1> DEFINE q == x \div A
           r == x % A
           q2 == q \div B
           r2 == q % B
           m == A * B
           s == r + A * r2
<1>1. q \in Int /\ r \in 0..A - 1 /\ x = A * q + r
    BY ModDef
<1> HIDE DEF q, r
<1>2. q2 \in Int /\ r2 \in 0..B - 1 /\ q = B * q2 + r2
    BY <1>1, ModDef
<1> HIDE DEF q2, r2
<1>3. x = A * (B * q2) + A * r2 + r
    BY <1>1, <1>2
<1>4. A * (B * q2) = m * q2
    BY <1>2
<1>5. m \in Nat /\ m > 0
    OBVIOUS
<1>6. A * r2 \in 0..m - A
    <2>1. r2 <= B - 1 /\ r2 \in Nat
        BY <1>2
    <2>2. A * r2 <= A * (B - 1) /\ A * r2 >= 0
        BY <2>1
    <2>3. A * (B - 1) = m - A
        OBVIOUS
    <2>4. A * r2 \in Int
        BY <2>1
    <2> QED
        BY <2>2, <2>3, <2>4, <1>5
<1>7. s \in 0..m - 1 /\ x = m * q2 + s
    <2> DEFINE v == A * r2
    <2>1. v \in 0..m - A /\ x = m * q2 + v + r /\ m * q2 \in Int
        BY <1>2, <1>3, <1>4, <1>5, <1>6
    <2> HIDE DEF v, m
    <2>2. v + r \in 0..m - 1 /\ x = m * q2 + (r + v)
        BY <2>1, <1>1, <1>5
    <2> QED
        BY <2>2, <1>1, <2>1 DEF v
<1> HIDE DEF m, s
<1>8. x % m = s /\ x \div m = q2
    BY <1>2, <1>5, <1>7, ModUnique
<1> QED
    BY <1>8 DEF m, s, q, r, q2, r2

----------------------------------------------------------------------------
(* Powers of two, up to the bits of a u32.                                 *)

Two(k) == 2^k

\* The powers of two that the dimensions need, one by one.
LEMMA PowerTable ==
    /\ Two(0) = 1
    /\ Two(1) = 2 * Two(0)
    /\ Two(2) = 2 * Two(1)
    /\ Two(3) = 2 * Two(2)
    /\ Two(4) = 2 * Two(3)
    /\ Two(5) = 2 * Two(4)
    /\ Two(6) = 2 * Two(5)
    /\ Two(7) = 2 * Two(6)
    /\ Two(8) = 2 * Two(7)
    /\ Two(9) = 2 * Two(8)
    /\ Two(10) = 2 * Two(9)
    /\ Two(11) = 2 * Two(10)
    /\ Two(12) = 2 * Two(11)
    /\ Two(13) = 2 * Two(12)
    /\ Two(14) = 2 * Two(13)
    /\ Two(15) = 2 * Two(14)
    /\ Two(16) = 2 * Two(15)
    /\ Two(17) = 2 * Two(16)
    /\ Two(18) = 2 * Two(17)
    /\ Two(19) = 2 * Two(18)
    /\ Two(20) = 2 * Two(19)
    /\ Two(21) = 2 * Two(20)
    /\ Two(22) = 2 * Two(21)
    /\ Two(23) = 2 * Two(22)
    /\ Two(24) = 2 * Two(23)
    /\ Two(25) = 2 * Two(24)
    /\ Two(26) = 2 * Two(25)
    /\ Two(27) = 2 * Two(26)
    /\ Two(28) = 2 * Two(27)
    /\ Two(29) = 2 * Two(28)
    /\ Two(30) = 2 * Two(29)
    /\ Two(31) = 2 * Two(30)
    /\ Two(32) = 2 * Two(31)
    /\ Two(33) = 2 * Two(32)
BY SMT DEF Two

\* Each of them is twice the one before.
LEMMA Powers ==
    ASSUME NEW k \in 0..32
    PROVE  Two(k + 1) = 2 * Two(k) /\ Two(k) \in Nat \ {0}
<1>1. Two(k + 1) = 2 * Two(k)
    BY PowerTable, SMT
<1>2. Two(k) \in Nat \ {0}
    BY PowerTable, SMT
<1> QED
    BY <1>1, <1>2

\* They are positive naturals.
LEMMA PowerNat ==
    ASSUME NEW k \in 0..32
    PROVE  2^k \in Nat \ {0}
BY Powers DEF Two

\* The power of a sum is the product of the powers.
LEMMA PowerSum ==
    ASSUME NEW a \in Nat, NEW b \in Nat, a + b <= 32
    PROVE  Two(a + b) = Two(a) * Two(b)
<1> DEFINE Bad == {c \in 0..b : Two(a + c) # Two(a) * Two(c)}
<1> SUFFICES ASSUME Bad # {} PROVE FALSE
    OBVIOUS
<1>1. Bad \in SUBSET Nat
    OBVIOUS
<1>2. PICK c \in Bad : \A d \in Bad : c <= d
    <2> HIDE DEF Bad
    <2> QED
        BY <1>1, SmallestNumber
<1>3. Two(a) \in Nat /\ Two(a + 0) = Two(a)
    BY Powers
<1>4. c # 0
    BY <1>3, PowerTable
<1>5. c - 1 \in 0..b /\ c - 1 \notin Bad
    BY <1>2, <1>4
<1>6. Two(a + (c - 1)) = Two(a) * Two(c - 1)
    BY <1>5
<1>7. Two(c) = 2 * Two(c - 1) /\ Two(c - 1) \in Nat
    <2>1. c - 1 \in 0..32 /\ (c - 1) + 1 = c
        BY <1>5
    <2> QED
        BY <2>1, Powers
<1>8. Two(a + c) = 2 * Two(a + (c - 1))
    <2>1. a + (c - 1) \in 0..32 /\ (a + (c - 1)) + 1 = a + c
        BY <1>5
    <2> QED
        BY <2>1, Powers
<1>9. Two(a) * Two(c) = 2 * (Two(a) * Two(c - 1))
    <2>1. \A u, v \in Nat : u * (2 * v) = 2 * (u * v)
        OBVIOUS
    <2> QED
        BY <2>1, <1>3, <1>7
<1>10. Two(a + c) = Two(a) * Two(c)
    BY <1>6, <1>8, <1>9
<1> QED
    BY <1>10

\* A number is the sum of its bits.
LEMMA Binary ==
    ASSUME NEW x \in Nat, NEW k \in 0..32, NEW f,
           \A i \in 0..k - 1 : f[i] = Two(i) * ((x \div Two(i)) % 2)
    PROVE  SumOn(f, 0..k - 1) = x % Two(k)
<1> DEFINE Bad == {c \in 0..k : SumOn(f, 0..c - 1) # x % Two(c)}
<1> SUFFICES ASSUME Bad # {} PROVE FALSE
    OBVIOUS
<1>1. Bad \in SUBSET Nat
    OBVIOUS
<1>2. PICK c \in Bad : \A d \in Bad : c <= d
    <2> HIDE DEF Bad
    <2> QED
        BY <1>1, SmallestNumber
<1>3. c # 0
    <2>1. 0..0 - 1 = {}
        OBVIOUS
    <2>2. SumOn(f, 0..0 - 1) = 0
        BY <2>1, SumEmpty, Zenon
    <2>3. x % 1 = 0
        OBVIOUS
    <2> QED
        BY <2>2, <2>3, PowerTable
<1> DEFINE d == c - 1
<1>4. d \in 0..k /\ d \in 0..31 /\ d + 1 = c /\ d \notin Bad /\ d \in 0..k - 1
    BY <1>2, <1>3
<1>5. SumOn(f, 0..d - 1) = x % Two(d)
    BY <1>4
<1> HIDE DEF d
<1>6. Two(c) = Two(d) * 2 /\ Two(d) \in Nat \ {0}
    <2>1. d \in 0..32 /\ d + 1 = c
        BY <1>4
    <2>2. Two(d + 1) = 2 * Two(d) /\ Two(d) \in Nat \ {0}
        BY <2>1, Powers
    <2> QED
        BY <2>1, <2>2
<1>7. x % Two(c) = (x % Two(d)) + Two(d) * ((x \div Two(d)) % 2)
    <2> DEFINE A == Two(d)
               B == 2
    <2>1. x \in Int /\ A \in Nat \ {0} /\ B \in Nat \ {0} /\ Two(c) = A * B
        BY <1>6
    <2> HIDE DEF A, B
    <2>2. x % (A * B) = (x % A) + A * ((x \div A) % B)
        BY <2>1, ModSplit, Zenon
    <2> QED
        BY <2>1, <2>2 DEF A, B
<1>8. SumOn(f, 0..c - 1) = f[d] + SumOn(f, 0..d - 1)
    <2>1. \A i \in 0..c - 1 : f[i] \in Int
        <3> SUFFICES ASSUME NEW i \in 0..c - 1 PROVE f[i] \in Int
            OBVIOUS
        <3>1. i \in 0..32 /\ f[i] = Two(i) * ((x \div Two(i)) % 2)
            OBVIOUS
        <3>2. Two(i) \in Nat \ {0}
            BY <3>1, Powers
        <3>3. (x \div Two(i)) % 2 \in Int
            BY <3>2
        <3> QED
            BY <3>1, <3>2, <3>3
    <2>2. IsFiniteSet(0..c - 1) /\ d \in 0..c - 1
        BY <1>4, FS_Interval
    <2>3. (0..c - 1) \ {d} = 0..d - 1
        BY <1>4
    <2> DEFINE S == 0..c - 1
    <2>4. SumOn(f, S) = f[d] + SumOn(f, S \ {d})
        <3>1. IsFiniteSet(S) /\ d \in S /\ \A i \in S : f[i] \in Int
            BY <2>1, <2>2
        <3> HIDE DEF S
        <3> QED
            BY <3>1, SumRemove
    <2> QED
        BY <2>3, <2>4, Zenon
<1>9. f[d] = Two(d) * ((x \div Two(d)) % 2)
    BY <1>4
<1>10. x % Two(d) \in Int /\ Two(d) * ((x \div Two(d)) % 2) \in Int
    <2>1. (x \div Two(d)) % 2 \in Int
        BY <1>6
    <2> QED
        BY <1>6, <2>1
<1>11. SumOn(f, 0..c - 1) = x % Two(c)
    BY <1>5, <1>7, <1>8, <1>9, <1>10
<1> QED
    BY <1>11

----------------------------------------------------------------------------
(* Tables that are defined by halving.                                     *)

\* A table whose entry b is made of two entries before it.
HalvingTable(f, m, one, E, hi, lo) ==
    f = [b \in 1..m |-> IF b = 1 THEN one ELSE E[b][<<f[hi[b]], f[lo[b]]>>]]

\* There is one.
LEMMA HalvingTableExists ==
    ASSUME NEW M \in Nat, NEW V, NEW one \in V,
           NEW E, \A b \in 1..M : E[b] \in [V \X V -> V],
           NEW hi, NEW lo, \A b \in 2..M : hi[b] \in 1..b - 1 /\ lo[b] \in 1..b - 1
    PROVE  \E f \in [1..M -> V] : HalvingTable(f, M, one, E, hi, lo)
<1> DEFINE Bad == {m \in 0..M : ~\E f \in [1..m -> V] : HalvingTable(f, m, one, E, hi, lo)}
<1> SUFFICES ASSUME Bad # {} PROVE FALSE
    OBVIOUS
<1>1. Bad \in SUBSET Nat
    OBVIOUS
<1>2. PICK m \in Bad : \A n \in Bad : m <= n
    <2> HIDE DEF Bad
    <2> QED
        BY <1>1, SmallestNumber
<1>3. m # 0
    <2> SUFFICES ASSUME m = 0 PROVE FALSE
        OBVIOUS
    <2> DEFINE g == [b \in 1..0 |-> one]
    <2>1. g \in [1..0 -> V]
        OBVIOUS
    <2>2. 1..0 = {}
        OBVIOUS
    <2>3. HalvingTable(g, 0, one, E, hi, lo)
        BY <2>2 DEF HalvingTable
    <2> QED
        BY <1>2, <2>1, <2>3
<1>4. m - 1 \in 0..M /\ m - 1 \notin Bad /\ m \in 1..M
    BY <1>2, <1>3
<1>5. PICK g \in [1..m - 1 -> V] : HalvingTable(g, m - 1, one, E, hi, lo)
    BY <1>4
<1> DEFINE Row(f, b) == IF b = 1 THEN one ELSE E[b][<<f[hi[b]], f[lo[b]]>>]
           h == [b \in 1..m |-> IF b = m THEN Row(g, m) ELSE g[b]]
<1>6. ASSUME NEW b \in 2..m
      PROVE  /\ hi[b] \in 1..m - 1 /\ lo[b] \in 1..m - 1
             /\ g[hi[b]] \in V /\ g[lo[b]] \in V
             /\ h[hi[b]] = g[hi[b]] /\ h[lo[b]] = g[lo[b]]
    <2>1. hi[b] \in 1..b - 1 /\ lo[b] \in 1..b - 1
        BY <1>4
    <2>2. hi[b] \in 1..m - 1 /\ lo[b] \in 1..m - 1
        BY <2>1
    <2>3. hi[b] \in 1..m /\ lo[b] \in 1..m /\ hi[b] # m /\ lo[b] # m
        BY <2>2
    <2> QED
        BY <1>5, <2>2, <2>3
<1>7. Row(g, m) \in V
    <2>1. CASE m = 1
        BY <2>1
    <2>2. CASE m # 1
        <3>1. m \in 2..m /\ E[m] \in [V \X V -> V]
            <4>1. m \in 2..m
                BY <1>4, <2>2
            <4>2. E[m] \in [V \X V -> V]
                <5> HIDE DEF Bad, Row, h
                <5> QED
                    BY <1>4
            <4> QED
                BY <4>1, <4>2
        <3> DEFINE x == <<g[hi[m]], g[lo[m]]>>
        <3>2. x \in V \X V
            BY <1>6, <3>1
        <3>3. Row(g, m) = E[m][x]
            BY <2>2
        <3> HIDE DEF x
        <3> QED
            BY <3>1, <3>2, <3>3
    <2> QED
        BY <2>1, <2>2
<1>8. h \in [1..m -> V]
    <2>1. ASSUME NEW b \in 1..m PROVE (IF b = m THEN Row(g, m) ELSE g[b]) \in V
        <3>1. CASE b = m
            BY <1>7, <3>1
        <3>2. CASE b # m
            <4>1. b \in 1..m - 1
                BY <1>4, <3>2
            <4> QED
                BY <1>5, <3>2, <4>1
        <3> QED
            BY <3>1, <3>2
    <2> QED
        BY <2>1
<1>9. ASSUME NEW b \in 1..m PROVE h[b] = Row(h, b)
    <2>1. Row(h, b) = Row(g, b)
        <3>1. CASE b = 1
            BY <3>1
        <3>2. CASE b # 1
            <4>1. b \in 2..m
                BY <1>4, <3>2
            <4> HIDE DEF h
            <4> QED
                BY <1>6, <4>1
        <3> QED
            BY <3>1, <3>2
    <2>2. h[b] = Row(g, b)
        <3>1. CASE b = m
            BY <3>1
        <3>2. CASE b # m
            <4>1. b \in 1..m - 1
                BY <1>4, <3>2
            <4>2. h[b] = g[b]
                BY <3>2
            <4>3. g[b] = Row(g, b)
                <5> HIDE DEF h
                <5> QED
                    BY <1>5, <4>1 DEF HalvingTable
            <4> QED
                BY <4>2, <4>3
        <3> QED
            BY <3>1, <3>2
    <2> QED
        BY <2>1, <2>2
<1>10. HalvingTable(h, m, one, E, hi, lo)
    <2>1. h = [b \in 1..m |-> h[b]]
        OBVIOUS
    <2> HIDE DEF h
    <2> QED
        BY <1>9, <2>1 DEF HalvingTable
<1> QED
    <2> HIDE DEF h
    <2> QED
        BY <1>2, <1>8, <1>10

\* Two tables have the same way to make an entry.
HalvingAlike(f, g, m, hi, lo) ==
    /\ f[1] = g[1]
    /\ \A b \in 2..m :
          /\ hi[b] \in 1..b - 1 /\ lo[b] \in 1..b - 1
          /\ f[hi[b]] = g[hi[b]] /\ f[lo[b]] = g[lo[b]] => f[b] = g[b]

\* They are the same.
LEMMA HalvingAgree ==
    ASSUME NEW M \in Nat, NEW f, NEW g, NEW hi, NEW lo, HalvingAlike(f, g, M, hi, lo)
    PROVE  \A b \in 1..M : f[b] = g[b]
<1> DEFINE Bad == {m \in 1..M : f[m] # g[m]}
<1> SUFFICES ASSUME Bad # {} PROVE FALSE
    OBVIOUS
<1>1. Bad \in SUBSET Nat
    OBVIOUS
<1>2. PICK m \in Bad : \A n \in Bad : m <= n
    <2> HIDE DEF Bad
    <2> QED
        BY <1>1, SmallestNumber
<1>3. m \in 2..M
    BY <1>2 DEF HalvingAlike
<1>4. hi[m] \in 1..m - 1 /\ lo[m] \in 1..m - 1
    BY <1>3 DEF HalvingAlike
<1>5. \A n \in 1..m - 1 : n \in 1..M /\ n \notin Bad
    BY <1>2, <1>3
<1>6. f[hi[m]] = g[hi[m]] /\ f[lo[m]] = g[lo[m]]
    BY <1>4, <1>5
<1> QED
    BY <1>2, <1>3, <1>6 DEF HalvingAlike

----------------------------------------------------------------------------
(* Sums over the beginning of a sequence.                                  *)

\* One more term.
LEMMA SumNext ==
    ASSUME NEW f, NEW m \in Nat, \A x \in 1..m + 1 : f[x] \in Int
    PROVE  /\ SumOn(f, 1..m + 1) = SumOn(f, 1..m) + f[m + 1]
           /\ SumOn(f, 1..m) \in Int
<1> DEFINE S == 1..m + 1
           T == 1..m
           k == m + 1
<1>1. IsFiniteSet(S) /\ k \in S /\ S \ {k} = T /\ \A x \in S : f[x] \in Int
    BY FS_Interval
<1>2. IsFiniteSet(T) /\ \A x \in T : f[x] \in Int
    BY <1>1, FS_Interval
<1> HIDE DEF S, T, k
<1>3. \A y \in S : SumOn(f, S) = f[y] + SumOn(f, S \ {y})
    BY <1>1, SumRemove
<1>4. SumOn(f, T) \in Int
    BY <1>2, SumInt
<1>5. SumOn(f, S) = SumOn(f, T) + f[k]
    BY <1>1, <1>3, <1>4
<1> QED
    BY <1>4, <1>5 DEF S, T, k

\* The sum of n repetitions.
LEMMA SumPeriodic ==
    ASSUME NEW f, NEW g, NEW L \in Nat \ {0}, NEW n \in Nat,
           \A j \in 1..L : g[j] \in Int,
           \A i \in 1..n * L : f[i] = g[((i - 1) % L) + 1]
    PROVE  SumOn(f, 1..n * L) = n * SumOn(g, 1..L)
<1> DEFINE G == SumOn(g, 1..L)
           M == n * L
           Sf(m) == SumOn(f, 1..m)
           Sg(m) == SumOn(g, 1..m)
           Ok(m) == \A q \in Int, k \in 0..L - 1 : m = L * q + k => Sf(m) = q * G + Sg(k)
           Bad == {m \in 0..M : ~Ok(m)}
<1>1. M \in Nat
    OBVIOUS
<1>2. \A k \in 0..L - 1 : Sg(k + 1) = Sg(k) + g[k + 1] /\ Sg(k) \in Int
    <2> SUFFICES ASSUME NEW k \in 0..L - 1
                 PROVE  Sg(k + 1) = Sg(k) + g[k + 1] /\ Sg(k) \in Int
        OBVIOUS
    <2>1. k \in Nat /\ \A x \in 1..k + 1 : g[x] \in Int
        OBVIOUS
    <2> QED
        BY <2>1, SumNext
<1>3. Sg(0) = 0 /\ Sf(0) = 0
    <2>1. 1..0 = {}
        OBVIOUS
    <2> QED
        BY <2>1, SumEmpty
<1>4. G \in Int
    <2>1. IsFiniteSet(1..L)
        BY FS_Interval
    <2> QED
        BY <2>1, SumInt
<1>5. ASSUME NEW i \in 1..M, NEW q \in Int, NEW k \in 0..L - 1, i - 1 = L * q + k
      PROVE  f[i] = g[k + 1] /\ g[k + 1] \in Int
    <2> DEFINE a == i - 1
    <2>1. a \in Int
        BY <1>1
    <2>2. a % L = k
        <3> HIDE DEF a, M
        <3>1. a = L * q + k
            BY <1>5 DEF a
        <3> QED
            BY <2>1, <3>1, ModUnique
    <2>3. k + 1 \in 1..L
        OBVIOUS
    <2> QED
        BY <2>2, <2>3
<1>6. G = Sg(L)
    OBVIOUS
<1>7. ASSUME NEW m \in 0..M - 1, \A x \in 1..m + 1 : f[x] \in Int
      PROVE  Sf(m + 1) = Sf(m) + f[m + 1] /\ Sf(m) \in Int
    <2>1. m \in Nat
        BY <1>1
    <2> QED
        BY <1>7, <2>1, SumNext
<1>8. \A x \in 1..M : f[x] \in Int
    <2> SUFFICES ASSUME NEW x \in 1..M PROVE f[x] \in Int
        OBVIOUS
    <2> DEFINE a == x - 1
    <2>1. a \in Int
        BY <1>1
    <2>2. a % L \in 0..L - 1
        <3> HIDE DEF a
        <3> QED
            BY <2>1, ModDef
    <2>3. (a % L) + 1 \in 1..L
        <3> DEFINE r == a % L
        <3>1. r \in 0..L - 1
            BY <2>2
        <3> HIDE DEF r, a
        <3>2. r + 1 \in 1..L
            BY <3>1
        <3> QED
            BY <3>2 DEF r
    <2> QED
        BY <2>3
<1> HIDE DEF G, Sf, Sg, M
<1>9. Bad = {}
    <2> SUFFICES ASSUME Bad # {} PROVE FALSE
        OBVIOUS
    <2>1. Bad \in SUBSET Nat
        BY <1>1
    <2>2. PICK m \in Bad : \A x \in Bad : m <= x
        <3> HIDE DEF Bad
        <3> QED
            BY <2>1, SmallestNumber
    <2>3. m \in 0..M /\ ~Ok(m) /\ \A x \in 0..M : x < m => Ok(x)
        BY <1>1, <2>2
    <2> HIDE DEF Bad
    <2>4. PICK q \in Int, k \in 0..L - 1 : m = L * q + k /\ Sf(m) # q * G + Sg(k)
        BY <2>3
    <2>5. CASE m = 0
        <3>1. q = 0 /\ k = 0
            <4>1. 0 = L * q + k
                BY <2>4, <2>5
            <4>2. 0 % L = k /\ 0 \div L = q
                BY <4>1, ModUnique
            <4>3. 0 % L = 0 /\ 0 \div L = 0
                <5>1. 0 = L * 0 + 0 /\ 0 \in 0..L - 1
                    OBVIOUS
                <5> QED
                    BY <5>1
            <4> QED
                BY <4>2, <4>3
        <3>2. q * G = 0
            BY <1>4, <3>1
        <3> QED
            BY <1>3, <2>4, <2>5, <3>1, <3>2
    <2>6. CASE m # 0
        <3>1. /\ m - 1 \in 0..M - 1 /\ m - 1 \in 0..M /\ m - 1 < m /\ m \in 1..M
              /\ (m - 1) + 1 = m
            BY <1>1, <2>3, <2>6
        <3>2. Ok(m - 1)
            <4> HIDE DEF Ok
            <4> QED
                BY <2>3, <3>1
        <3>3. Sf(m) = Sf(m - 1) + f[m] /\ Sf(m - 1) \in Int /\ f[m] \in Int
            <4> DEFINE w == m - 1
            <4>1. w \in 0..M - 1 /\ w + 1 = m /\ \A x \in 1..w + 1 : f[x] \in Int
                BY <1>1, <1>8, <3>1
            <4> HIDE DEF w
            <4>2. Sf(w + 1) = Sf(w) + f[w + 1] /\ Sf(w) \in Int
                BY <1>7, <4>1
            <4> QED
                BY <1>8, <3>1, <4>1, <4>2 DEF w
        <3>4. CASE k # 0
            <4>1. k - 1 \in 0..L - 1 /\ (k - 1) + 1 = k
                BY <3>4
            <4>2. m - 1 = L * q + (k - 1)
                <5>1. L * q \in Int
                    OBVIOUS
                <5> QED
                    BY <2>4, <5>1, <3>1
            <4>3. Sf(m - 1) = q * G + Sg(k - 1)
                BY <3>2, <4>1, <4>2
            <4>4. f[m] = g[k]
                BY <1>5, <3>1, <4>1, <4>2
            <4>5. Sg(k) = Sg(k - 1) + g[k] /\ Sg(k - 1) \in Int
                BY <1>2, <4>1
            <4>6. q * G \in Int
                BY <1>4
            <4> QED
                BY <2>4, <3>3, <4>3, <4>4, <4>5, <4>6
        <3>5. CASE k = 0
            <4> DEFINE p == q - 1
                       z == L - 1
            <4>1. p \in Int /\ z \in 0..L - 1 /\ z + 1 = L /\ q = p + 1
                OBVIOUS
            <4>2. L * q = L * p + L /\ L * p \in Int
                BY <4>1
            <4> HIDE DEF p, z
            <4>3. m - 1 = L * p + z
                BY <2>4, <3>1, <3>5, <4>1, <4>2
            <4>4. Sf(m - 1) = p * G + Sg(z)
                BY <3>2, <4>1, <4>3
            <4>5. f[m] = g[z + 1]
                BY <1>5, <3>1, <4>1, <4>3
            <4>6. G = Sg(z) + g[z + 1] /\ Sg(z) \in Int
                BY <1>2, <1>6, <4>1
            <4>7. q * G = p * G + G /\ p * G \in Int
                BY <1>4, <4>1
            <4> QED
                BY <1>3, <1>4, <2>4, <3>3, <3>5, <4>4, <4>5, <4>6, <4>7
        <3> QED
            BY <3>4, <3>5
    <2> QED
        BY <2>5, <2>6
<1>10. Ok(M)
    BY <1>1, <1>9
<1>11. M = L * n + 0 /\ n \in Int /\ 0 \in 0..L - 1
    BY DEF M
<1>12. Sf(M) = n * G + Sg(0)
    BY <1>10, <1>11
<1>13. n * G \in Int
    BY <1>4
<1> QED
    BY <1>3, <1>12, <1>13 DEF Sf, M, G
----------------------------------------------------------------------------
(* The tables of QueryPlan, and the rounds of a query one by one.          *)

Hi == [b \in 1..MaxBits |-> CeilDiv(b, 2)]
Lo == [b \in 1..MaxBits |-> b - CeilDiv(b, 2)]

\* The two halves of an index part.
LEMMA IndexHalves ==
    ASSUME NEW b \in 2..MaxBits
    PROVE  /\ CeilDiv(b, 2) \in 1..b - 1 /\ b - CeilDiv(b, 2) \in 1..b - 1
           /\ CeilDiv(b, 2) \in 1..MaxBits /\ b - CeilDiv(b, 2) \in 1..MaxBits
           /\ Hi[b] = CeilDiv(b, 2) /\ Lo[b] = b - CeilDiv(b, 2)
           /\ 2 * CeilDiv(b, 2) <= b + 1 /\ 2 * CeilDiv(b, 2) >= b
BY DEF CeilDiv, MaxBits, Hi, Lo

\* The levels of an encoding.
LEMMA DepthTable ==
    /\ OheDepth \in [1..MaxBits -> Nat]
    /\ OheDepth[1] = 0
    /\ \A b \in 2..MaxBits : OheDepth[b] = 1 + OheDepth[CeilDiv(b, 2)]
<1> DEFINE E == [b \in 1..MaxBits |-> [x \in Nat \X Nat |-> 1 + x[1]]]
           Row(f, b) == IF b = 1 THEN 0 ELSE 1 + f[CeilDiv(b, 2)]
<1>0. MaxBits \in Nat /\ 1 \in 1..MaxBits
    BY DEF MaxBits
<1>2. \A b \in 1..MaxBits : E[b] \in [Nat \X Nat -> Nat]
    OBVIOUS
<1>3. \A b \in 2..MaxBits : Hi[b] \in 1..b - 1 /\ Lo[b] \in 1..b - 1
    BY IndexHalves
<1>4. PICK f \in [1..MaxBits -> Nat] : HalvingTable(f, MaxBits, 0, E, Hi, Lo)
    <2> HIDE DEF E
    <2> QED
        BY <1>0, <1>2, <1>3, HalvingTableExists
<1>5. ASSUME NEW b \in 1..MaxBits PROVE f[b] = Row(f, b)
    <2>1. f[b] = IF b = 1 THEN 0 ELSE E[b][<<f[Hi[b]], f[Lo[b]]>>]
        BY <1>4 DEF HalvingTable
    <2>2. CASE b = 1
        BY <2>1, <2>2
    <2>3. CASE b # 1
        <3>1. b \in 2..MaxBits
            BY <1>0, <2>3
        <3>2. <<f[Hi[b]], f[Lo[b]]>> \in Nat \X Nat
            BY <1>4, <3>1, IndexHalves
        <3>3. E[b][<<f[Hi[b]], f[Lo[b]]>>] = 1 + f[Hi[b]]
            BY <3>2
        <3> QED
            BY <2>1, <2>3, <3>1, <3>3, IndexHalves
    <2> QED
        BY <2>2, <2>3
<1>6. f = [b \in 1..MaxBits |-> Row(f, b)]
    <2>1. f = [b \in 1..MaxBits |-> f[b]]
        BY <1>4
    <2> HIDE DEF Row
    <2> QED
        BY <1>5, <2>1
<1>7. OheDepth = [b \in 1..MaxBits |-> Row(OheDepth, b)]
    BY <1>6, Zenon DEF OheDepth
<1> DEFINE G == OheDepth
<1>8. \A b \in 1..MaxBits : G[b] = Row(G, b)
    <2> HIDE DEF Row, G
    <2> QED
        BY <1>7 DEF G
<1> HIDE DEF G
<1>9. \A b \in 1..MaxBits : G[b] = f[b]
    <2>1. G[1] = f[1]
        BY <1>0, <1>5, <1>8
    <2>2. ASSUME NEW b \in 2..MaxBits, G[Hi[b]] = f[Hi[b]], G[Lo[b]] = f[Lo[b]]
          PROVE  G[b] = f[b]
        <3>1. b \in 1..MaxBits /\ b # 1
            BY <1>0
        <3> QED
            BY <1>5, <1>8, <2>2, <3>1, IndexHalves
    <2>3. HalvingAlike(G, f, MaxBits, Hi, Lo)
        BY <1>3, <2>1, <2>2 DEF HalvingAlike
    <2> QED
        BY <1>0, <2>3, HalvingAgree
<1>10. G \in [1..MaxBits -> Nat]
    <2>1. G = [b \in 1..MaxBits |-> G[b]]
        <3> HIDE DEF Row
        <3> QED
            BY <1>7, <1>8 DEF G
    <2> QED
        BY <1>4, <1>9, <2>1
<1>11. \A b \in 2..MaxBits : b \in 1..MaxBits /\ b # 1
    BY <1>0
<1> QED
    BY <1>0, <1>8, <1>10, <1>11 DEF G

\* What an encoding requests of each layer.
LEMMA BytesTable ==
    /\ OheBytes \in [1..MaxBits -> [0..MaxDepth -> Nat]]
    /\ \A k \in 0..MaxDepth : OheBytes[1][k] = 0
    /\ \A b \in 2..MaxBits :
          /\ OheBytes[b][0] = CeilDiv(2^b, 8)
          /\ \A k \in 1..MaxDepth :
                OheBytes[b][k] =
                    OheBytes[CeilDiv(b, 2)][k - 1] + OheBytes[b - CeilDiv(b, 2)][k - 1]
<1> DEFINE V == [0..MaxDepth -> Nat]
           Entry(b, u, v) ==
               [k \in 0..MaxDepth |->
                   IF b = 1 THEN 0
                   ELSE IF k = 0 THEN CeilDiv(2^b, 8)
                   ELSE u[k - 1] + v[k - 1]]
           E == [b \in 1..MaxBits |-> [x \in V \X V |-> Entry(b, x[1], x[2])]]
           one == [k \in 0..MaxDepth |-> 0]
           Row(f, b) == Entry(b, f[CeilDiv(b, 2)], f[b - CeilDiv(b, 2)])
<1>0. MaxBits \in Nat /\ 1 \in 1..MaxBits /\ MaxBits <= 32 /\ MaxDepth \in Nat
    BY DEF MaxBits, MaxDepth
<1>1. \A b \in 1..MaxBits : CeilDiv(2^b, 8) \in Nat
    <2> SUFFICES ASSUME NEW b \in 1..MaxBits PROVE CeilDiv(2^b, 8) \in Nat
        OBVIOUS
    <2> DEFINE x == 2^b
    <2>1. b \in 0..32
        BY <1>0
    <2>2. x \in Nat
        BY <2>1, PowerNat
    <2> HIDE DEF x
    <2>3. CeilDiv(x, 8) \in Nat
        BY <2>2 DEF CeilDiv
    <2> QED
        BY <2>3 DEF x
<1>2. ASSUME NEW b \in 1..MaxBits, NEW u \in V, NEW v \in V PROVE Entry(b, u, v) \in V
    <2>1. ASSUME NEW k \in 0..MaxDepth
          PROVE  (IF b = 1 THEN 0
                  ELSE IF k = 0 THEN CeilDiv(2^b, 8) ELSE u[k - 1] + v[k - 1]) \in Nat
        <3>1. CASE b # 1 /\ k # 0
            <4>1. k - 1 \in 0..MaxDepth
                BY <1>0, <3>1
            <4>2. u[k - 1] \in Nat /\ v[k - 1] \in Nat
                BY <4>1
            <4> QED
                BY <3>1, <4>2
        <3>2. CASE b = 1 \/ k = 0
            BY <1>1, <3>2
        <3> QED
            BY <3>1, <3>2
    <2> QED
        BY <2>1
<1>3. one \in V /\ \A u, v : Entry(1, u, v) = one
    OBVIOUS
<1>4. \A b \in 2..MaxBits : Hi[b] \in 1..b - 1 /\ Lo[b] \in 1..b - 1
    BY IndexHalves
<1> HIDE DEF V, Entry, one
<1>5. /\ \A b \in 1..MaxBits : E[b] \in [V \X V -> V]
      /\ \A b \in 1..MaxBits : \A u, v \in V : E[b][<<u, v>>] = Entry(b, u, v)
    <2>1. ASSUME NEW b \in 1..MaxBits, NEW x \in V \X V PROVE Entry(b, x[1], x[2]) \in V
        BY <1>2
    <2>2. ASSUME NEW b \in 1..MaxBits, NEW u \in V, NEW v \in V
          PROVE  E[b][<<u, v>>] = Entry(b, u, v)
        OBVIOUS
    <2> QED
        BY <2>1, <2>2
<1>6. PICK f \in [1..MaxBits -> V] : HalvingTable(f, MaxBits, one, E, Hi, Lo)
    <2> HIDE DEF E
    <2> QED
        BY <1>0, <1>3, <1>4, <1>5, HalvingTableExists
<1> HIDE DEF E
<1>7. ASSUME NEW b \in 1..MaxBits PROVE f[b] = Row(f, b)
    <2>1. f[b] = IF b = 1 THEN one ELSE E[b][<<f[Hi[b]], f[Lo[b]]>>]
        BY <1>6 DEF HalvingTable
    <2>2. CASE b = 1
        BY <1>3, <2>1, <2>2
    <2>3. CASE b # 1
        <3>1. b \in 2..MaxBits
            BY <1>0, <2>3
        <3>2. f[Hi[b]] \in V /\ f[Lo[b]] \in V /\ Hi[b] = CeilDiv(b, 2) /\ Lo[b] = b - CeilDiv(b, 2)
            BY <1>6, <3>1, IndexHalves
        <3>3. E[b][<<f[Hi[b]], f[Lo[b]]>>] = Entry(b, f[Hi[b]], f[Lo[b]])
            BY <1>5, <3>2
        <3> QED
            BY <2>1, <2>3, <3>2, <3>3
    <2> QED
        BY <2>2, <2>3
<1>8. f = [b \in 1..MaxBits |-> Row(f, b)]
    <2>1. f = [b \in 1..MaxBits |-> f[b]]
        BY <1>6
    <2> HIDE DEF Row
    <2> QED
        BY <1>7, <2>1
<1>9. OheBytes = [b \in 1..MaxBits |-> Row(OheBytes, b)]
    BY <1>8, Zenon DEF OheBytes, Row, Entry
<1> DEFINE G == OheBytes
<1>10. \A b \in 1..MaxBits : G[b] = Row(G, b)
    <2> HIDE DEF Row, G
    <2> QED
        BY <1>9 DEF G
<1> HIDE DEF G
<1>11. \A b \in 1..MaxBits : G[b] = f[b]
    <2>1. G[1] = f[1]
        BY <1>0, <1>3, <1>7, <1>10
    <2>2. ASSUME NEW b \in 2..MaxBits, G[Hi[b]] = f[Hi[b]], G[Lo[b]] = f[Lo[b]]
          PROVE  G[b] = f[b]
        <3>1. b \in 1..MaxBits
            BY <1>0
        <3> QED
            BY <1>7, <1>10, <2>2, <3>1, IndexHalves
    <2>3. HalvingAlike(G, f, MaxBits, Hi, Lo)
        BY <1>4, <2>1, <2>2 DEF HalvingAlike
    <2> QED
        BY <1>0, <2>3, HalvingAgree
<1>12. G \in [1..MaxBits -> V]
    <2>1. G = [b \in 1..MaxBits |-> G[b]]
        <3> HIDE DEF Row
        <3> QED
            BY <1>9, <1>10 DEF G
    <2> QED
        BY <1>6, <1>11, <2>1
<1>13. \A k \in 0..MaxDepth : G[1][k] = 0
    <2>1. G[1] = Entry(1, G[CeilDiv(1, 2)], G[1 - CeilDiv(1, 2)])
        BY <1>0, <1>10
    <2>2. ASSUME NEW u, NEW v
          PROVE  \A k \in 0..MaxDepth : Entry(1, u, v)[k] = 0
        BY DEF Entry
    <2> QED
        BY <2>1, <2>2
<1>14. ASSUME NEW b \in 2..MaxBits
       PROVE  /\ G[b][0] = CeilDiv(2^b, 8)
              /\ \A k \in 1..MaxDepth :
                    G[b][k] = G[CeilDiv(b, 2)][k - 1] + G[b - CeilDiv(b, 2)][k - 1]
    <2>1. b \in 1..MaxBits /\ b # 1 /\ 0 \in 0..MaxDepth
        BY <1>0
    <2>2. G[b] = Entry(b, G[CeilDiv(b, 2)], G[b - CeilDiv(b, 2)])
        BY <1>10, <2>1
    <2>3. ASSUME NEW u, NEW v
          PROVE  /\ Entry(b, u, v)[0] = CeilDiv(2^b, 8)
                 /\ \A k \in 1..MaxDepth : Entry(b, u, v)[k] = u[k - 1] + v[k - 1]
        <3>1. \A k \in 1..MaxDepth : k \in 0..MaxDepth /\ k # 0
            BY <1>0
        <3> QED
            BY <2>1, <3>1 DEF Entry
    <2> QED
        BY <2>2, <2>3
<1> QED
    BY <1>12, <1>13, <1>14 DEF G, V

\* No encoding is deeper than its table.
LEMMA DepthBound ==
    ASSUME NEW b \in 1..MaxBits
    PROVE  OheDepth[b] \in 0..MaxDepth
<1>0. MaxBits = 26 /\ MaxDepth = 5
    BY DEF MaxBits, MaxDepth
<1>1. \A c \in 1..1 : OheDepth[c] \in 0..0
    BY DepthTable
<1>2. \A c \in 1..2 : OheDepth[c] \in 0..1
    <2>1. CeilDiv(2, 2) = 1 /\ 2 \in 2..MaxBits
        BY <1>0 DEF CeilDiv
    <2>2. OheDepth[2] = 1 + OheDepth[1] /\ OheDepth[1] = 0
        BY <2>1, DepthTable
    <2> QED
        BY <2>2
<1>3. \A c \in 1..4 : OheDepth[c] \in 0..2
    <2> SUFFICES ASSUME NEW c \in 1..4 PROVE OheDepth[c] \in 0..2
        OBVIOUS
    <2>1. CASE c = 1
        BY <1>1, <2>1
    <2>2. CASE c # 1
        <3>1. c \in 2..MaxBits /\ CeilDiv(c, 2) \in 1..2
            BY <1>0, <2>2, IndexHalves DEF CeilDiv
        <3> QED
            BY <1>2, <3>1, DepthTable
    <2> QED
        BY <2>1, <2>2
<1>4. \A c \in 1..8 : OheDepth[c] \in 0..3
    <2> SUFFICES ASSUME NEW c \in 1..8 PROVE OheDepth[c] \in 0..3
        OBVIOUS
    <2>1. CASE c = 1
        BY <1>1, <2>1
    <2>2. CASE c # 1
        <3>1. c \in 2..MaxBits /\ CeilDiv(c, 2) \in 1..4
            BY <1>0, <2>2, IndexHalves DEF CeilDiv
        <3> QED
            BY <1>3, <3>1, DepthTable
    <2> QED
        BY <2>1, <2>2
<1>5. \A c \in 1..16 : OheDepth[c] \in 0..4
    <2> SUFFICES ASSUME NEW c \in 1..16 PROVE OheDepth[c] \in 0..4
        OBVIOUS
    <2>1. CASE c = 1
        BY <1>1, <2>1
    <2>2. CASE c # 1
        <3>1. c \in 2..MaxBits /\ CeilDiv(c, 2) \in 1..8
            BY <1>0, <2>2, IndexHalves DEF CeilDiv
        <3>2. OheDepth[c] = 1 + OheDepth[CeilDiv(c, 2)] /\ OheDepth[CeilDiv(c, 2)] \in 0..3
            BY <1>4, <3>1, DepthTable
        <3> QED
            BY <3>2
    <2> QED
        BY <2>1, <2>2
<1> QED
    <2>1. CASE b = 1
        BY <1>0, <1>1, <2>1
    <2>2. CASE b # 1
        <3>1. b \in 2..MaxBits /\ CeilDiv(b, 2) \in 1..16
            BY <1>0, <2>2, IndexHalves DEF CeilDiv
        <3>2. OheDepth[CeilDiv(b, 2)] \in 0..4
            BY <1>5, <3>1
        <3> QED
            BY <1>0, <3>1, <3>2, DepthTable
    <2> QED
        BY <2>1, <2>2

\* Rounding up to whole bytes costs less than a byte, and nothing from eight
\* bits on.
LEMMA ByteRounding ==
    ASSUME NEW b \in 1..MaxBits
    PROVE  /\ CeilDiv(Two(b), 8) \in Nat
           /\ 8 * CeilDiv(Two(b), 8) <= Two(b) + 7
           /\ b = 2 => 8 * CeilDiv(Two(b), 8) = Two(b) + 4
           /\ b > 2 => 8 * CeilDiv(Two(b), 8) = Two(b)
<1>0. MaxBits = 26
    BY DEF MaxBits
<1>1. Two(b) \in Nat
    BY <1>0, Powers
<1>2. \A x \in Nat : CeilDiv(x, 8) \in Nat /\ 8 * CeilDiv(x, 8) <= x + 7
    BY DEF CeilDiv
<1>3. ASSUME b = 2 PROVE 8 * CeilDiv(Two(b), 8) = Two(b) + 4
    <2>1. Two(b) = 4
        BY <1>3, PowerTable
    <2>2. CeilDiv(4, 8) = 1
        BY DEF CeilDiv
    <2> QED
        BY <2>1, <2>2
<1>4. ASSUME b > 2 PROVE 8 * CeilDiv(Two(b), 8) = Two(b)
    <2> DEFINE y == Two(b - 3)
    <2>1. 3 + (b - 3) = b /\ b - 3 \in 0..32 /\ b - 3 \in Nat /\ 3 \in Nat
        BY <1>0, <1>4
    <2>2. Two(b) = Two(3) * y /\ Two(3) = 8
        BY <1>0, <2>1, PowerSum, PowerTable
    <2>3. y \in Nat
        BY <2>1, Powers
    <2> HIDE DEF y
    <2>4. CeilDiv(8 * y, 8) = y
        BY <2>3 DEF CeilDiv
    <2> QED
        BY <2>2, <2>3, <2>4
<1> QED
    BY <1>1, <1>2, <1>3, <1>4

\* The rounds of prc_protocol, one by one.
LEMMA PlanShape ==
    ASSUME NEW a \in 1..MaxBits, NEW b \in 1..MaxBits
    PROVE  LET D == OheLayers(a, b)
               plan == PrcProtocol(a, b)
           IN  /\ D \in 0..MaxDepth
               /\ Len(plan) = D + 3 /\ DOMAIN plan = 1..D + 3
               /\ \A i \in 1..D :
                     /\ plan[i].kind = "beaver"
                     /\ plan[i].need = OheBytes[a][D - i] + OheBytes[b][D - i]
               /\ plan[D + 1].kind = "beaver" /\ plan[D + 1].need = CeilDiv(Two(b), 8)
               /\ plan[D + 2].kind = "dabit" /\ plan[D + 2].need = a + b + 1
               /\ plan[D + 3].kind = "commit"
<1> DEFINE D == OheLayers(a, b)
           plan == PrcProtocol(a, b)
           s == [i \in 1..D |-> [kind |-> "beaver", need |-> OheBytes[a][D - i] + OheBytes[b][D - i]]]
           t == <<PirRound(b), ConvRound(a, b), CommitRound>>
           K == {"beaver", "dabit", "commit"}
<1>1. D \in 0..MaxDepth /\ D \in Nat
    BY DepthBound DEF OheLayers, MaxDepth
<1>2. plan = s \o t
    BY DEF PrcProtocol, OheRounds
<1> HIDE DEF D
<1>3. \A i \in 1..D : OheBytes[a][D - i] \in Nat /\ OheBytes[b][D - i] \in Nat
    <2> SUFFICES ASSUME NEW i \in 1..D
                 PROVE  OheBytes[a][D - i] \in Nat /\ OheBytes[b][D - i] \in Nat
        OBVIOUS
    <2>1. D - i \in 0..MaxDepth
        BY <1>1 DEF MaxDepth
    <2> QED
        BY <2>1, BytesTable
<1>4. s \in Seq([kind : K, need : Nat]) /\ Len(s) = D
    BY <1>1, <1>3
<1>5. t \in Seq([kind : K, need : Nat]) /\ Len(t) = 3
    <2>1. CeilDiv(2^b, 8) \in Nat
        BY ByteRounding DEF Two
    <2>2. a + b + 1 \in Nat
        BY DEF MaxBits
    <2> QED
        BY <2>1, <2>2 DEF PirRound, ConvRound, CommitRound
<1>6. /\ t[1].kind = "beaver" /\ t[1].need = CeilDiv(Two(b), 8)
      /\ t[2].kind = "dabit" /\ t[2].need = a + b + 1
      /\ t[3].kind = "commit"
    BY DEF PirRound, ConvRound, CommitRound, Two
<1>7. \A i \in 1..D :
          s[i].kind = "beaver" /\ s[i].need = OheBytes[a][D - i] + OheBytes[b][D - i]
    OBVIOUS
<1> HIDE DEF s, t, plan, K
<1>8. /\ Len(plan) = D + 3 /\ DOMAIN plan = 1..D + 3
      /\ \A i \in 1..D : plan[i] = s[i]
      /\ plan[D + 1] = t[1] /\ plan[D + 2] = t[2] /\ plan[D + 3] = t[3]
    <2> DEFINE R == [kind : K, need : Nat]
    <2>1. /\ s \o t \in Seq(R)
          /\ Len(s \o t) = D + 3
          /\ \A i \in 1..D + 3 : (s \o t)[i] = IF i <= D THEN s[i] ELSE t[i - D]
        <3>1. s \in Seq(R) /\ t \in Seq(R) /\ Len(s) = D /\ Len(t) = 3
            BY <1>4, <1>5
        <3> HIDE DEF R
        <3>2. /\ s \o t \in Seq(R)
              /\ Len(s \o t) = Len(s) + Len(t)
              /\ \A i \in 1..Len(s) + Len(t) :
                    (s \o t)[i] = IF i <= Len(s) THEN s[i] ELSE t[i - Len(s)]
            BY <3>1, ConcatProperties
        <3> QED
            BY <3>1, <3>2
    <2>2. /\ \A i \in 1..D : i \in 1..D + 3 /\ i <= D
          /\ D + 1 \in 1..D + 3 /\ D + 2 \in 1..D + 3 /\ D + 3 \in 1..D + 3
          /\ (D + 1) - D = 1 /\ (D + 2) - D = 2 /\ (D + 3) - D = 3
          /\ ~(D + 1 <= D) /\ ~(D + 2 <= D) /\ ~(D + 3 <= D)
        BY <1>1
    <2>3. DOMAIN plan = 1..D + 3 /\ Len(plan) = D + 3
        BY <1>2, <2>1
    <2> QED
        BY <1>2, <2>1, <2>2, <2>3
<1> QED
    BY <1>1, <1>6, <1>7, <1>8 DEF D, plan

----------------------------------------------------------------------------
(* The tables of QueryPlan.                                                *)

\* The AND gates of an encoding.
LEMMA GateBitsTable ==
    /\ OheGateBits \in [1..MaxBits -> Nat]
    /\ OheGateBits[1] = 0
    /\ \A b \in 2..MaxBits :
          OheGateBits[b] = 2^b + OheGateBits[CeilDiv(b, 2)] + OheGateBits[b - CeilDiv(b, 2)]
<1> DEFINE E == [b \in 1..MaxBits |-> [x \in Nat \X Nat |-> 2^b + x[1] + x[2]]]
           Row(f, b) == IF b = 1 THEN 0 ELSE 2^b + f[CeilDiv(b, 2)] + f[b - CeilDiv(b, 2)]
<1>0. MaxBits \in Nat /\ 1 \in 1..MaxBits /\ MaxBits <= 32
    BY DEF MaxBits
<1>1. \A b \in 1..MaxBits : 2^b \in Nat
    <2> SUFFICES ASSUME NEW b \in 1..MaxBits PROVE 2^b \in Nat
        OBVIOUS
    <2>1. b \in 0..32
        BY <1>0
    <2> QED
        BY <2>1, PowerNat
<1>2. \A b \in 1..MaxBits : E[b] \in [Nat \X Nat -> Nat]
    BY <1>1
<1>3. \A b \in 2..MaxBits : Hi[b] \in 1..b - 1 /\ Lo[b] \in 1..b - 1
    BY IndexHalves
<1>4. PICK f \in [1..MaxBits -> Nat] : HalvingTable(f, MaxBits, 0, E, Hi, Lo)
    <2> HIDE DEF E
    <2> QED
        BY <1>0, <1>2, <1>3, HalvingTableExists
<1>5. ASSUME NEW b \in 1..MaxBits PROVE f[b] = Row(f, b)
    <2>1. f[b] = IF b = 1 THEN 0 ELSE E[b][<<f[Hi[b]], f[Lo[b]]>>]
        BY <1>4 DEF HalvingTable
    <2>2. CASE b = 1
        BY <2>1, <2>2
    <2>3. CASE b # 1
        <3>1. b \in 2..MaxBits
            BY <1>0, <2>3
        <3>2. <<f[Hi[b]], f[Lo[b]]>> \in Nat \X Nat
            BY <1>4, <3>1, IndexHalves
        <3>3. E[b][<<f[Hi[b]], f[Lo[b]]>>] = 2^b + f[Hi[b]] + f[Lo[b]]
            BY <3>2
        <3> QED
            BY <2>1, <2>3, <3>1, <3>3, IndexHalves
    <2> QED
        BY <2>2, <2>3
<1>6. f = [b \in 1..MaxBits |-> Row(f, b)]
    <2>1. f = [b \in 1..MaxBits |-> f[b]]
        BY <1>4
    <2> HIDE DEF Row
    <2> QED
        BY <1>5, <2>1
<1>7. OheGateBits = [b \in 1..MaxBits |-> Row(OheGateBits, b)]
    BY <1>6, Zenon DEF OheGateBits
<1> DEFINE G == OheGateBits
<1>8. \A b \in 1..MaxBits : G[b] = Row(G, b)
    <2> HIDE DEF Row, G
    <2> QED
        BY <1>7 DEF G
<1> HIDE DEF G
<1>9. \A b \in 1..MaxBits : G[b] = f[b]
    <2>1. G[1] = f[1]
        BY <1>0, <1>5, <1>8
    <2>2. ASSUME NEW b \in 2..MaxBits, G[Hi[b]] = f[Hi[b]], G[Lo[b]] = f[Lo[b]]
          PROVE  G[b] = f[b]
        <3>1. b \in 1..MaxBits /\ b # 1
            BY <1>0
        <3> QED
            BY <1>5, <1>8, <2>2, <3>1, IndexHalves
    <2>3. HalvingAlike(G, f, MaxBits, Hi, Lo)
        BY <1>3, <2>1, <2>2 DEF HalvingAlike
    <2> QED
        BY <1>0, <2>3, HalvingAgree
<1>10. G \in [1..MaxBits -> Nat]
    <2>1. G = [b \in 1..MaxBits |-> G[b]]
        <3> HIDE DEF Row
        <3> QED
            BY <1>7, <1>8 DEF G
    <2> QED
        BY <1>4, <1>9, <2>1
<1>11. \A b \in 2..MaxBits : b \in 1..MaxBits /\ b # 1
    BY <1>0
<1> QED
    BY <1>0, <1>8, <1>10, <1>11 DEF G

----------------------------------------------------------------------------
(* Bounds.                                                                 *)

\* Powers of two grow.
LEMMA PowerUpTo ==
    ASSUME NEW a \in Nat, NEW b \in Nat, a <= b, b <= 32
    PROVE  Two(a) <= Two(b) /\ Two(a) \in Nat /\ Two(b) \in Nat
<1> DEFINE d == b - a
<1>1. d \in Nat /\ a + d = b /\ a \in 0..32 /\ d \in 0..32 /\ b \in 0..32
    OBVIOUS
<1> HIDE DEF d
<1>2. Two(b) = Two(a) * Two(d)
    BY <1>1, PowerSum
<1>3. Two(a) \in Nat \ {0} /\ Two(d) \in Nat \ {0} /\ Two(b) \in Nat \ {0}
    BY <1>1, Powers
<1>4. \A x, y \in Nat \ {0} : x <= x * y
    <2> SUFFICES ASSUME NEW x \in Nat \ {0}, NEW y \in Nat \ {0} PROVE x <= x * y
        OBVIOUS
    <2> DEFINE z == y - 1
    <2>1. z \in Nat /\ y = z + 1
        OBVIOUS
    <2> HIDE DEF z
    <2>2. x * (z + 1) = x * z + x /\ x * z \in Nat
        BY <2>1
    <2> QED
        BY <2>1, <2>2
<1> QED
    BY <1>2, <1>3, <1>4

\* The comment above the formula of init_seeded_correlated_randomness: an
\* encoding of b bits has at most 1.5 * 2^b gates.
LEMMA GateBound ==
    ASSUME NEW b \in 1..MaxBits
    PROVE  2 * OheGateBits[b] <= 3 * Two(b)
<1> DEFINE Bad == {c \in 1..MaxBits : ~(2 * OheGateBits[c] <= 3 * Two(c))}
<1> SUFFICES ASSUME Bad # {} PROVE FALSE
    OBVIOUS
<1>0. MaxBits = 26
    BY DEF MaxBits
<1>1. Bad \in SUBSET Nat
    OBVIOUS
<1>2. PICK c \in Bad : \A d \in Bad : c <= d
    <2> HIDE DEF Bad
    <2> QED
        BY <1>1, SmallestNumber
<1>3. \A d \in 1..MaxBits : d < c => 2 * OheGateBits[d] <= 3 * Two(d)
    BY <1>2
<1>4. c \in 1..MaxBits /\ ~(2 * OheGateBits[c] <= 3 * Two(c))
    BY <1>2
<1> HIDE DEF Bad
<1>5. /\ OheGateBits[1] = 0
      /\ \A d \in 2..MaxBits :
            OheGateBits[d] = Two(d) + OheGateBits[CeilDiv(d, 2)] + OheGateBits[d - CeilDiv(d, 2)]
    BY GateBitsTable DEF Two
<1>6. OheGateBits \in [1..MaxBits -> Nat]
    BY GateBitsTable
<1>7. Two(1) = 2 /\ Two(2) = 4 /\ Two(3) = 8 /\ Two(4) = 16 /\ Two(5) = 32
    BY PowerTable
<1>8. OheGateBits[2] = 4 /\ OheGateBits[3] = 12 /\ OheGateBits[4] = 24 /\ OheGateBits[5] = 48
    <2>1. CeilDiv(2, 2) = 1 /\ CeilDiv(3, 2) = 2 /\ CeilDiv(4, 2) = 2 /\ CeilDiv(5, 2) = 3
        BY DEF CeilDiv
    <2>2. 2 \in 2..MaxBits /\ 3 \in 2..MaxBits /\ 4 \in 2..MaxBits /\ 5 \in 2..MaxBits
        BY <1>0
    <2>3. OheGateBits[2] = Two(2) + OheGateBits[1] + OheGateBits[1]
        BY <1>5, <2>1, <2>2
    <2>4. OheGateBits[3] = Two(3) + OheGateBits[2] + OheGateBits[1]
        BY <1>5, <2>1, <2>2
    <2>5. OheGateBits[4] = Two(4) + OheGateBits[2] + OheGateBits[2]
        BY <1>5, <2>1, <2>2
    <2>6. OheGateBits[5] = Two(5) + OheGateBits[3] + OheGateBits[2]
        BY <1>5, <2>1, <2>2
    <2> QED
        BY <1>5, <1>7, <2>3, <2>4, <2>5, <2>6
<1>9. c \in 6..26
    BY <1>0, <1>4, <1>5, <1>7, <1>8
<1> DEFINE hi == CeilDiv(c, 2)
           lo == c - CeilDiv(c, 2)
<1>10. /\ hi \in 1..c - 3 /\ lo \in 1..c - 3
       /\ hi \in 1..MaxBits /\ lo \in 1..MaxBits
    BY <1>0, <1>9 DEF CeilDiv
<1> HIDE DEF hi, lo
<1>11. 2 * OheGateBits[hi] <= 3 * Two(hi) /\ 2 * OheGateBits[lo] <= 3 * Two(lo)
    BY <1>3, <1>9, <1>10
<1>12. /\ Two(hi) <= Two(c - 3) /\ Two(lo) <= Two(c - 3)
       /\ Two(hi) \in Nat /\ Two(lo) \in Nat /\ Two(c - 3) \in Nat
    <2>1. hi <= c - 3 /\ lo <= c - 3 /\ c - 3 <= 32 /\ hi \in Nat /\ lo \in Nat /\ c - 3 \in Nat
        BY <1>9, <1>10
    <2> QED
        BY <2>1, PowerUpTo
<1>13. Two(c) = 8 * Two(c - 3)
    <2>1. c - 3 \in 0..32 /\ c - 2 \in 0..32 /\ c - 1 \in 0..32
        BY <1>9
    <2>2. (c - 3) + 1 = c - 2 /\ (c - 2) + 1 = c - 1 /\ (c - 1) + 1 = c
        BY <1>9
    <2>3. Two(c - 2) = 2 * Two(c - 3) /\ Two(c - 1) = 2 * Two(c - 2) /\ Two(c) = 2 * Two(c - 1)
        BY <2>1, <2>2, Powers
    <2> QED
        BY <1>12, <2>3
<1>14. OheGateBits[c] = Two(c) + OheGateBits[hi] + OheGateBits[lo]
    BY <1>0, <1>5, <1>9 DEF hi, lo
<1>15. OheGateBits[c] \in Nat /\ OheGateBits[hi] \in Nat /\ OheGateBits[lo] \in Nat
    BY <1>4, <1>6, <1>10
<1> QED
    BY <1>4, <1>11, <1>12, <1>13, <1>14, <1>15

\* The bytes that an encoding of b bits takes of the d highest layers, in the
\* order in which they run.
LayerSum(b, d) == SumOn([i \in 1..d |-> OheBytes[b][d - i]], 1..d)

\* The layers of an encoding are its own ticket and those of its halves.
LEMMA LayerSumStep ==
    ASSUME NEW b \in 1..MaxBits, NEW d \in 0..MaxDepth
    PROVE  /\ LayerSum(b, d) \in Nat
           /\ d = 0 \/ b = 1 => LayerSum(b, d) = 0
           /\ d # 0 /\ b # 1 =>
                 LayerSum(b, d) =
                     CeilDiv(Two(b), 8)
                         + (LayerSum(CeilDiv(b, 2), d - 1) + LayerSum(b - CeilDiv(b, 2), d - 1))
<1> DEFINE f == [i \in 1..d |-> OheBytes[b][d - i]]
<1>0. MaxDepth \in Nat /\ MaxBits \in Nat
    BY DEF MaxDepth, MaxBits
<1>1. IsFiniteSet(1..d) /\ \A i \in 1..d : d - i \in 0..MaxDepth
    BY <1>0, FS_Interval
<1>2. \A i \in 1..d : f[i] \in Nat
    BY <1>1, BytesTable
<1>3. LayerSum(b, d) = SumOn(f, 1..d)
    BY DEF LayerSum
<1>4. LayerSum(b, d) \in Nat
    <2> HIDE DEF f
    <2> QED
        BY <1>1, <1>2, <1>3, SumNat
<1>5. ASSUME d = 0 \/ b = 1 PROVE LayerSum(b, d) = 0
    <2>1. \A i \in 1..d : f[i] = 0
        BY <1>1, <1>5, BytesTable
    <2> HIDE DEF f
    <2> QED
        BY <1>1, <1>3, <2>1, SumZero
<1>6. ASSUME d # 0, b # 1
      PROVE  LayerSum(b, d) =
                 CeilDiv(Two(b), 8)
                     + (LayerSum(CeilDiv(b, 2), d - 1) + LayerSum(b - CeilDiv(b, 2), d - 1))
    <2> DEFINE hi == CeilDiv(b, 2)
               lo == b - CeilDiv(b, 2)
               e == d - 1
               g == [i \in 1..e |-> OheBytes[hi][e - i]]
               h == [i \in 1..e |-> OheBytes[lo][e - i]]
    <2>1. b \in 2..MaxBits /\ d \in 1..d /\ (1..d) \ {d} = 1..e /\ e \in 0..MaxDepth
        BY <1>0, <1>6
    <2>2. f[d] = CeilDiv(Two(b), 8)
        <3>1. d - d = 0
            OBVIOUS
        <3> QED
            BY <2>1, <3>1, BytesTable DEF Two
    <2>3. hi \in 1..MaxBits /\ lo \in 1..MaxBits
        BY <2>1, IndexHalves
    <2>4. ASSUME NEW i \in 1..e
          PROVE  g[i] \in Nat /\ h[i] \in Nat /\ f[i] = g[i] + h[i]
        <3>1. d - i \in 1..MaxDepth /\ (d - i) - 1 = e - i /\ e - i \in 0..MaxDepth /\ i \in 1..d
            BY <1>0, <2>1
        <3>2. OheBytes[b][d - i] = OheBytes[hi][(d - i) - 1] + OheBytes[lo][(d - i) - 1]
            BY <2>1, <3>1, BytesTable
        <3>3. g[i] = OheBytes[hi][e - i] /\ h[i] = OheBytes[lo][e - i] /\ f[i] = OheBytes[b][d - i]
            BY <3>1
        <3>4. OheBytes[hi][e - i] \in Nat /\ OheBytes[lo][e - i] \in Nat
            <4> HIDE DEF hi, lo, e
            <4> QED
                BY <2>3, <3>1, BytesTable
        <3> QED
            BY <3>1, <3>2, <3>3, <3>4
    <2>5. LayerSum(hi, e) = SumOn(g, 1..e) /\ LayerSum(lo, e) = SumOn(h, 1..e)
        BY DEF LayerSum
    <2>6. IsFiniteSet(1..e)
        BY <1>0, <2>1, FS_Interval
    <2> HIDE DEF f, g, h, hi, lo, e
    <2>7. SumOn(f, 1..d) = f[d] + SumOn(f, 1..e)
        <3> DEFINE S == 1..d
        <3>1. IsFiniteSet(S) /\ d \in S /\ \A i \in S : f[i] \in Int
            BY <1>1, <1>2, <2>1
        <3> HIDE DEF S
        <3>2. \A y \in S : SumOn(f, S) = f[y] + SumOn(f, S \ {y})
            BY <3>1, SumRemove
        <3> QED
            BY <2>1, <3>1, <3>2 DEF S
    <2>8. SumOn(f, 1..e) = SumOn(g, 1..e) + SumOn(h, 1..e)
        <3> DEFINE S == 1..e
        <3>1. IsFiniteSet(S) /\ \A i \in S : g[i] \in Int /\ h[i] \in Int /\ f[i] = g[i] + h[i]
            BY <2>4, <2>6
        <3> HIDE DEF S
        <3>2. SumOn(f, S) = SumOn(g, S) + SumOn(h, S)
            BY <3>1, SumPlus
        <3> QED
            BY <3>2 DEF S
    <2> QED
        BY <1>3, <2>2, <2>5, <2>7, <2>8 DEF hi, lo, e
<1> QED
    BY <1>4, <1>5, <1>6

\* The tickets of an encoding of b bits are its gates and at most 2 * b bits of
\* padding: only the encodings of two bits do not fill their bytes.
LEMMA LayerSumBound ==
    ASSUME NEW b \in 1..MaxBits, NEW d \in 0..MaxDepth
    PROVE  8 * LayerSum(b, d) <= OheGateBits[b] + 2 * b
<1> DEFINE Ok(c) == \A e \in 0..MaxDepth : 8 * LayerSum(c, e) <= OheGateBits[c] + 2 * c
           Bad == {c \in 1..MaxBits : ~Ok(c)}
<1> SUFFICES ASSUME Bad # {} PROVE FALSE
    OBVIOUS
<1>1. Bad \in SUBSET Nat
    OBVIOUS
<1>2. PICK c \in Bad : \A x \in Bad : c <= x
    <2> HIDE DEF Bad
    <2> QED
        BY <1>1, SmallestNumber
<1>3. c \in 1..MaxBits /\ ~Ok(c) /\ \A x \in 1..MaxBits : x < c => Ok(x)
    BY <1>2
<1> HIDE DEF Bad
<1>4. PICK e \in 0..MaxDepth : ~(8 * LayerSum(c, e) <= OheGateBits[c] + 2 * c)
    BY <1>3
<1>5. OheGateBits[c] \in Nat /\ MaxDepth \in Nat /\ MaxBits \in Nat
    BY <1>3, GateBitsTable DEF MaxDepth, MaxBits
<1>6. c # 1 /\ e # 0
    BY <1>3, <1>4, <1>5, LayerSumStep
<1> DEFINE hi == CeilDiv(c, 2)
           lo == c - CeilDiv(c, 2)
           y == CeilDiv(Two(c), 8)
<1>7. /\ c \in 2..MaxBits /\ e - 1 \in 0..MaxDepth
      /\ hi \in 1..c - 1 /\ lo \in 1..c - 1 /\ hi \in 1..MaxBits /\ lo \in 1..MaxBits
      /\ hi + lo = c
    <2>1. c \in 2..MaxBits /\ e - 1 \in 0..MaxDepth
        BY <1>3, <1>5, <1>6
    <2> QED
        BY <2>1, IndexHalves
<1>8. LayerSum(c, e) = y + (LayerSum(hi, e - 1) + LayerSum(lo, e - 1))
    BY <1>3, <1>6, LayerSumStep
<1>9. OheGateBits[c] = Two(c) + OheGateBits[hi] + OheGateBits[lo]
    BY <1>7, GateBitsTable DEF Two
<1>10. Two(c) \in Nat /\ y \in Nat
    <2>1. c \in 0..32
        BY <1>3 DEF MaxBits
    <2> QED
        BY <1>3, <2>1, Powers, ByteRounding
<1> HIDE DEF hi, lo, y
<1>11. /\ LayerSum(hi, e - 1) \in Nat /\ LayerSum(lo, e - 1) \in Nat
       /\ OheGateBits[hi] \in Nat /\ OheGateBits[lo] \in Nat
    BY <1>7, LayerSumStep, GateBitsTable
<1>12. CASE c = 2
    <2>1. hi = 1 /\ lo = 1
        BY <1>7, <1>12
    <2>2. LayerSum(hi, e - 1) = 0 /\ LayerSum(lo, e - 1) = 0
        BY <1>7, <2>1, LayerSumStep
    <2>3. 8 * y = Two(c) + 4
        BY <1>3, <1>12, ByteRounding DEF y
    <2> QED
        BY <1>4, <1>8, <1>9, <1>10, <1>11, <1>12, <2>2, <2>3
<1>13. CASE c # 2
    <2>1. 8 * y = Two(c)
        <3>1. c > 2
            BY <1>7, <1>13
        <3> QED
            BY <1>3, <3>1, ByteRounding DEF y
    <2>2. /\ 8 * LayerSum(hi, e - 1) <= OheGateBits[hi] + 2 * hi
          /\ 8 * LayerSum(lo, e - 1) <= OheGateBits[lo] + 2 * lo
        <3>1. Ok(hi) /\ Ok(lo)
            <4> HIDE DEF Ok
            <4> QED
                BY <1>3, <1>7
        <3> QED
            BY <1>7, <3>1
    <2> QED
        BY <1>4, <1>7, <1>8, <1>9, <1>10, <1>11, <2>1, <2>2
<1> QED
    BY <1>12, <1>13

----------------------------------------------------------------------------
(* What a query takes.                                                     *)

\* The triples and the daBits of a query.
LEMMA QueryTakes ==
    ASSUME NEW a \in 1..MaxBits, NEW b \in 1..MaxBits
    PROVE  LET D == OheLayers(a, b)
               plan == PrcProtocol(a, b)
           IN  /\ TakenBy(plan, "beaver") =
                     LayerSum(a, D) + LayerSum(b, D) + CeilDiv(Two(b), 8)
               /\ TakenBy(plan, "dabit") = a + b + 1
<1> DEFINE D == OheLayers(a, b)
           plan == PrcProtocol(a, b)
           take(kind) == [r \in DOMAIN plan |-> IF plan[r].kind = kind THEN plan[r].need ELSE 0]
           f == take("beaver")
           h == take("dabit")
           c == CeilDiv(Two(b), 8)
<1>1. /\ D \in 0..MaxDepth /\ DOMAIN plan = 1..D + 3
      /\ \A i \in 1..D :
            /\ plan[i].kind = "beaver"
            /\ plan[i].need = OheBytes[a][D - i] + OheBytes[b][D - i]
      /\ plan[D + 1].kind = "beaver" /\ plan[D + 1].need = c
      /\ plan[D + 2].kind = "dabit" /\ plan[D + 2].need = a + b + 1
      /\ plan[D + 3].kind = "commit"
    BY PlanShape
<1> HIDE DEF D, plan, c
<1>2. /\ D \in Nat /\ D + 1 \in 1..D + 3 /\ D + 2 \in 1..D + 3 /\ D + 3 \in 1..D + 3
      /\ \A i \in 1..D : i \in 1..D + 3
      /\ a + b + 1 \in Nat
    <2>1. D \in Nat
        BY <1>1 DEF MaxDepth
    <2>2. a + b + 1 \in Nat
        BY DEF MaxBits
    <2> QED
        BY <2>1, <2>2
<1>3. /\ \A i \in 1..D : f[i] = OheBytes[a][D - i] + OheBytes[b][D - i] /\ h[i] = 0
      /\ f[D + 1] = c /\ h[D + 1] = 0
      /\ f[D + 2] = 0 /\ h[D + 2] = a + b + 1
      /\ f[D + 3] = 0 /\ h[D + 3] = 0
    BY <1>1, <1>2
<1>4. TakenBy(plan, "beaver") = SumOn(f, 1..D + 3) /\ TakenBy(plan, "dabit") = SumOn(h, 1..D + 3)
    BY <1>1 DEF TakenBy, SumFunction, SumOn
<1> HIDE DEF D, plan, take, f, h, c
<1>5. \A i \in 1..D : OheBytes[a][D - i] \in Nat /\ OheBytes[b][D - i] \in Nat
    <2> SUFFICES ASSUME NEW i \in 1..D
                 PROVE  OheBytes[a][D - i] \in Nat /\ OheBytes[b][D - i] \in Nat
        OBVIOUS
    <2>1. D - i \in 0..MaxDepth
        BY <1>1 DEF MaxDepth
    <2> QED
        BY <2>1, BytesTable
<1>6. c \in Nat
    BY ByteRounding DEF c
<1>7. \A i \in 1..D + 3 : f[i] \in Int /\ h[i] \in Int
    <2> SUFFICES ASSUME NEW i \in 1..D + 3 PROVE f[i] \in Int /\ h[i] \in Int
        OBVIOUS
    <2>1. i \in 1..D \/ i = D + 1 \/ i = D + 2 \/ i = D + 3
        BY <1>2
    <2> QED
        BY <1>2, <1>3, <1>5, <1>6, <2>1
<1>8. ASSUME NEW g, \A i \in 1..D + 3 : g[i] \in Int
      PROVE  /\ SumOn(g, 1..D + 3) = SumOn(g, 1..D) + g[D + 1] + g[D + 2] + g[D + 3]
             /\ SumOn(g, 1..D) \in Int
    <2>1. SumOn(g, 1..D + 1) = SumOn(g, 1..D) + g[D + 1] /\ SumOn(g, 1..D) \in Int
        <3>1. \A i \in 1..D + 1 : g[i] \in Int
            BY <1>2, <1>8
        <3> QED
            BY <1>2, <3>1, SumNext
    <2>2. SumOn(g, 1..D + 2) = SumOn(g, 1..D + 1) + g[D + 2]
        <3> DEFINE m == D + 1
        <3>1. m \in Nat /\ m + 1 = D + 2 /\ \A i \in 1..m + 1 : g[i] \in Int
            BY <1>2, <1>8
        <3> HIDE DEF m
        <3>2. SumOn(g, 1..m + 1) = SumOn(g, 1..m) + g[m + 1]
            BY <3>1, SumNext
        <3> QED
            BY <3>1, <3>2 DEF m
    <2>3. SumOn(g, 1..D + 3) = SumOn(g, 1..D + 2) + g[D + 3]
        <3> DEFINE m == D + 2
        <3>1. m \in Nat /\ m + 1 = D + 3 /\ \A i \in 1..m + 1 : g[i] \in Int
            BY <1>2, <1>8
        <3> HIDE DEF m
        <3>2. SumOn(g, 1..m + 1) = SumOn(g, 1..m) + g[m + 1]
            BY <3>1, SumNext
        <3> QED
            BY <3>1, <3>2 DEF m
    <2> QED
        BY <2>1, <2>2, <2>3
<1>9. IsFiniteSet(1..D)
    BY <1>2, FS_Interval
<1>10. SumOn(h, 1..D) = 0
    BY <1>3, <1>9, SumZero
<1>11. SumOn(f, 1..D) = LayerSum(a, D) + LayerSum(b, D)
    <2> DEFINE u == [i \in 1..D |-> OheBytes[a][D - i]]
               v == [i \in 1..D |-> OheBytes[b][D - i]]
    <2>1. \A i \in 1..D : u[i] \in Int /\ v[i] \in Int /\ f[i] = u[i] + v[i]
        BY <1>3, <1>5
    <2>2. LayerSum(a, D) = SumOn(u, 1..D) /\ LayerSum(b, D) = SumOn(v, 1..D)
        BY DEF LayerSum
    <2> DEFINE S == 1..D
    <2>3. IsFiniteSet(S) /\ \A i \in S : u[i] \in Int /\ v[i] \in Int /\ f[i] = u[i] + v[i]
        BY <1>9, <2>1
    <2> HIDE DEF u, v, S
    <2>4. SumOn(f, S) = SumOn(u, S) + SumOn(v, S)
        BY <2>3, SumPlus
    <2> QED
        BY <2>2, <2>4 DEF S
<1>12. SumOn(f, 1..D + 3) = SumOn(f, 1..D) + c /\ SumOn(h, 1..D + 3) = a + b + 1
    <2>1. SumOn(f, 1..D + 3) = SumOn(f, 1..D) + f[D + 1] + f[D + 2] + f[D + 3] /\ SumOn(f, 1..D) \in Int
        BY <1>7, <1>8
    <2>2. SumOn(h, 1..D + 3) = SumOn(h, 1..D) + h[D + 1] + h[D + 2] + h[D + 3]
        BY <1>7, <1>8
    <2> QED
        <3>1. /\ f[D + 1] = c /\ f[D + 2] = 0 /\ f[D + 3] = 0
              /\ h[D + 1] = 0 /\ h[D + 2] = a + b + 1 /\ h[D + 3] = 0
              /\ a + b + 1 \in Nat
            BY <1>2, <1>3
        <3> QED
            BY ONLY <1>6, <1>10, <2>1, <2>2, <3>1
<1> QED
    BY <1>4, <1>11, <1>12 DEF D, plan, c

\* n queries take n times as much as one.
LEMMA SessionTakes ==
    ASSUME NEW a \in 1..MaxBits, NEW b \in 1..MaxBits, NEW m \in Nat,
           NEW kind \in {"beaver", "dabit"}
    PROVE  /\ TakenBy(Session(a, b, m), kind) = m * TakenBy(PrcProtocol(a, b), kind)
           /\ TakenBy(PrcProtocol(a, b), kind) \in Int
<1> DEFINE D == OheLayers(a, b)
           plan == PrcProtocol(a, b)
           L == Len(plan)
           s == Session(a, b, m)
           need(x) == IF x.kind = kind THEN x.need ELSE 0
           g == [r \in DOMAIN plan |-> need(plan[r])]
           f == [r \in DOMAIN s |-> need(s[r])]
<1>0. /\ D \in 0..MaxDepth /\ Len(plan) = D + 3 /\ DOMAIN plan = 1..D + 3
      /\ \A i \in 1..D :
            /\ plan[i].kind = "beaver"
            /\ plan[i].need = OheBytes[a][D - i] + OheBytes[b][D - i]
      /\ plan[D + 1].kind = "beaver" /\ plan[D + 1].need = CeilDiv(Two(b), 8)
      /\ plan[D + 2].kind = "dabit" /\ plan[D + 2].need = a + b + 1
      /\ plan[D + 3].kind = "commit"
    BY PlanShape
<1>1. L = D + 3 /\ DOMAIN plan = 1..L
    BY <1>0
<1>2. /\ s = [i \in 1..m * L |-> plan[((i - 1) % L) + 1]]
      /\ TakenBy(plan, kind) = SumOn(g, DOMAIN plan)
      /\ TakenBy(s, kind) = SumOn(f, DOMAIN s)
    BY DEF Session, TakenBy, SumFunction, SumOn
<1> HIDE DEF D, plan, L, s
<1>3. L \in Nat \ {0} /\ MaxDepth \in Nat /\ a + b + 1 \in Int
    <2>1. MaxDepth \in Nat
        BY DEF MaxDepth
    <2>2. a \in Int /\ b \in Int
        BY DEF MaxBits
    <2>3. D \in Nat
        BY <1>0, <2>1
    <2>4. L \in Nat \ {0}
        BY ONLY <1>1, <2>3
    <2> QED
        BY <2>1, <2>2, <2>4
<1>4. \A j \in 1..L : g[j] \in Int
    <2> SUFFICES ASSUME NEW j \in 1..L PROVE need(plan[j]) \in Int
        BY <1>1
    <2>1. j \in 1..D \/ j = D + 1 \/ j = D + 2 \/ j = D + 3
        BY <1>0, <1>1, <1>3
    <2>2. CASE j \in 1..D
        <3>1. D - j \in 0..MaxDepth
            BY <1>0, <1>1, <1>3, <2>2
        <3>2. OheBytes[a][D - j] \in Nat /\ OheBytes[b][D - j] \in Nat
            BY <3>1, BytesTable
        <3>3. plan[j].need = OheBytes[a][D - j] + OheBytes[b][D - j]
            BY ONLY <1>0, <2>2
        <3>4. plan[j].need \in Int
            BY ONLY <3>2, <3>3
        <3> QED
            BY <3>4
    <2>3. CASE j = D + 1
        <3>1. plan[j].need \in Int
            BY <1>0, <1>1, <2>3, ByteRounding
        <3> QED
            BY <3>1
    <2>4. CASE j = D + 2
        <3>1. plan[j].need \in Int
            BY <1>0, <1>1, <1>3, <2>4
        <3> QED
            BY <3>1
    <2>5. CASE j = D + 3
        <3>1. plan[j].kind # kind
            BY <1>0, <1>1, <2>5
        <3> QED
            BY <3>1
    <2> QED
        BY <2>1, <2>2, <2>3, <2>4, <2>5
<1>5. DOMAIN s = 1..m * L
    BY <1>2
<1>6. ASSUME NEW i \in 1..m * L PROVE f[i] = g[((i - 1) % L) + 1]
    <2> DEFINE x == i - 1
               k == (x % L) + 1
    <2>1. x \in Int
        <3>1. m * L \in Nat
            BY <1>3
        <3> QED
            BY <3>1
    <2>2. k \in 1..L
        <3> HIDE DEF x
        <3>1. x % L \in 0..L - 1
            BY <1>3, <2>1, ModDef
        <3> DEFINE r == x % L
        <3>2. r \in 0..L - 1
            BY <3>1
        <3> HIDE DEF r
        <3>3. r + 1 \in 1..L
            BY <1>3, <3>2
        <3> QED
            BY <3>3 DEF r
    <2>3. s[i] = plan[k]
        BY <1>2
    <2>4. f[i] = need(s[i])
        BY <1>5
    <2>5. g[k] = need(plan[k])
        BY <1>1, <2>2
    <2> QED
        BY <2>3, <2>4, <2>5
<1> HIDE DEF f, g
<1>7. SumOn(f, 1..m * L) = m * SumOn(g, 1..L)
    <2>1. \A i \in 1..m * L : f[i] = g[((i - 1) % L) + 1]
        BY <1>6
    <2> QED
        BY <1>3, <1>4, <2>1, SumPeriodic
<1>8. SumOn(g, 1..L) \in Int
    <2>1. IsFiniteSet(1..L)
        BY <1>3, FS_Interval
    <2> QED
        BY <1>4, <2>1, SumInt
<1> QED
    <2>1. TakenBy(s, kind) = m * TakenBy(plan, kind) /\ TakenBy(plan, kind) \in Int
        BY <1>1, <1>2, <1>5, <1>7, <1>8
    <2> QED
        BY <2>1 DEF plan, s

\* The bytes of triples of one query, against its gates.
LEMMA QueryBound ==
    ASSUME NEW a \in 1..MaxBits, NEW b \in 1..MaxBits, a + b <= 32
    PROVE  /\ 8 * TakenBy(PrcProtocol(a, b), "beaver")
                  <= OheGateBits[a] + OheGateBits[b] + Two(b) + 71
           /\ OheGateBits[a] \in Nat /\ OheGateBits[b] \in Nat
           /\ Two(a) \in Nat /\ Two(b) \in Nat
<1> DEFINE D == OheLayers(a, b)
           x == LayerSum(a, D)
           y == LayerSum(b, D)
           c == CeilDiv(Two(b), 8)
<1>1. D \in 0..MaxDepth
    BY PlanShape
<1>2. TakenBy(PrcProtocol(a, b), "beaver") = x + y + c
    BY QueryTakes
<1>3. 8 * x <= OheGateBits[a] + 2 * a /\ 8 * y <= OheGateBits[b] + 2 * b
    BY <1>1, LayerSumBound
<1>4. x \in Nat /\ y \in Nat
    BY <1>1, LayerSumStep
<1>5. c \in Nat /\ 8 * c <= Two(b) + 7
    BY ByteRounding
<1>6. OheGateBits[a] \in Nat /\ OheGateBits[b] \in Nat
    BY GateBitsTable
<1>7. Two(a) \in Nat /\ Two(b) \in Nat /\ a \in Nat /\ b \in Nat
    <2>1. a \in 0..32 /\ b \in 0..32
        BY DEF MaxBits
    <2> QED
        BY <2>1, Powers
<1> HIDE DEF D, x, y, c
<1> QED
    BY <1>2, <1>3, <1>4, <1>5, <1>6, <1>7
=============================================================================
