---------------------------- MODULE SumTheorems ----------------------------
(* Finite sums: what SumFunctionOnSet of the community modules adds up to,  *)
(* for functions with integer values.  The induction over the subsets of a  *)
(* finite set is stated with a set P and not with an operator, so that the  *)
(* provers can use it.                                                      *)
EXTENDS Integers, FiniteSets, Functions, FiniteSetTheorems, WellFoundedInduction, TLAPS

(* A set of naturals has a least member.                                    *)
LEMMA LeastNatural ==
  ASSUME NEW S \in SUBSET Nat, S # {}
  PROVE  \E n \in S : \A m \in S : n <= m
<1> DEFINE R == OpToRel(<, Nat)
<1>1. IsWellFoundedOn(R, Nat)
  BY NatLessThanWellFounded
<1>2. \A m, n \in Nat : m < n => <<m, n>> \in R
  BY Zenon DEF OpToRel
<1> HIDE DEF R
<1>3. PICK n \in S : \A m \in S : ~(<<m, n>> \in R)
  BY <1>1, WFMin
<1>4. \A m \in S : ~(m < n)
  BY <1>2, <1>3
<1> QED  BY <1>4

(* Induction over the subsets of a finite set, in a form of first order.   *)
LEMMA SubsetInduction ==
  ASSUME NEW X, IsFiniteSet(X), NEW P,
         \A T \in SUBSET X : (\A U \in SUBSET T : U # T => U \in P) => T \in P
  PROVE  SUBSET X \subseteq P
<1> SUFFICES ASSUME NEW A \in SUBSET X, A \notin P
             PROVE  FALSE
  OBVIOUS
<1> DEFINE bad == {n \in Nat : \E T \in SUBSET X : T \notin P /\ Cardinality(T) = n}
<1>1. \A T \in SUBSET X : IsFiniteSet(T) /\ Cardinality(T) \in Nat
  BY FS_Subset, FS_CardinalityType
<1>2. bad # {}
  BY <1>1
<1>3. PICK n \in bad : \A m \in bad : n <= m
  <2> HIDE DEF bad
  <2>1. bad \in SUBSET Nat
    BY DEF bad
  <2> QED  BY <1>2, <2>1, LeastNatural
<1>4. PICK T \in SUBSET X : T \notin P /\ Cardinality(T) = n
  BY <1>3
<1>5. PICK U \in SUBSET T : U # T /\ U \notin P
  BY <1>4
<1>6. Cardinality(U) < Cardinality(T) /\ Cardinality(U) \in Nat
  BY <1>1, <1>5, FS_Subset
<1>7. Cardinality(U) \in bad
  BY <1>5, <1>6
<1> QED  BY <1>1, <1>3, <1>4, <1>6, <1>7

Pick(s) == CHOOSE x \in s : TRUE

Adds(g, f, S) ==
  g = [s \in SUBSET S |-> IF s = {} THEN 0 ELSE f[Pick(s)] + g[s \ {Pick(s)}]]

(* The sum is the value of an addition over the subsets of the set ...      *)
LEMMA SumUnfolds ==
  ASSUME NEW f, NEW S
  PROVE  SumFunctionOnSet(f, S) = (CHOOSE g : Adds(g, f, S))[S]
BY DEF SumFunctionOnSet, FoldFunctionOnSet, MapThenFoldSet, Adds, Pick

(* ... and there is one.                                                    *)
LEMMA AdditionExists ==
  ASSUME NEW f, NEW S, IsFiniteSet(S)
  PROVE  \E g : Adds(g, f, S)
<1> DEFINE D(n) == {s \in SUBSET S : Cardinality(s) <= n}
           G(g, n) == g = [s \in D(n) |-> IF s = {} THEN 0 ELSE f[Pick(s)] + g[s \ {Pick(s)}]]
           bad == {n \in Nat : ~ \E g : G(g, n)}
<1>1. \A s \in SUBSET S : IsFiniteSet(s) /\ Cardinality(s) \in Nat
  BY FS_Subset, FS_CardinalityType
<1>2. \A s \in SUBSET S : s # {} => /\ s \ {Pick(s)} \in SUBSET S
                                    /\ Cardinality(s \ {Pick(s)}) = Cardinality(s) - 1
  <2> TAKE s \in SUBSET S
  <2> SUFFICES ASSUME s # {} PROVE Cardinality(s \ {Pick(s)}) = Cardinality(s) - 1
    OBVIOUS
  <2>1. Pick(s) \in s
    BY DEF Pick
  <2> QED  BY <1>1, <2>1, FS_RemoveElement
<1>3. \E g : G(g, 0)
  <2>1. \A s \in D(0) : s = {}
    BY <1>1, FS_EmptySet
  <2> DEFINE g == [s \in D(0) |-> 0]
  <2>2. G(g, 0)
    BY <2>1
  <2> QED  BY <2>2
<1>4. ASSUME NEW n \in Nat, NEW g, G(g, n)
      PROVE  \E h : G(h, n + 1)
  <2> DEFINE h == [s \in D(n + 1) |-> IF s = {} THEN 0 ELSE f[Pick(s)] + g[s \ {Pick(s)}]]
  <2>1. ASSUME NEW s \in D(n + 1), s # {}
        PROVE  h[s \ {Pick(s)}] = g[s \ {Pick(s)}]
    <3>1. s \ {Pick(s)} \in D(n) /\ s \ {Pick(s)} \in D(n + 1)
      <4>1. s \in SUBSET S /\ Cardinality(s) <= n + 1
        BY <2>1
      <4>2. s \ {Pick(s)} \in SUBSET S /\ Cardinality(s \ {Pick(s)}) = Cardinality(s) - 1
        BY <1>2, <2>1, <4>1
      <4>3. Cardinality(s) \in Nat
        BY <1>1, <4>1
      <4> QED  BY <4>1, <4>2, <4>3
    <3> DEFINE t == s \ {Pick(s)}
    <3> HIDE DEF t
    <3>2. h[t] = IF t = {} THEN 0 ELSE f[Pick(t)] + g[t \ {Pick(t)}]
      BY <3>1 DEF t
    <3>3. g[t] = IF t = {} THEN 0 ELSE f[Pick(t)] + g[t \ {Pick(t)}]
      BY <1>4, <3>1 DEF t
    <3> QED  BY <3>2, <3>3 DEF t
  <2>2. G(h, n + 1)
    BY <2>1
  <2> QED  BY <2>2
<1>5. \A n \in Nat : \E g : G(g, n)
  <2> HIDE DEF G
  <2> SUFFICES ASSUME bad # {}
               PROVE  FALSE
    OBVIOUS
  <2>1. PICK n \in bad : \A m \in bad : n <= m
    <3> HIDE DEF bad
    <3>1. bad \in SUBSET Nat
      BY DEF bad
    <3> QED  BY <3>1, LeastNatural
  <2>2. n \in Nat /\ n # 0
    BY <2>1, <1>3
  <2>3. n - 1 \in Nat /\ n - 1 \notin bad
    BY <2>1, <2>2
  <2>4. \E g : G(g, (n - 1) + 1)
    BY <2>3, <1>4
  <2>5. (n - 1) + 1 = n
    BY <2>2
  <2> QED  BY <2>1, <2>4, <2>5
<1>6. D(Cardinality(S)) = SUBSET S
  <2>1. \A s \in SUBSET S : Cardinality(s) <= Cardinality(S)
    BY FS_Subset
  <2> QED  BY <2>1
<1>7. PICK g : G(g, Cardinality(S))
  BY <1>1, <1>5
<1>8. Adds(g, f, S)
  BY <1>6, <1>7 DEF Adds
<1> QED  BY <1>8

(* Additions that start from different sets agree where both are defined.   *)
LEMMA AdditionsAgree ==
  ASSUME NEW f, NEW S, IsFiniteSet(S), NEW T \in SUBSET S,
         NEW g, Adds(g, f, S), NEW h, Adds(h, f, T)
  PROVE  \A U \in SUBSET T : g[U] = h[U]
<1> DEFINE P == {U \in SUBSET T : g[U] = h[U]}
<1>1. IsFiniteSet(T)
  BY FS_Subset
<1>2. ASSUME NEW U \in SUBSET T, \A V \in SUBSET U : V # U => V \in P
      PROVE  U \in P
  <2>1. g[U] = (IF U = {} THEN 0 ELSE f[Pick(U)] + g[U \ {Pick(U)}])
    BY DEF Adds
  <2>2. h[U] = (IF U = {} THEN 0 ELSE f[Pick(U)] + h[U \ {Pick(U)}])
    BY DEF Adds
  <2>3. CASE U = {}
    BY <2>1, <2>2, <2>3
  <2>4. CASE U # {}
    <3>1. Pick(U) \in U
      BY <2>4 DEF Pick
    <3>2. U \ {Pick(U)} \in P
      BY <1>2, <3>1
    <3> QED  BY <2>1, <2>2, <2>4, <3>2
  <2> QED  BY <2>3, <2>4
<1> HIDE DEF P
<1>3. SUBSET T \subseteq P
  BY <1>1, <1>2, SubsetInduction
<1> QED  BY <1>3 DEF P

(* Hence the equations of the addition may be used.                         *)
LEMMA SumOfAddition ==
  ASSUME NEW f, NEW S, IsFiniteSet(S)
  PROVE  \E g : Adds(g, f, S) /\ SumFunctionOnSet(f, S) = g[S]
<1> DEFINE g == CHOOSE g : Adds(g, f, S)
<1>1. Adds(g, f, S)
  BY AdditionExists
<1>2. SumFunctionOnSet(f, S) = g[S]
  BY SumUnfolds
<1> QED  BY <1>1, <1>2

(* The sum over no elements is zero.                                        *)
THEOREM SumEmpty ==
  ASSUME NEW f
  PROVE  SumFunctionOnSet(f, {}) = 0
<1>1. PICK g : Adds(g, f, {}) /\ SumFunctionOnSet(f, {}) = g[{}]
  BY SumOfAddition, FS_EmptySet
<1> QED  BY <1>1 DEF Adds

(* The element that CHOOSE takes first is added to the rest.                *)
LEMMA SumPicks ==
  ASSUME NEW f, NEW S, IsFiniteSet(S), S # {}
  PROVE  SumFunctionOnSet(f, S) = f[Pick(S)] + SumFunctionOnSet(f, S \ {Pick(S)})
<1> DEFINE T == S \ {Pick(S)}
<1>1. T \in SUBSET S /\ IsFiniteSet(T)
  BY FS_Subset
<1> HIDE DEF T
<1>2. PICK g : Adds(g, f, S) /\ SumFunctionOnSet(f, S) = g[S]
  BY SumOfAddition
<1>3. PICK h : Adds(h, f, T) /\ SumFunctionOnSet(f, T) = h[T]
  BY <1>1, SumOfAddition
<1>4. g[T] = h[T]
  BY <1>1, <1>2, <1>3, AdditionsAgree
<1>5. g[S] = f[Pick(S)] + g[T]
  BY <1>2 DEF Adds, T
<1> QED  BY <1>2, <1>3, <1>4, <1>5 DEF T

(* A sum of integers is an integer.                                         *)
THEOREM SumType ==
  ASSUME NEW S, IsFiniteSet(S), NEW f, \A x \in S : f[x] \in Int
  PROVE  SumFunctionOnSet(f, S) \in Int
<1> DEFINE P == {T \in SUBSET S : SumFunctionOnSet(f, T) \in Int}
<1>1. ASSUME NEW T \in SUBSET S, \A U \in SUBSET T : U # T => U \in P
      PROVE  T \in P
  <2>1. CASE T = {}
    BY <2>1, SumEmpty
  <2>2. CASE T # {}
    <3>1. IsFiniteSet(T) /\ Pick(T) \in T
      BY <2>2, FS_Subset DEF Pick
    <3>2. T \ {Pick(T)} \in P
      BY <1>1, <3>1
    <3> QED  BY <2>2, <3>1, <3>2, SumPicks
  <2> QED  BY <2>1, <2>2
<1> HIDE DEF P
<1>2. S \in P
  BY <1>1, SubsetInduction
<1> QED  BY <1>2 DEF P

(* Any element of the set may be the first one added.                       *)
THEOREM SumRemove ==
  ASSUME NEW S, IsFiniteSet(S), NEW f, \A x \in S : f[x] \in Int, NEW e \in S
  PROVE  SumFunctionOnSet(f, S) = f[e] + SumFunctionOnSet(f, S \ {e})
<1> DEFINE P == {T \in SUBSET S :
                   \A x \in T : SumFunctionOnSet(f, T) = f[x] + SumFunctionOnSet(f, T \ {x})}
<1>1. ASSUME NEW T \in SUBSET S, \A U \in SUBSET T : U # T => U \in P
      PROVE  T \in P
  <2> SUFFICES ASSUME NEW x \in T
               PROVE  SumFunctionOnSet(f, T) = f[x] + SumFunctionOnSet(f, T \ {x})
    OBVIOUS
  <2> DEFINE y == Pick(T)
             U == T \ {x}
             V == T \ {y}
             W == T \ {x, y}
  <2>1. IsFiniteSet(T) /\ IsFiniteSet(W) /\ y \in T
    BY FS_Subset DEF Pick
  <2>2. SumFunctionOnSet(f, T) = f[y] + SumFunctionOnSet(f, V)
    BY <2>1, SumPicks
  <2>3. CASE x = y
    BY <2>2, <2>3
  <2>4. CASE x # y
    <3>1. /\ U \in P /\ V \in P /\ y \in U /\ x \in V
          /\ U \ {y} = W /\ V \ {x} = W
      BY <1>1, <2>1, <2>4
    <3>2. /\ SumFunctionOnSet(f, U) = f[y] + SumFunctionOnSet(f, W)
          /\ SumFunctionOnSet(f, V) = f[x] + SumFunctionOnSet(f, W)
      <4> HIDE DEF U, V, W, y
      <4> QED  BY <3>1
    <3>3. /\ f[x] \in Int /\ f[y] \in Int /\ SumFunctionOnSet(f, W) \in Int
      BY <2>1, SumType
    <3> HIDE DEF W, y, V
    <3> QED  BY <2>2, <3>2, <3>3 DEF U
  <2> QED  BY <2>3, <2>4
<1> HIDE DEF P
<1>2. S \in P
  BY <1>1, SubsetInduction
<1> QED  BY <1>2 DEF P

(* One more element adds its value.                                         *)
THEOREM SumAdd ==
  ASSUME NEW S, IsFiniteSet(S), NEW e, e \notin S, NEW f, \A x \in S \cup {e} : f[x] \in Int
  PROVE  SumFunctionOnSet(f, S \cup {e}) = f[e] + SumFunctionOnSet(f, S)
<1>1. IsFiniteSet(S \cup {e}) /\ (S \cup {e}) \ {e} = S /\ e \in S \cup {e}
  BY FS_AddElement
<1> DEFINE T == S \cup {e}
<1>2. SumFunctionOnSet(f, T) = f[e] + SumFunctionOnSet(f, T \ {e})
  BY <1>1, SumRemove
<1> QED  BY <1>1, <1>2

(* A sum depends on the values of the function on the set alone.            *)
THEOREM SumSame ==
  ASSUME NEW S, IsFiniteSet(S), NEW f, NEW g,
         \A x \in S : f[x] \in Int /\ f[x] = g[x]
  PROVE  SumFunctionOnSet(f, S) = SumFunctionOnSet(g, S)
<1> DEFINE P == {T \in SUBSET S : SumFunctionOnSet(f, T) = SumFunctionOnSet(g, T)}
<1>1. ASSUME NEW T \in SUBSET S, \A U \in SUBSET T : U # T => U \in P
      PROVE  T \in P
  <2>1. CASE T = {}
    BY <2>1, SumEmpty
  <2>2. CASE T # {}
    <3>1. IsFiniteSet(T) /\ Pick(T) \in T
      BY <2>2, FS_Subset DEF Pick
    <3>2. T \ {Pick(T)} \in P /\ f[Pick(T)] = g[Pick(T)]
      BY <1>1, <3>1
    <3> QED  BY <2>2, <3>1, <3>2, SumPicks
  <2> QED  BY <2>1, <2>2
<1> HIDE DEF P
<1>2. S \in P
  BY <1>1, SubsetInduction
<1> QED  BY <1>2 DEF P

(* The sum over two sets that share no element.                             *)
THEOREM SumUnion ==
  ASSUME NEW S, NEW R, IsFiniteSet(S), IsFiniteSet(R), S \cap R = {},
         NEW f, \A x \in S \cup R : f[x] \in Int
  PROVE  SumFunctionOnSet(f, S \cup R) = SumFunctionOnSet(f, S) + SumFunctionOnSet(f, R)
<1> DEFINE P == {T \in SUBSET R :
                   SumFunctionOnSet(f, S \cup T) = SumFunctionOnSet(f, S) + SumFunctionOnSet(f, T)}
<1>1. ASSUME NEW T \in SUBSET R, \A U \in SUBSET T : U # T => U \in P
      PROVE  T \in P
  <2>0. SumFunctionOnSet(f, S) \in Int
    BY SumType
  <2>1. CASE T = {}
    BY <2>0, <2>1, SumEmpty
  <2>2. CASE T # {}
    <3> DEFINE y == Pick(T)
               U == T \ {y}
    <3>1. IsFiniteSet(T) /\ IsFiniteSet(U) /\ IsFiniteSet(S \cup T) /\ y \in T
      BY <2>2, FS_Subset, FS_Union DEF Pick
    <3>2. U \in P /\ (S \cup T) \ {y} = S \cup U
      BY <1>1, <3>1
    <3>3. SumFunctionOnSet(f, S \cup T) = f[y] + SumFunctionOnSet(f, (S \cup T) \ {y})
      BY <3>1, SumRemove
    <3>4. SumFunctionOnSet(f, T) = f[y] + SumFunctionOnSet(f, U)
      BY <3>1, SumRemove
    <3>5. SumFunctionOnSet(f, U) \in Int /\ f[y] \in Int
      BY <3>1, SumType
    <3>6. SumFunctionOnSet(f, S \cup U) = SumFunctionOnSet(f, S) + SumFunctionOnSet(f, U)
      BY <3>2
    <3>7. SumFunctionOnSet(f, S \cup T) = f[y] + SumFunctionOnSet(f, S \cup U)
      BY <3>2, <3>3
    <3> HIDE DEF U, y
    <3>8. SumFunctionOnSet(f, S \cup T) = SumFunctionOnSet(f, S) + SumFunctionOnSet(f, T)
      BY <2>0, <3>4, <3>5, <3>6, <3>7
    <3> QED  BY <3>8
  <2> QED  BY <2>1, <2>2
<1> HIDE DEF P
<1>2. R \in P
  BY <1>1, SubsetInduction
<1> QED  BY <1>2 DEF P

(* A sum of equal terms is a product.                                       *)
THEOREM SumConstant ==
  ASSUME NEW S, IsFiniteSet(S), NEW c \in Int, NEW f, \A x \in S : f[x] = c
  PROVE  SumFunctionOnSet(f, S) = c * Cardinality(S)
<1> DEFINE P == {T \in SUBSET S : SumFunctionOnSet(f, T) = c * Cardinality(T)}
<1>1. ASSUME NEW T \in SUBSET S, \A U \in SUBSET T : U # T => U \in P
      PROVE  T \in P
  <2>1. CASE T = {}
    BY <2>1, SumEmpty, FS_EmptySet
  <2>2. CASE T # {}
    <3> DEFINE y == Pick(T)
               U == T \ {y}
    <3>1. IsFiniteSet(T) /\ y \in T
      BY <2>2, FS_Subset DEF Pick
    <3>2. U \in P
      BY <1>1, <3>1
    <3>3. SumFunctionOnSet(f, T) = c + SumFunctionOnSet(f, U)
      BY <3>1, SumRemove
    <3>4. Cardinality(U) = Cardinality(T) - 1 /\ Cardinality(T) \in Nat
      BY <3>1, FS_RemoveElement, FS_CardinalityType
    <3>5. SumFunctionOnSet(f, U) = c * Cardinality(U)
      BY <3>2
    <3>6. \A n \in Nat : c + c * (n - 1) = c * n
      OBVIOUS
    <3> HIDE DEF U, y
    <3> QED  BY <3>3, <3>4, <3>5, <3>6
  <2> QED  BY <2>1, <2>2
<1> HIDE DEF P
<1>2. S \in P
  BY <1>1, SubsetInduction
<1> QED  BY <1>2 DEF P

(* A sum is bounded by the sum of greater terms.                            *)
THEOREM SumMonotone ==
  ASSUME NEW S, IsFiniteSet(S), NEW f, NEW g,
         \A x \in S : f[x] \in Int /\ g[x] \in Int /\ f[x] <= g[x]
  PROVE  SumFunctionOnSet(f, S) <= SumFunctionOnSet(g, S)
<1> DEFINE P == {T \in SUBSET S : SumFunctionOnSet(f, T) <= SumFunctionOnSet(g, T)}
<1>1. ASSUME NEW T \in SUBSET S, \A U \in SUBSET T : U # T => U \in P
      PROVE  T \in P
  <2>1. CASE T = {}
    BY <2>1, SumEmpty
  <2>2. CASE T # {}
    <3> DEFINE y == Pick(T)
               U == T \ {y}
    <3>1. IsFiniteSet(T) /\ IsFiniteSet(U) /\ y \in T
      BY <2>2, FS_Subset DEF Pick
    <3>2. U \in P
      BY <1>1, <3>1
    <3>3. /\ SumFunctionOnSet(f, T) = f[y] + SumFunctionOnSet(f, U)
          /\ SumFunctionOnSet(g, T) = g[y] + SumFunctionOnSet(g, U)
      BY <3>1, SumRemove
    <3>4. SumFunctionOnSet(f, U) \in Int /\ SumFunctionOnSet(g, U) \in Int
      BY <3>1, SumType
    <3>5. f[y] \in Int /\ g[y] \in Int /\ f[y] <= g[y]
      BY <3>1
    <3>6. SumFunctionOnSet(f, U) <= SumFunctionOnSet(g, U)
      BY <3>2
    <3> HIDE DEF U, y
    <3> QED  BY <3>3, <3>4, <3>5, <3>6
  <2> QED  BY <2>1, <2>2
<1> HIDE DEF P
<1>2. S \in P
  BY <1>1, SubsetInduction
<1> QED  BY <1>2 DEF P

(* One term replaced by another changes the sum by their difference.        *)
THEOREM SumChange ==
  ASSUME NEW S, IsFiniteSet(S), NEW f, NEW g, NEW e \in S,
         \A x \in S : f[x] \in Int /\ g[x] \in Int,
         \A x \in S \ {e} : f[x] = g[x]
  PROVE  SumFunctionOnSet(g, S) = SumFunctionOnSet(f, S) + (g[e] - f[e])
<1> DEFINE T == S \ {e}
<1>1. IsFiniteSet(T)
  BY FS_Subset
<1>2. /\ SumFunctionOnSet(f, S) = f[e] + SumFunctionOnSet(f, T)
      /\ SumFunctionOnSet(g, S) = g[e] + SumFunctionOnSet(g, T)
  BY SumRemove
<1>3. SumFunctionOnSet(f, T) = SumFunctionOnSet(g, T) /\ SumFunctionOnSet(f, T) \in Int
  BY <1>1, SumSame, SumType
<1> HIDE DEF T
<1> QED  BY <1>2, <1>3

(* Terms that are zero add nothing.                                         *)
THEOREM SumExtend ==
  ASSUME NEW T, IsFiniteSet(T), NEW S \in SUBSET T, NEW f, NEW g,
         \A x \in S : f[x] \in Int /\ f[x] = g[x], \A x \in T \ S : g[x] = 0
  PROVE  SumFunctionOnSet(g, T) = SumFunctionOnSet(f, S)
<1> DEFINE R == T \ S
<1>1. IsFiniteSet(S) /\ IsFiniteSet(R) /\ S \cap R = {} /\ T = S \cup R
  BY FS_Subset
<1>2. \A x \in R : g[x] = 0
  OBVIOUS
<1> HIDE DEF R
<1>3. SumFunctionOnSet(g, T) = SumFunctionOnSet(g, S) + SumFunctionOnSet(g, R)
  BY <1>1, <1>2, SumUnion
<1>4. SumFunctionOnSet(g, R) = 0 * Cardinality(R) /\ Cardinality(R) \in Nat
  BY <1>1, <1>2, SumConstant, FS_CardinalityType
<1>5. SumFunctionOnSet(f, S) = SumFunctionOnSet(g, S) /\ SumFunctionOnSet(f, S) \in Int
  BY <1>1, SumSame, SumType
<1> QED  BY <1>3, <1>4, <1>5

(* The image of a finite set is finite.                                     *)
THEOREM FiniteImage ==
  ASSUME NEW S, IsFiniteSet(S), NEW f
  PROVE  IsFiniteSet({f[x] : x \in S})
<1> DEFINE T == {f[x] : x \in S}
           g == [x \in S |-> f[x]]
<1>1. g \in Surjection(S, T)
  BY DEF Surjection
<1> HIDE DEF T, g
<1>2. IsFiniteSet(T)
  BY <1>1, FS_Surjection
<1> QED  BY <1>2 DEF T

(* The sum of sums.                                                         *)
THEOREM SumPlus ==
  ASSUME NEW S, IsFiniteSet(S), NEW f, NEW g, NEW h,
         \A x \in S : f[x] \in Int /\ g[x] \in Int /\ h[x] = f[x] + g[x]
  PROVE  SumFunctionOnSet(h, S) = SumFunctionOnSet(f, S) + SumFunctionOnSet(g, S)
<1> DEFINE P == {T \in SUBSET S : SumFunctionOnSet(h, T)
                                    = SumFunctionOnSet(f, T) + SumFunctionOnSet(g, T)}
<1>1. ASSUME NEW T \in SUBSET S, \A U \in SUBSET T : U # T => U \in P
      PROVE  T \in P
  <2>1. CASE T = {}
    BY <2>1, SumEmpty
  <2>2. CASE T # {}
    <3>1. PICK y : y = Pick(T)
      OBVIOUS
    <3>2. PICK U : U = T \ {y}
      OBVIOUS
    <3>3. IsFiniteSet(T) /\ IsFiniteSet(U) /\ y \in T
      BY <2>2, <3>1, <3>2, FS_Subset DEF Pick
    <3>4. SumFunctionOnSet(h, U) = SumFunctionOnSet(f, U) + SumFunctionOnSet(g, U)
      BY <1>1, <3>2, <3>3
    <3>5. /\ SumFunctionOnSet(f, T) = f[y] + SumFunctionOnSet(f, U)
          /\ SumFunctionOnSet(g, T) = g[y] + SumFunctionOnSet(g, U)
          /\ SumFunctionOnSet(h, T) = h[y] + SumFunctionOnSet(h, U)
      BY <3>2, <3>3, SumRemove
    <3>6. SumFunctionOnSet(f, U) \in Int /\ SumFunctionOnSet(g, U) \in Int
      BY <3>2, <3>3, SumType
    <3>7. f[y] \in Int /\ g[y] \in Int /\ h[y] = f[y] + g[y]
      BY <3>3
    <3> QED  BY <3>4, <3>5, <3>6, <3>7
  <2> QED  BY <2>1, <2>2
<1> HIDE DEF P
<1>2. S \in P
  BY <1>1, SubsetInduction
<1> QED  BY <1>2 DEF P

Parted(S, part, f, total) ==
  /\ \A i \in S : IsFiniteSet(part[i]) /\ total[i] = SumFunctionOnSet(f, part[i])
  /\ \A i \in S : \A x \in part[i] : f[x] \in Int
  /\ \A i, j \in S : i # j => part[i] \cap part[j] = {}

(* The sum over a set that is parted is the sum of the sums of its parts.   *)
THEOREM SumParts ==
  ASSUME NEW S, IsFiniteSet(S), NEW part, NEW f, NEW total, Parted(S, part, f, total)
  PROVE  /\ IsFiniteSet(UNION {part[i] : i \in S})
         /\ SumFunctionOnSet(f, UNION {part[i] : i \in S}) = SumFunctionOnSet(total, S)
<1>0. PICK all : all = [T \in SUBSET S |-> UNION {part[i] : i \in T}]
  OBVIOUS
<1> DEFINE P == {T \in SUBSET S : /\ IsFiniteSet(all[T])
                                  /\ SumFunctionOnSet(f, all[T]) = SumFunctionOnSet(total, T)}
<1>1. ASSUME NEW T \in SUBSET S, \A U \in SUBSET T : U # T => U \in P
      PROVE  T \in P
  <2>1. CASE T = {}
    <3>1. all[T] = {}
      BY <1>0, <2>1
    <3> QED  BY <2>1, <3>1, SumEmpty, FS_EmptySet
  <2>2. CASE T # {}
    <3>1. PICK y : y = Pick(T)
      OBVIOUS
    <3>2. PICK U : U = T \ {y}
      OBVIOUS
    <3>3. IsFiniteSet(T) /\ IsFiniteSet(U) /\ y \in T
      BY <2>2, <3>1, <3>2, FS_Subset DEF Pick
    <3>4. U \in P
      BY <1>1, <3>2, <3>3
    <3>5. PICK rest : rest = all[U]
      OBVIOUS
    <3>6. IsFiniteSet(rest) /\ SumFunctionOnSet(f, rest) = SumFunctionOnSet(total, U)
      BY <3>4, <3>5
    <3>7. all[T] = rest \cup part[y]
      BY <1>0, <3>2, <3>3, <3>5
    <3>8. rest \cap part[y] = {}
      BY <1>0, <3>2, <3>3, <3>5 DEF Parted
    <3>9. \A x \in rest \cup part[y] : f[x] \in Int
      <4>1. \A i \in S : \A x \in part[i] : f[x] \in Int
        BY DEF Parted
      <4>2. \A x \in rest : \E i \in S : x \in part[i]
        BY <1>0, <3>2, <3>5
      <4> QED  BY <3>3, <4>1, <4>2
    <3>10. IsFiniteSet(part[y]) /\ total[y] = SumFunctionOnSet(f, part[y])
      BY <3>3 DEF Parted
    <3>11. /\ IsFiniteSet(rest \cup part[y])
           /\ SumFunctionOnSet(f, rest \cup part[y])
                = SumFunctionOnSet(f, rest) + SumFunctionOnSet(f, part[y])
      <4>1. PICK R : R = part[y]
        OBVIOUS
      <4>2. /\ IsFiniteSet(rest) /\ IsFiniteSet(R) /\ rest \cap R = {}
            /\ \A x \in rest \cup R : f[x] \in Int
        BY <3>6, <3>8, <3>9, <3>10, <4>1
      <4>3. IsFiniteSet(rest \cup R)
        BY <4>2, FS_Union
      <4>4. SumFunctionOnSet(f, rest \cup R) = SumFunctionOnSet(f, rest) + SumFunctionOnSet(f, R)
        BY <4>2, SumUnion
      <4> QED  BY <4>1, <4>3, <4>4
    <3>12. ASSUME NEW i \in T
           PROVE  total[i] \in Int
      <4>1. PICK R : R = part[i]
        OBVIOUS
      <4>2. IsFiniteSet(R) /\ (\A x \in R : f[x] \in Int) /\ total[i] = SumFunctionOnSet(f, R)
        BY <4>1 DEF Parted
      <4> QED  BY <4>2, SumType
    <3>13. SumFunctionOnSet(total, T) = total[y] + SumFunctionOnSet(total, U)
      BY <3>2, <3>3, <3>12, SumRemove
    <3>14. total[y] \in Int /\ SumFunctionOnSet(total, U) \in Int
      BY <3>2, <3>3, <3>12, SumType
    <3>15. SumFunctionOnSet(f, all[T]) = SumFunctionOnSet(total, T)
      BY <3>6, <3>7, <3>10, <3>11, <3>13, <3>14
    <3>16. IsFiniteSet(all[T])
      BY <3>7, <3>11
    <3> QED  BY <3>15, <3>16
  <2> QED  BY <2>1, <2>2
<1> HIDE DEF P
<1>2. S \in P
  BY <1>1, SubsetInduction
<1>3. S \in P => /\ IsFiniteSet(all[S])
                 /\ SumFunctionOnSet(f, all[S]) = SumFunctionOnSet(total, S)
  BY DEF P
<1> QED  BY <1>0, <1>2, <1>3

(* A sum of naturals is a natural ...                                       *)
THEOREM SumNat ==
  ASSUME NEW S, IsFiniteSet(S), NEW f, \A x \in S : f[x] \in Nat
  PROVE  SumFunctionOnSet(f, S) \in Nat
<1>1. PICK zero : zero = [x \in S |-> 0]
  OBVIOUS
<1>2. \A x \in S : zero[x] \in Int /\ f[x] \in Int /\ zero[x] <= f[x] /\ zero[x] = 0
  BY <1>1
<1>3. SumFunctionOnSet(zero, S) <= SumFunctionOnSet(f, S) /\ SumFunctionOnSet(f, S) \in Int
  BY <1>2, SumMonotone, SumType
<1>4. SumFunctionOnSet(zero, S) = 0 * Cardinality(S) /\ Cardinality(S) \in Nat
  BY <1>2, SumConstant, FS_CardinalityType
<1> QED  BY <1>3, <1>4

(* ... which bounds the sums over the subsets.                              *)
THEOREM SumSubset ==
  ASSUME NEW T, IsFiniteSet(T), NEW S \in SUBSET T, NEW f, \A x \in T : f[x] \in Nat
  PROVE  SumFunctionOnSet(f, S) <= SumFunctionOnSet(f, T)
<1>1. PICK R : R = T \ S
  OBVIOUS
<1>2. IsFiniteSet(S) /\ IsFiniteSet(R) /\ S \cap R = {} /\ T = S \cup R
  BY <1>1, FS_Subset
<1>3. SumFunctionOnSet(f, T) = SumFunctionOnSet(f, S) + SumFunctionOnSet(f, R)
  BY <1>2, SumUnion
<1>4. SumFunctionOnSet(f, S) \in Nat /\ SumFunctionOnSet(f, R) \in Nat
  BY <1>2, SumNat
<1> QED  BY <1>3, <1>4

(* Induction over the naturals, in a form of first order.                   *)
LEMMA SetOfNaturalsInduction ==
  ASSUME NEW P, 0 \in P, \A n \in Nat : n \in P => n + 1 \in P
  PROVE  Nat \subseteq P
<1> SUFFICES ASSUME NEW a \in Nat, a \notin P
             PROVE  FALSE
  OBVIOUS
<1>1. PICK bad : bad = Nat \ P
  OBVIOUS
<1>2. PICK n \in bad : \A m \in bad : n <= m
  BY <1>1, LeastNatural
<1>3. n \in Nat /\ n # 0 /\ n - 1 \in Nat /\ ~(n <= n - 1)
  BY <1>1, <1>2
<1>4. n - 1 \in P
  BY <1>1, <1>2, <1>3
<1>5. (n - 1) + 1 \in P
  BY <1>3, <1>4
<1> QED  BY <1>1, <1>3, <1>5

(* The elements of a set under other names.                                 *)
Renames(S, at, f, total) ==
  /\ \A x \in S : f[at[x]] = total[x] /\ total[x] \in Int
  /\ \A x, y \in S : x # y => at[x] # at[y]

(* The sum over the new names is the sum over the set.                      *)
THEOREM SumImage ==
  ASSUME NEW S, IsFiniteSet(S), NEW at, NEW f, NEW total, Renames(S, at, f, total)
  PROVE  SumFunctionOnSet(f, {at[x] : x \in S}) = SumFunctionOnSet(total, S)
<1> USE DEF Renames
<1>1. PICK part : part = [n \in S |-> {at[n]}]
  OBVIOUS
<1>2. ASSUME NEW n \in S
      PROVE  /\ IsFiniteSet(part[n])
             /\ total[n] = SumFunctionOnSet(f, part[n])
             /\ \A x \in part[n] : f[x] \in Int
  <2>1. PICK e : e = at[n]
    OBVIOUS
  <2>2. f[e] = total[n] /\ f[e] \in Int
    BY <2>1
  <2>3. PICK none : none = {}
    OBVIOUS
  <2>4. PICK one : one = {e}
    OBVIOUS
  <2>5. IsFiniteSet(none) /\ e \notin none /\ (\A x \in none \cup {e} : f[x] \in Int)
    BY <2>2, <2>3, FS_EmptySet
  <2>6. SumFunctionOnSet(f, none \cup {e}) = f[e] + SumFunctionOnSet(f, none)
    BY <2>5, SumAdd
  <2>7. SumFunctionOnSet(f, none) = 0
    BY <2>3, SumEmpty
  <2>8. none \cup {e} = one
    BY <2>3, <2>4
  <2>9. SumFunctionOnSet(f, one) = total[n]
    <3>1. SumFunctionOnSet(f, none \cup {e}) = total[n]
      BY <2>2, <2>6, <2>7
    <3> QED  BY <2>8, <3>1, Zenon
  <2>10. part[n] = one /\ IsFiniteSet(one)
    BY <1>1, <2>1, <2>4, FS_Singleton
  <2>11. total[n] = SumFunctionOnSet(f, part[n])
    <3>1. part[n] = one
      BY <2>10
    <3>2. SumFunctionOnSet(f, part[n]) = SumFunctionOnSet(f, one)
      BY <3>1, Zenon
    <3> QED  BY <2>9, <3>2
  <2>12. \A x \in part[n] : f[x] \in Int
    BY <2>2, <2>4, <2>10
  <2> QED  BY <2>10, <2>11, <2>12
<1>3. ASSUME NEW n \in S, NEW k \in S, n # k
      PROVE  part[n] \cap part[k] = {}
  <2>1. at[n] # at[k]
    BY <1>3
  <2> QED  BY <1>1, <2>1
<1>4. Parted(S, part, f, total)
  BY <1>2, <1>3 DEF Parted
<1>5. SumFunctionOnSet(f, UNION {part[n] : n \in S}) = SumFunctionOnSet(total, S)
  BY <1>4, SumParts
<1>6. UNION {part[n] : n \in S} = {at[x] : x \in S}
  BY <1>1
<1> QED  BY <1>5, <1>6
=============================================================================
