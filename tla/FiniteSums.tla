----------------------------- MODULE FiniteSums -----------------------------
(***************************************************************************)
(* Induction over the naturals in a form the provers take: a set of        *)
(* naturals stands for the predicate.  With it, functions defined by       *)
(* recursion are shown to exist, and SumFunction of the community module   *)
(* Functions is shown to be the sum whatever order it takes the elements   *)
(* in.                                                                     *)
(***************************************************************************)
EXTENDS Integers, Functions, FiniteSetTheorems, WellFoundedInduction, TLAPS

(* A set that holds 0 and, with each number below n, the next one, holds   *)
(* all of 0..n.                                                            *)
LEMMA SetInduction ==
    ASSUME NEW n \in Nat, NEW S, 0 \in S, \A k \in 0..(n - 1) : k \in S => k + 1 \in S
    PROVE  0..n \subseteq S
<1>. DEFINE Outside == 0..n \ S
<1>. SUFFICES ASSUME Outside # {} PROVE FALSE
  OBVIOUS
<1>1. IsWellFoundedOn(OpToRel(<, Nat), Nat)
  BY NatLessThanWellFounded
<1>2. Outside \subseteq Nat
  OBVIOUS
<1>. HIDE DEF Outside
<1>3. PICK k \in Outside : \A j \in Outside : <<j, k>> \notin OpToRel(<, Nat)
  BY <1>1, <1>2, WFMin
<1>. USE DEF Outside
<1>4. k # 0 /\ k - 1 \in 0..(n - 1)
  OBVIOUS
<1>5. k - 1 \in Outside
  BY <1>4, (k - 1) + 1 = k
<1>6. <<k - 1, k>> \in OpToRel(<, Nat)
  BY <1>4 DEF OpToRel
<1>. QED  BY <1>3, <1>5, <1>6

(* h is the function on 0..n that starts at first and goes on by step.     *)
Recurs(h, n, first, step) == h[0] = first /\ \A k \in 1..n : h[k] = step[<<k, h[k - 1]>>]

(* A function on 0..n defined by primitive recursion exists.               *)
LEMMA FunctionByRecursion ==
    ASSUME NEW n \in Nat, NEW X, NEW first \in X, NEW step \in [(1..n) \X X -> X]
    PROVE  \E h \in [0..n -> X] : Recurs(h, n, first, step)
<1>. DEFINE Good(h, m) == Recurs(h, m, first, step)
            S == {m \in 0..n : \E h \in [0..m -> X] : Good(h, m)}
<1>1. 0 \in S
  <2>. DEFINE h0 == [k \in 0..0 |-> first]
  <2>1. h0 \in [0..0 -> X] /\ Good(h0, 0)
    BY DEF Recurs
  <2>. HIDE DEF h0, Good
  <2>. QED  BY <2>1
<1>2. ASSUME NEW m \in 0..(n - 1), m \in S PROVE m + 1 \in S
  <2>1. PICK h \in [0..m -> X] : Good(h, m)
    BY <1>2
  <2>. DEFINE more == [k \in 0..(m + 1) |-> IF k = m + 1 THEN step[<<m + 1, h[m]>>] ELSE h[k]]
  <2>2. h[m] \in X /\ m + 1 \in 1..n
    OBVIOUS
  <2>3. more \in [0..(m + 1) -> X]
    <3>. SUFFICES ASSUME NEW k \in 0..(m + 1) PROVE more[k] \in X
      OBVIOUS
    <3>1. CASE k = m + 1
      BY <3>1, <2>2
    <3>2. CASE k # m + 1
      BY <3>2
    <3>. QED  BY <3>1, <3>2
  <2>4. Good(more, m + 1)
    <3>1. more[0] = first
      BY <2>1 DEF Recurs
    <3>2. ASSUME NEW k \in 1..(m + 1) PROVE more[k] = step[<<k, more[k - 1]>>]
      <4>1. CASE k = m + 1
        <5>1. k - 1 = m /\ k - 1 \in 0..(m + 1) /\ k \in 0..(m + 1)
          BY <4>1
        <5>2. more[k - 1] = h[m] /\ more[k] = step[<<m + 1, h[m]>>]
          BY <4>1, <5>1
        <5>. QED  BY <4>1, <5>2
      <4>2. CASE k # m + 1
        <5>. k \in 1..m /\ more[k] = h[k] /\ more[k - 1] = h[k - 1]
          BY <4>2
        <5>. QED  BY <2>1 DEF Recurs
      <4>. QED  BY <4>1, <4>2
    <3>. QED  BY <3>1, <3>2 DEF Recurs
  <2>. HIDE DEF more, Good
  <2>. QED  BY <2>3, <2>4
<1>. HIDE DEF S
<1>3. 0..n \subseteq S
  BY <1>1, <1>2, SetInduction
<1>. QED  BY <1>3 DEF S

-----------------------------------------------------------------------------
(* h gives every subset of S the sum of f over it, as MapThenFoldSet takes *)
(* the elements.                                                           *)
Picked(T) == CHOOSE x \in T : TRUE
Folds(h, f, S) ==
    h = [T \in SUBSET S |-> IF T = {} THEN 0 ELSE f[Picked(T)] + h[T \ {Picked(T)}]]

(* The fold over the subsets of a finite set exists.                       *)
LEMMA FoldExists ==
    ASSUME NEW S, IsFiniteSet(S), NEW f \in [S -> Int]
    PROVE  \E h \in [SUBSET S -> Int] : Folds(h, f, S)
<1>. DEFINE Small(m) == {T \in SUBSET S : Cardinality(T) <= m}
            Good(h, m) == \A T \in Small(m) :
                              h[T] = IF T = {} THEN 0 ELSE f[Picked(T)] + h[T \ {Picked(T)}]
            n == Cardinality(S)
            N == {m \in 0..n : \E h \in [Small(m) -> Int] : Good(h, m)}
<1>1. n \in Nat /\ \A T \in SUBSET S : IsFiniteSet(T) /\ Cardinality(T) \in 0..n
  BY FS_CardinalityType, FS_Subset
<1>2. \A T \in SUBSET S : T # {} =>
          /\ Picked(T) \in T /\ Picked(T) \in S
          /\ T \ {Picked(T)} \in SUBSET S
          /\ Cardinality(T \ {Picked(T)}) = Cardinality(T) - 1
  BY <1>1, FS_RemoveElement DEF Picked
<1>3. 0 \in N
  <2>. DEFINE h0 == [T \in Small(0) |-> 0]
  <2>1. ASSUME NEW T \in Small(0) PROVE T = {}
    <3>. Cardinality(T) = 0
      BY <1>1
    <3>. QED  BY <1>1, FS_EmptySet
  <2>2. h0 \in [Small(0) -> Int]
    OBVIOUS
  <2>3. Good(h0, 0)
    BY <2>1
  <2>. HIDE DEF h0, Good, Small
  <2>4. 0 \in 0..n
    BY <1>1
  <2>. QED  BY <2>2, <2>3, <2>4
<1>4. ASSUME NEW m \in 0..(n - 1), m \in N PROVE m + 1 \in N
  <2>1. PICK h \in [Small(m) -> Int] : Good(h, m)
    BY <1>4
  <2>. DEFINE more == [T \in Small(m + 1) |->
                          IF T = {} THEN 0 ELSE f[Picked(T)] + h[T \ {Picked(T)}]]
  <2>2. ASSUME NEW T \in Small(m + 1), T # {}
        PROVE  /\ T \ {Picked(T)} \in Small(m) /\ T \ {Picked(T)} \in Small(m + 1)
               /\ f[Picked(T)] \in Int
    <3>1. Cardinality(T \ {Picked(T)}) = Cardinality(T) - 1
      BY <1>2, <2>2
    <3>. QED  BY <3>1, <1>1, <1>2, <2>2
  <2>3. ASSUME NEW T \in Small(m) PROVE T \in Small(m + 1) /\ more[T] = h[T]
    <3>1. T \in Small(m + 1)
      BY <1>1
    <3>. QED  BY <3>1, <2>1
  <2>4. more \in [Small(m + 1) -> Int]
    <3>. SUFFICES ASSUME NEW T \in Small(m + 1) PROVE more[T] \in Int
      OBVIOUS
    <3>1. CASE T = {}
      BY <3>1
    <3>2. CASE T # {}
      <4>1. h[T \ {Picked(T)}] \in Int
        BY <2>2, <3>2
      <4>. QED  BY <4>1, <2>2, <3>2
    <3>. QED  BY <3>1, <3>2
  <2>5. Good(more, m + 1)
    BY <2>2, <2>3
  <2>6. m + 1 \in 0..n
    BY <1>1
  <2>. HIDE DEF more, Good, Small
  <2>. QED  BY <2>4, <2>5, <2>6
<1>. HIDE DEF N
<1>5. 0..n \subseteq N
  BY <1>1, <1>3, <1>4, SetInduction
<1>6. PICK h \in [Small(n) -> Int] : Good(h, n)
  BY <1>1, <1>5 DEF N
<1>7. Small(n) = SUBSET S
  BY <1>1
<1>8. h = [T \in SUBSET S |-> IF T = {} THEN 0 ELSE f[Picked(T)] + h[T \ {Picked(T)}]]
  BY <1>6, <1>7
<1>. QED  BY <1>6, <1>7, <1>8 DEF Folds

(* Two folds agree wherever both are defined, on functions that agree.     *)
LEMMA FoldsAgree ==
    ASSUME NEW S, IsFiniteSet(S), NEW f, NEW h, Folds(h, f, S),
           NEW T, T \subseteq S, NEW g, NEW k, Folds(k, g, T),
           \A x \in T : f[x] = g[x]
    PROVE  h[T] = k[T]
<1>. DEFINE n == Cardinality(T)
            N == {m \in 0..n : \A U \in SUBSET T : Cardinality(U) = m => h[U] = k[U]}
<1>1. n \in Nat /\ \A U \in SUBSET T : IsFiniteSet(U) /\ Cardinality(U) \in 0..n
  BY FS_CardinalityType, FS_Subset
<1>2. 0 \in N
  <2>1. ASSUME NEW U \in SUBSET T, Cardinality(U) = 0 PROVE h[U] = k[U]
    <3>1. U = {} /\ U \in SUBSET S
      BY <1>1, <2>1, FS_EmptySet
    <3>. QED  BY <3>1 DEF Folds
  <2>. QED  BY <1>1, <2>1
<1>3. ASSUME NEW m \in 0..(n - 1), m \in N PROVE m + 1 \in N
  <2>1. ASSUME NEW U \in SUBSET T, Cardinality(U) = m + 1 PROVE h[U] = k[U]
    <3>1. U # {}
      BY <1>1, <2>1, FS_EmptySet
    <3>2. Picked(U) \in U
      BY <3>1 DEF Picked
    <3>3. Cardinality(U \ {Picked(U)}) = m
      <4>1. Cardinality(U \ {Picked(U)}) = Cardinality(U) - 1
        BY <1>1, <3>2, FS_RemoveElement
      <4>. QED  BY <4>1, <2>1
    <3>4. h[U \ {Picked(U)}] = k[U \ {Picked(U)}]
      BY <1>3, <3>3
    <3>5. h[U] = f[Picked(U)] + h[U \ {Picked(U)}] /\ k[U] = g[Picked(U)] + k[U \ {Picked(U)}]
      BY <3>1 DEF Folds
    <3>. QED  BY <3>2, <3>4, <3>5
  <2>2. m + 1 \in 0..n
    BY <1>1
  <2>. QED  BY <2>1, <2>2
<1>. HIDE DEF N
<1>4. n \in N
  BY <1>1, <1>2, <1>3, SetInduction
<1>. QED  BY <1>4 DEF N

(* The sum of f over S is that of its fold.                                *)
LEMMA SumIsFold ==
    ASSUME NEW f, IsFiniteSet(DOMAIN f), f \in [DOMAIN f -> Int]
    PROVE  \E h \in [SUBSET DOMAIN f -> Int] : Folds(h, f, DOMAIN f) /\ SumFunction(f) = h[DOMAIN f]
<1>. DEFINE S == DOMAIN f
            Sum == CHOOSE h : Folds(h, f, S)
<1>1. PICK h \in [SUBSET S -> Int] : Folds(h, f, S)
  BY FoldExists
<1>2. Folds(Sum, f, S)
  BY <1>1
<1>3. Sum = [T \in SUBSET S |-> Sum[T]]
  BY <1>2 DEF Folds
<1>4. \A T \in SUBSET S : Sum[T] = h[T]
  <2>. SUFFICES ASSUME NEW T \in SUBSET S PROVE Sum[T] = h[T]
    OBVIOUS
  <2>. DEFINE k == [U \in SUBSET T |-> h[U]]
  <2>1. Folds(k, f, T)
    <3>. \A U \in SUBSET T : U \in SUBSET S /\ U \ {Picked(U)} \in SUBSET T
      OBVIOUS
    <3>. QED  BY <1>1 DEF Folds
  <2>2. Sum[T] = k[T] /\ k[T] = h[T]
    BY <1>2, <2>1, FoldsAgree
  <2>. QED  BY <2>2
<1>5. Sum \in [SUBSET S -> Int]
  BY <1>3, <1>4
<1>6. SumFunction(f) = Sum[S]
  BY DEF SumFunction, SumFunctionOnSet, FoldFunctionOnSet, MapThenFoldSet, Folds, Picked
<1>. QED  BY <1>2, <1>5, <1>6

TakesAny(h, f, S) == \A x \in S : h[S] = f[x] + h[S \ {x}]

(* Any element can be taken first.                                         *)
LEMMA FoldTakes ==
    ASSUME NEW S, IsFiniteSet(S), NEW f \in [S -> Int],
           NEW h \in [SUBSET S -> Int], Folds(h, f, S)
    PROVE  TakesAny(h, f, S)
<1>. DEFINE n == Cardinality(S)
            N == {m \in 0..n : \A U \in SUBSET S :
                      Cardinality(U) = m => \A y \in U : h[U] = f[y] + h[U \ {y}]}
<1>1. n \in Nat /\ \A U \in SUBSET S : IsFiniteSet(U) /\ Cardinality(U) \in 0..n
  BY FS_CardinalityType, FS_Subset
<1>2. 0 \in N
  <2>1. ASSUME NEW U \in SUBSET S, Cardinality(U) = 0 PROVE U = {}
    BY <1>1, <2>1, FS_EmptySet
  <2>. QED  BY <1>1, <2>1
<1>3. ASSUME NEW m \in 0..(n - 1), m \in N PROVE m + 1 \in N
  <2>1. ASSUME NEW U \in SUBSET S, Cardinality(U) = m + 1, NEW y \in U
        PROVE  h[U] = f[y] + h[U \ {y}]
    <3>. DEFINE p == Picked(U)
    <3>1. p \in U /\ U # {}
      BY DEF Picked
    <3>2. h[U] = f[p] + h[U \ {p}]
      BY <3>1 DEF Folds
    <3>3. CASE p = y
      BY <3>2, <3>3
    <3>4. CASE p # y
      <4>1. Cardinality(U \ {p}) = Cardinality(U) - 1 /\ Cardinality(U \ {y}) = Cardinality(U) - 1
        BY <1>1, <3>1, FS_RemoveElement
      <4>2. Cardinality(U \ {p}) = m /\ Cardinality(U \ {y}) = m
        BY <4>1, <2>1
      <4>3. y \in U \ {p} /\ p \in U \ {y}
        BY <3>1, <3>4
      <4>. HIDE DEF p
      <4>4. h[U \ {p}] = f[y] + h[(U \ {p}) \ {y}]
        BY <1>3, <4>2, <4>3
      <4>5. h[U \ {y}] = f[p] + h[(U \ {y}) \ {p}]
        BY <1>3, <4>2, <4>3
      <4>6. (U \ {p}) \ {y} = (U \ {y}) \ {p}
        OBVIOUS
      <4>7. f[p] \in Int /\ f[y] \in Int /\ h[(U \ {p}) \ {y}] \in Int
        BY <3>1
      <4>8. h[U \ {y}] = f[p] + h[(U \ {p}) \ {y}]
        BY <4>5, <4>6
      <4>9. h[U] = f[p] + (f[y] + h[(U \ {p}) \ {y}])
        BY <3>2, <4>4
      <4>10. \A a, b, c \in Int : a + (b + c) = b + (a + c)
        OBVIOUS
      <4>11. h[U] = f[y] + (f[p] + h[(U \ {p}) \ {y}])
        BY <4>7, <4>9, <4>10
      <4>. QED  BY <4>8, <4>11
    <3>. QED  BY <3>3, <3>4
  <2>2. m + 1 \in 0..n
    BY <1>1
  <2>. QED  BY <2>1, <2>2
<1>. HIDE DEF N
<1>4. 0..n \subseteq N
  BY <1>1, <1>2, <1>3, SetInduction
<1>. QED  BY <1>1, <1>4 DEF N, TakesAny

-----------------------------------------------------------------------------
(* The facts about sums that the other modules cite.                       *)

(* A sum of integers is an integer.                                        *)
LEMMA SumType ==
    ASSUME NEW S, IsFiniteSet(S), NEW f \in [S -> Int]
    PROVE  SumFunction(f) \in Int
<1>1. DOMAIN f = S
  OBVIOUS
<1>2. \E h \in [SUBSET S -> Int] : Folds(h, f, S) /\ SumFunction(f) = h[S]
  BY <1>1, SumIsFold
<1>. QED  BY <1>2

(* The sum over nothing.                                                   *)
LEMMA SumOfNothing ==
    ASSUME NEW f, DOMAIN f = {}
    PROVE  SumFunction(f) = 0
<1>. DEFINE Sum == CHOOSE h : Folds(h, f, {})
            h0 == [T \in SUBSET {} |-> 0]
<1>1. Folds(h0, f, {})
  BY DEF Folds
<1>. HIDE DEF h0
<1>2. Folds(Sum, f, {})
  BY <1>1
<1>3. SumFunction(f) = Sum[{}]
  BY DEF SumFunction, SumFunctionOnSet, FoldFunctionOnSet, MapThenFoldSet, Folds, Picked
<1>. HIDE DEF Sum
<1>. QED  BY <1>2, <1>3 DEF Folds

Without(f, x) == [y \in DOMAIN f \ {x} |-> f[y]]

(* A sum is any one of its terms and the sum of the others.                *)
LEMMA SumOfRest ==
    ASSUME NEW S, IsFiniteSet(S), NEW f \in [S -> Int], NEW x \in S
    PROVE  SumFunction(f) = f[x] + SumFunction(Without(f, x))
<1>. DEFINE g == [y \in S \ {x} |-> f[y]]
<1>0. DOMAIN f = S /\ Without(f, x) = g
  BY DEF Without
<1>1. PICK h \in [SUBSET S -> Int] : Folds(h, f, S) /\ SumFunction(f) = h[S]
  BY <1>0, SumIsFold
<1>2. g \in [S \ {x} -> Int] /\ IsFiniteSet(S \ {x})
  BY FS_Subset
<1>3. PICK k \in [SUBSET (S \ {x}) -> Int] :
          Folds(k, g, S \ {x}) /\ SumFunction(g) = k[S \ {x}]
  BY <1>2, SumIsFold
<1>4. h[S] = f[x] + h[S \ {x}]
  <2>1. TakesAny(h, f, S)
    BY <1>1, FoldTakes
  <2>. QED  BY <2>1 DEF TakesAny
<1>5. \A y \in S \ {x} : f[y] = g[y]
  OBVIOUS
<1>6. h[S \ {x}] = k[S \ {x}]
  <2>. HIDE DEF g
  <2>. QED  BY <1>1, <1>3, <1>5, FoldsAgree
<1>. QED  BY <1>0, <1>1, <1>3, <1>4, <1>6

(* A sum with one more term.                                               *)
LEMMA SumWithOneMore ==
    ASSUME NEW S, IsFiniteSet(S), NEW x, x \notin S, NEW f \in [S \cup {x} -> Int]
    PROVE  SumFunction(f) = f[x] + SumFunction([y \in S |-> f[y]])
<1>1. IsFiniteSet(S \cup {x}) /\ (S \cup {x}) \ {x} = S
  BY FS_AddElement
<1>2. SumFunction(f) = f[x] + SumFunction(Without(f, x))
  BY <1>1, SumOfRest
<1>. QED  BY <1>1, <1>2 DEF Without

(* Terms that do not fall make a sum that does not fall.                   *)
LEMMA SumMonotone ==
    ASSUME NEW S, IsFiniteSet(S), NEW f \in [S -> Int], NEW g \in [S -> Int],
           \A x \in S : f[x] <= g[x]
    PROVE  SumFunction(f) <= SumFunction(g)
<1>. DEFINE n == Cardinality(S)
            N == {m \in 0..n : \A U \in SUBSET S : Cardinality(U) = m =>
                      SumFunction([x \in U |-> f[x]]) <= SumFunction([x \in U |-> g[x]])}
<1>1. n \in Nat /\ \A U \in SUBSET S : IsFiniteSet(U) /\ Cardinality(U) \in 0..n
  BY FS_CardinalityType, FS_Subset
<1>2. 0 \in N
  <2>1. ASSUME NEW U \in SUBSET S, Cardinality(U) = 0
        PROVE  SumFunction([x \in U |-> f[x]]) <= SumFunction([x \in U |-> g[x]])
    <3>1. U = {}
      BY <1>1, <2>1, FS_EmptySet
    <3>2. DOMAIN [x \in U |-> f[x]] = {} /\ DOMAIN [x \in U |-> g[x]] = {}
      BY <3>1
    <3>3. SumFunction([x \in U |-> f[x]]) = 0 /\ SumFunction([x \in U |-> g[x]]) = 0
      BY <3>2, SumOfNothing
    <3>. QED  BY <3>3
  <2>. QED  BY <1>1, <2>1
<1>3. ASSUME NEW m \in 0..(n - 1), m \in N PROVE m + 1 \in N
  <2>1. ASSUME NEW U \in SUBSET S, Cardinality(U) = m + 1
        PROVE  SumFunction([x \in U |-> f[x]]) <= SumFunction([x \in U |-> g[x]])
    <3>1. PICK y \in U : TRUE
      BY <1>1, <2>1, FS_EmptySet
    <3>. DEFINE V == U \ {y}
                F == [x \in U |-> f[x]]
                G == [x \in U |-> g[x]]
    <3>2. V \in SUBSET S /\ IsFiniteSet(U) /\ IsFiniteSet(V) /\ Cardinality(V) = Cardinality(U) - 1
      BY <1>1, FS_RemoveElement
    <3>3. F \in [U -> Int] /\ G \in [U -> Int]
      OBVIOUS
    <3>4. SumFunction(F) = F[y] + SumFunction([x \in V |-> F[x]])
      <4>1. Without(F, y) = [x \in V |-> F[x]]
        BY DEF Without
      <4>. HIDE DEF F, V
      <4>. QED  BY <4>1, <3>2, <3>3, SumOfRest
    <3>5. SumFunction(G) = G[y] + SumFunction([x \in V |-> G[x]])
      <4>1. Without(G, y) = [x \in V |-> G[x]]
        BY DEF Without
      <4>. HIDE DEF G, V
      <4>. QED  BY <4>1, <3>2, <3>3, SumOfRest
    <3>6. [x \in V |-> F[x]] = [x \in V |-> f[x]] /\ [x \in V |-> G[x]] = [x \in V |-> g[x]]
      OBVIOUS
    <3>7. [x \in V |-> f[x]] \in [V -> Int] /\ [x \in V |-> g[x]] \in [V -> Int]
      OBVIOUS
    <3>8. SumFunction([x \in V |-> f[x]]) \in Int /\ SumFunction([x \in V |-> g[x]]) \in Int
      BY <3>2, <3>7, SumType
    <3>9. Cardinality(V) = m
      BY <2>1, <3>2
    <3>10. SumFunction([x \in V |-> f[x]]) <= SumFunction([x \in V |-> g[x]])
      BY <1>3, <3>2, <3>9
    <3>11. F[y] = f[y] /\ G[y] = g[y] /\ f[y] <= g[y] /\ f[y] \in Int /\ g[y] \in Int
      OBVIOUS
    <3>. HIDE DEF F, G, V
    <3>12. SumFunction(F) <= SumFunction(G)
      BY <3>4, <3>5, <3>6, <3>8, <3>10, <3>11
    <3>. QED  BY <3>12 DEF F, G
  <2>2. m + 1 \in 0..n
    BY <1>1
  <2>. QED  BY <2>1, <2>2
<1>. HIDE DEF N
<1>4. n \in N
  BY <1>1, <1>2, <1>3, SetInduction
<1>5. SumFunction([x \in S |-> f[x]]) <= SumFunction([x \in S |-> g[x]])
  BY <1>4 DEF N
<1>. QED  BY <1>5

(* A sum of zeros is zero.                                                 *)
LEMMA SumOfZeros ==
    ASSUME NEW S, IsFiniteSet(S)
    PROVE  SumFunction([x \in S |-> 0]) = 0
<1>. DEFINE n == Cardinality(S)
            N == {m \in 0..n : \A U \in SUBSET S :
                      Cardinality(U) = m => SumFunction([x \in U |-> 0]) = 0}
<1>1. n \in Nat /\ \A U \in SUBSET S : IsFiniteSet(U) /\ Cardinality(U) \in 0..n
  BY FS_CardinalityType, FS_Subset
<1>2. 0 \in N
  <2>1. ASSUME NEW U \in SUBSET S, Cardinality(U) = 0 PROVE SumFunction([x \in U |-> 0]) = 0
    <3>1. DOMAIN [x \in U |-> 0] = {}
      BY <1>1, <2>1, FS_EmptySet
    <3>. QED  BY <3>1, SumOfNothing
  <2>. QED  BY <1>1, <2>1
<1>3. ASSUME NEW m \in 0..(n - 1), m \in N PROVE m + 1 \in N
  <2>1. ASSUME NEW U \in SUBSET S, Cardinality(U) = m + 1
        PROVE  SumFunction([x \in U |-> 0]) = 0
    <3>1. PICK y \in U : TRUE
      BY <1>1, <2>1, FS_EmptySet
    <3>. DEFINE V == U \ {y}
                F == [x \in U |-> 0]
    <3>2. V \in SUBSET S /\ IsFiniteSet(U) /\ Cardinality(V) = Cardinality(U) - 1
      BY <1>1, FS_RemoveElement
    <3>3. F \in [U -> Int] /\ F[y] = 0
      OBVIOUS
    <3>4. SumFunction(F) = F[y] + SumFunction([x \in V |-> F[x]])
      <4>1. Without(F, y) = [x \in V |-> F[x]]
        BY DEF Without
      <4>. HIDE DEF F, V
      <4>. QED  BY <4>1, <3>2, <3>3, SumOfRest
    <3>5. [x \in V |-> F[x]] = [x \in V |-> 0]
      OBVIOUS
    <3>6. Cardinality(V) = m
      BY <2>1, <3>2
    <3>7. SumFunction([x \in V |-> 0]) = 0
      BY <1>3, <3>2, <3>6
    <3>. HIDE DEF F, V
    <3>8. SumFunction(F) = 0
      BY <3>3, <3>4, <3>5, <3>7
    <3>. QED  BY <3>8 DEF F
  <2>2. m + 1 \in 0..n
    BY <1>1
  <2>. QED  BY <2>1, <2>2
<1>. HIDE DEF N
<1>4. n \in N
  BY <1>1, <1>2, <1>3, SetInduction
<1>. QED  BY <1>4 DEF N

(* A sum of naturals is a natural.                                         *)
LEMMA SumOfNaturals ==
    ASSUME NEW S, IsFiniteSet(S), NEW f \in [S -> Nat]
    PROVE  SumFunction(f) \in Nat
<1>. DEFINE zero == [x \in S |-> 0]
<1>1. f \in [S -> Int] /\ zero \in [S -> Int] /\ \A x \in S : zero[x] <= f[x]
  OBVIOUS
<1>2. SumFunction(zero) = 0
  BY SumOfZeros
<1>. HIDE DEF zero
<1>3. SumFunction(zero) <= SumFunction(f) /\ SumFunction(f) \in Int
  BY <1>1, SumMonotone, SumType
<1>. QED  BY <1>2, <1>3

(* A sum of which one term changes changes by as much.                     *)
LEMMA SumOfUpdate ==
    ASSUME NEW S, IsFiniteSet(S), NEW f \in [S -> Int], NEW g \in [S -> Int],
           NEW x \in S, \A y \in S \ {x} : f[y] = g[y]
    PROVE  SumFunction(g) = SumFunction(f) - f[x] + g[x]
<1>1. SumFunction(f) = f[x] + SumFunction(Without(f, x))
  BY SumOfRest
<1>2. SumFunction(g) = g[x] + SumFunction(Without(g, x))
  BY SumOfRest
<1>3. Without(f, x) = Without(g, x)
  BY DEF Without
<1>4. SumFunction(Without(f, x)) \in Int
  <2>. IsFiniteSet(S \ {x}) /\ Without(f, x) \in [S \ {x} -> Int]
    BY FS_Subset DEF Without
  <2>. QED  BY SumType
<1>5. f[x] \in Int /\ g[x] \in Int
  OBVIOUS
<1>. QED  BY <1>1, <1>2, <1>3, <1>4, <1>5

(* Terms that are zero can be left out.                                    *)
LEMMA SumOfPart ==
    ASSUME NEW S, IsFiniteSet(S), NEW f \in [S -> Int], NEW T, T \subseteq S,
           \A x \in S \ T : f[x] = 0
    PROVE  SumFunction(f) = SumFunction([x \in T |-> f[x]])
<1>. DEFINE n == Cardinality(S \ T)
            N == {m \in 0..n : \A U \in SUBSET S : T \subseteq U /\ Cardinality(U \ T) = m =>
                      SumFunction([x \in U |-> f[x]]) = SumFunction([x \in T |-> f[x]])}
<1>1. n \in Nat /\ \A U \in SUBSET S : IsFiniteSet(U) /\ IsFiniteSet(U \ T)
  BY FS_CardinalityType, FS_Subset
<1>2. 0 \in N
  <2>1. ASSUME NEW U \in SUBSET S, T \subseteq U, Cardinality(U \ T) = 0 PROVE U = T
    <3>1. U \ T = {}
      BY <1>1, <2>1, FS_EmptySet
    <3>. QED  BY <2>1, <3>1
  <2>. QED  BY <1>1, <2>1
<1>3. ASSUME NEW m \in 0..(n - 1), m \in N PROVE m + 1 \in N
  <2>1. ASSUME NEW U \in SUBSET S, T \subseteq U, Cardinality(U \ T) = m + 1
        PROVE  SumFunction([x \in U |-> f[x]]) = SumFunction([x \in T |-> f[x]])
    <3>1. PICK y \in U \ T : TRUE
      BY <1>1, <2>1, FS_EmptySet
    <3>. DEFINE V == U \ {y}
                F == [x \in U |-> f[x]]
    <3>2. V \in SUBSET S /\ T \subseteq V /\ IsFiniteSet(U) /\ V \ T = (U \ T) \ {y}
      BY <1>1, <2>1
    <3>3. Cardinality(V \ T) = Cardinality(U \ T) - 1
      <4>1. y \in U \ T /\ IsFiniteSet(U \ T)
        BY <1>1, <3>1
      <4>2. Cardinality((U \ T) \ {y}) = Cardinality(U \ T) - 1
        BY <4>1, FS_RemoveElement
      <4>. HIDE DEF V
      <4>. QED  BY <3>2, <4>2
    <3>4. F \in [U -> Int] /\ F[y] = 0
      OBVIOUS
    <3>5. SumFunction(F) = F[y] + SumFunction([x \in V |-> F[x]])
      <4>1. Without(F, y) = [x \in V |-> F[x]]
        BY DEF Without
      <4>. HIDE DEF F, V
      <4>. QED  BY <4>1, <3>2, <3>4, SumOfRest
    <3>6. [x \in V |-> F[x]] = [x \in V |-> f[x]]
      OBVIOUS
    <3>7. Cardinality(V \ T) = m
      BY <2>1, <3>3
    <3>8. SumFunction([x \in V |-> f[x]]) = SumFunction([x \in T |-> f[x]])
      BY <1>3, <3>2, <3>7
    <3>9. SumFunction([x \in T |-> f[x]]) \in Int
      <4>1. [x \in T |-> f[x]] \in [T -> Int] /\ IsFiniteSet(T)
        BY <1>1
      <4>. QED  BY <4>1, SumType
    <3>. HIDE DEF F, V
    <3>10. SumFunction(F) = SumFunction([x \in T |-> f[x]])
      BY <3>4, <3>5, <3>6, <3>8, <3>9
    <3>. QED  BY <3>10 DEF F
  <2>2. m + 1 \in 0..n
    BY <1>1
  <2>. QED  BY <2>1, <2>2
<1>. HIDE DEF N
<1>4. n \in N
  BY <1>1, <1>2, <1>3, SetInduction
<1>5. SumFunction([x \in S |-> f[x]]) = SumFunction([x \in T |-> f[x]])
  BY <1>4 DEF N
<1>. QED  BY <1>5

(* Naturals that are left out, or made less, make the sum no larger.       *)
LEMMA SumShrinks ==
    ASSUME NEW S, IsFiniteSet(S), NEW f \in [S -> Nat],
           NEW T, IsFiniteSet(T), NEW g \in [T -> Nat],
           \A x \in T : g[x] = 0 \/ (x \in S /\ g[x] <= f[x])
    PROVE  SumFunction(g) <= SumFunction(f)
<1>. DEFINE U == S \cup T
            F == [x \in U |-> IF x \in S THEN f[x] ELSE 0]
            G == [x \in U |-> IF x \in T THEN g[x] ELSE 0]
<1>1. IsFiniteSet(U) /\ S \subseteq U /\ T \subseteq U
  BY FS_Union
<1>2. F \in [U -> Int] /\ G \in [U -> Int] /\ \A x \in U : G[x] <= F[x]
  OBVIOUS
<1>3. (\A x \in U \ S : F[x] = 0) /\ (\A x \in U \ T : G[x] = 0)
  OBVIOUS
<1>4. [x \in S |-> F[x]] = f /\ [x \in T |-> G[x]] = g
  OBVIOUS
<1>. HIDE DEF F, G, U
<1>5. SumFunction(F) = SumFunction(f) /\ SumFunction(G) = SumFunction(g)
  <2>1. SumFunction(F) = SumFunction([x \in S |-> F[x]])
    BY <1>1, <1>2, <1>3, SumOfPart
  <2>2. SumFunction(G) = SumFunction([x \in T |-> G[x]])
    BY <1>1, <1>2, <1>3, SumOfPart
  <2>. QED  BY <1>4, <2>1, <2>2
<1>6. SumFunction(G) <= SumFunction(F)
  BY <1>1, <1>2, SumMonotone
<1>. QED  BY <1>5, <1>6

(* Differences of neighbours add up to the difference of the ends.         *)
LEMMA SumTelescopes ==
    ASSUME NEW a \in Nat, NEW b \in Nat, a <= b, NEW r \in [a..b -> Int],
           NEW f \in [(a + 1)..b -> Int], \A s \in (a + 1)..b : f[s] = r[s - 1] - r[s]
    PROVE  SumFunction(f) = r[a] - r[b]
<1>. DEFINE n == b - a
            G(m) == [s \in (a + 1)..(a + m) |-> f[s]]
            N == {m \in 0..n : SumFunction(G(m)) = r[a] - r[a + m]}
<1>1. n \in Nat
  OBVIOUS
<1>2. 0 \in N
  <2>1. DOMAIN G(0) = {}
    OBVIOUS
  <2>. HIDE DEF G
  <2>2. SumFunction(G(0)) = 0
    BY <2>1, SumOfNothing
  <2>3. r[a] \in Int /\ a + 0 = a
    OBVIOUS
  <2>. QED  BY <1>1, <2>2, <2>3
<1>3. ASSUME NEW m \in 0..(n - 1), m \in N PROVE m + 1 \in N
  <2>. DEFINE x == a + (m + 1)
              S == (a + 1)..(a + m)
              F == G(m + 1)
  <2>1. m \in Nat /\ m + 1 \in 0..n /\ m + 1 <= b - a
    BY <1>1
  <2>2. ((a + 1)..x) \ {x} = S /\ x \in (a + 1)..x /\ x - 1 = a + m
    <3>1. \A u : u \in ((a + 1)..x) \ {x} <=> u \in S
      <4>1. \A u \in Int : (a + 1 <= u /\ u <= x /\ u # x) <=> (a + 1 <= u /\ u <= a + m)
        BY <2>1
      <4>2. ASSUME NEW u PROVE u \in (a + 1)..x <=> u \in Int /\ a + 1 <= u /\ u <= x
        BY <2>1
      <4>3. ASSUME NEW u PROVE u \in S <=> u \in Int /\ a + 1 <= u /\ u <= a + m
        BY <2>1
      <4>. HIDE DEF F, G, n, N, x, S
      <4>. QED  BY <4>1, <4>2, <4>3
    <3>2. x \in (a + 1)..x /\ x - 1 = a + m
      BY <2>1
    <3>. QED  BY <3>1, <3>2
  <2>3. x \in (a + 1)..b /\ (a + 1)..x \subseteq (a + 1)..b
    BY <2>1
  <2>4. IsFiniteSet((a + 1)..x)
    BY <2>1, FS_Interval
  <2>5. r[a] \in Int /\ r[a + m] \in Int /\ r[x] \in Int
    BY <2>1
  <2>6. F \in [(a + 1)..x -> Int] /\ F[x] = f[x]
    BY <2>2, <2>3
  <2>7. Without(F, x) = G(m)
    <3>1. \A s \in S : F[s] = f[s]
      BY <2>1
    <3>2. DOMAIN F = (a + 1)..x
      OBVIOUS
    <3>. HIDE DEF F, x
    <3>. QED  BY <2>2, <3>1, <3>2 DEF Without
  <2>8. f[x] = r[a + m] - r[x]
    <3>. HIDE DEF x
    <3>. QED  BY <2>2, <2>3
  <2>9. SumFunction(G(m)) = r[a] - r[a + m]
    BY <1>3
  <2>10. SumFunction(F) = F[x] + SumFunction(Without(F, x))
    <3>. DEFINE T == (a + 1)..x
    <3>1. IsFiniteSet(T) /\ F \in [T -> Int] /\ x \in T
      BY <2>2, <2>4, <2>6
    <3>. HIDE DEF T, F, x
    <3>. QED  BY <3>1, SumOfRest
  <2>. HIDE DEF x, F, G
  <2>11. SumFunction(F) = r[a] - r[x]
    BY <2>5, <2>6, <2>7, <2>8, <2>9, <2>10
  <2>. QED  BY <2>1, <2>11 DEF F, x
<1>4. n \in N
  <2>1. n \in 0..n
    BY <1>1
  <2>. HIDE DEF n, N
  <2>. QED  BY <1>1, <1>2, <1>3, <2>1, SetInduction
<1>5. a + n = b
  OBVIOUS
<1>6. G(n) = f
  BY <1>5
<1>7. SumFunction(G(n)) = r[a] - r[a + n]
  <2>. HIDE DEF n, G
  <2>. QED  BY <1>4 DEF N
<1>. HIDE DEF n, G
<1>. QED  BY <1>5, <1>6, <1>7
=============================================================================
