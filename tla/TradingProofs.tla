--------------------------- MODULE TradingProofs ---------------------------
(***************************************************************************)
(* What a cycle or the bunker script trades, and how its batch gets to the  *)
(* chain.  Of the planner, for any strategy, wallet, prices and            *)
(* thresholds: plans are well formed, no batch leaves a negative balance,  *)
(* limit prices hold what the simulation promised, and the script leaves   *)
(* nothing but dust.  Of the shielded submission, for any number of cycles *)
(* and any mortality, timeout and bound on the clock: a cycle reports its  *)
(* own batch, and a late batch excludes the next one.                      *)
(***************************************************************************)
EXTENDS Portfolio, ShieldedSubmission, FiniteSetTheorems, WellFoundedInduction, TLAPS

-----------------------------------------------------------------------------
(* Induction, and the existence of what a fold is defined by.              *)

\* A set of naturals has a least member, and induction follows.
LEMMA Least ==
  ASSUME NEW S \in SUBSET Nat, S # {}
  PROVE  \E m \in S : \A n \in S : m <= n
<1> DEFINE R == OpToRel(<, Nat)
<1>1. IsWellFoundedOn(R, Nat)
  BY NatLessThanWellFounded, Zenon
<1>2. ASSUME NEW m \in Nat, NEW n \in Nat, m < n PROVE <<m, n>> \in R
  BY <1>2 DEF OpToRel
<1> HIDE DEF R
<1>3. PICK m \in S : \A n \in S : ~(<<n, m>> \in R)
  BY <1>1, WFMin
<1>4. \A n \in S : ~(n < m)
  BY <1>2, <1>3
<1>5. \A n \in S : m <= n
  BY <1>4
<1> QED BY <1>5

LEMMA Induction ==
  ASSUME NEW S, 0 \in S, \A n \in Nat : n \in S => n + 1 \in S
  PROVE  Nat \subseteq S
<1> SUFFICES ASSUME Nat \ S # {} PROVE FALSE
  OBVIOUS
<1>1. PICK m \in Nat \ S : \A n \in Nat \ S : m <= n
  <2>1. Nat \ S \in SUBSET Nat
    OBVIOUS
  <2> QED BY <2>1, Least
<1>2. m # 0
  OBVIOUS
<1>3. m - 1 \in S /\ m - 1 \in Nat
  BY <1>1, <1>2
<1> QED BY <1>3

\* What holds of nothing, and of a set if it does of the set without some element,
\* holds of all of a finite set.
LEMMA FiniteInduction ==
  ASSUME NEW S, IsFiniteSet(S), NEW P \in SUBSET (SUBSET S), {} \in P,
         \A T \in SUBSET S : T # {} /\ (\A x \in T : T \ {x} \in P) => T \in P
  PROVE  SUBSET S \subseteq P
<1> DEFINE G == {k \in Nat : \A T \in SUBSET S : Cardinality(T) <= k => T \in P}
<1>1. \A T \in SUBSET S : IsFiniteSet(T) /\ Cardinality(T) \in Nat
  BY FS_Subset, FS_CardinalityType
<1>2. 0 \in G
  <2>1. ASSUME NEW T \in SUBSET S, Cardinality(T) <= 0 PROVE T \in P
    <3>1. T = {}
      BY <1>1, <2>1, FS_EmptySet
    <3> QED BY <3>1
  <2>2. \A T \in SUBSET S : Cardinality(T) <= 0 => T \in P
    BY <2>1
  <2>3. 0 \in Nat
    OBVIOUS
  <2> QED BY <2>2, <2>3, Zenon
<1>3. ASSUME NEW k \in Nat, k \in G PROVE k + 1 \in G
  <2>0. k + 1 \in Nat
    OBVIOUS
  <2> SUFFICES ASSUME NEW T \in SUBSET S, Cardinality(T) <= k + 1, T # {} PROVE T \in P
    BY <2>0, Zenon
  <2>1. ASSUME NEW x \in T PROVE T \ {x} \in P
    <3>1. Cardinality(T \ {x}) = Cardinality(T) - 1
      BY <1>1, FS_RemoveElement
    <3>2. Cardinality(T \ {x}) <= k /\ T \ {x} \in SUBSET S
      BY <1>1, <3>1
    <3> QED BY <1>3, <3>2
  <2> QED BY <2>1
<1>4. Nat \subseteq G
  <2> HIDE DEF G
  <2> QED BY <1>2, <1>3, Induction
<1>5. ASSUME NEW T \in SUBSET S PROVE T \in P
  <2>1. Cardinality(T) \in G /\ Cardinality(T) <= Cardinality(T)
    BY <1>1, <1>4
  <2> QED BY <2>1
<1> QED BY <1>5

\* The function by which MapThenFoldSet is defined, over subsets of S: c[T] is the
\* element taken from T, and G[T] what is done for it with the fold of the others.
FoldsBy(S, b, c, G, g) ==
  \A T \in SUBSET S : g[T] = IF T = {} THEN b ELSE G[T][g[T \ {c[T]}]]

Chooses(S, c) == \A T \in SUBSET S : T # {} => c[T] \in T

LEMMA FoldExists ==
  ASSUME NEW S, IsFiniteSet(S), NEW D, NEW b \in D, NEW c, Chooses(S, c),
         NEW G, \A T \in SUBSET S : T # {} => G[T] \in [D -> D]
  PROVE  \E g \in [SUBSET S -> D] : FoldsBy(S, b, c, G, g)
<1> DEFINE Step(g, T) == IF T = {} THEN b ELSE G[T][g[T \ {c[T]}]]
           UpTo(k) == {T \in SUBSET S : Cardinality(T) <= k}
           Reached(k) == \E g \in [SUBSET S -> D] : \A T \in UpTo(k) : g[T] = Step(g, T)
           R == {k \in Nat : Reached(k)}
<1>0. \A T \in SUBSET S : IsFiniteSet(T) /\ Cardinality(T) \in Nat
  BY FS_Subset, FS_CardinalityType
<1>1. 0 \in R
  <2> DEFINE g == [T \in SUBSET S |-> b]
  <2>1. g \in [SUBSET S -> D]
    OBVIOUS
  <2>2. \A T \in UpTo(0) : T = {}
    BY <1>0, FS_EmptySet
  <2>3. \A T \in UpTo(0) : g[T] = Step(g, T)
    BY <2>2
  <2>4. Reached(0)
    <3> HIDE DEF g, Step, UpTo
    <3> QED BY <2>1, <2>3
  <2> HIDE DEF Reached
  <2> QED BY <2>4
<1>2. ASSUME NEW k \in Nat, k \in R PROVE k + 1 \in R
  <2>1. PICK g \in [SUBSET S -> D] : \A T \in UpTo(k) : g[T] = Step(g, T)
    BY <1>2
  <2> DEFINE h == [T \in SUBSET S |-> Step(g, T)]
  <2>2. ASSUME NEW T \in SUBSET S, T # {} PROVE T \ {c[T]} \in SUBSET S /\ c[T] \in T
    BY <2>2 DEF Chooses
  <2>3. h \in [SUBSET S -> D]
    BY <2>2
  <2>4. \A T \in UpTo(k) : h[T] = g[T]
    BY <2>1
  <2>5. ASSUME NEW T \in UpTo(k + 1), T # {} PROVE T \ {c[T]} \in UpTo(k)
    <3>1. Cardinality(T \ {c[T]}) = Cardinality(T) - 1
      BY <1>0, <2>2, <2>5, FS_RemoveElement
    <3> QED BY <1>0, <2>2, <2>5, <3>1
  <2>6. ASSUME NEW T \in UpTo(k + 1) PROVE h[T] = Step(h, T)
    <3>1. h[T] = Step(g, T) /\ T \in SUBSET S
      OBVIOUS
    <3>2. T # {} => h[T \ {c[T]}] = g[T \ {c[T]}]
      BY <2>4, <2>5
    <3> HIDE DEF h, UpTo
    <3> QED BY <3>1, <3>2
  <2>7. Reached(k + 1)
    <3> HIDE DEF h, Step, UpTo
    <3> QED BY <2>3, <2>6
  <2> HIDE DEF Reached
  <2> QED BY <2>7
<1>3. Cardinality(S) \in R
  <2> HIDE DEF R
  <2>1. Nat \subseteq R
    BY <1>1, <1>2, Induction
  <2> QED BY <1>0, <2>1
<1>4. PICK g \in [SUBSET S -> D] : \A T \in UpTo(Cardinality(S)) : g[T] = Step(g, T)
  BY <1>3
<1>5. \A T \in SUBSET S : Cardinality(T) <= Cardinality(S)
  BY FS_Subset
<1> QED BY <1>4, <1>5 DEF FoldsBy

-----------------------------------------------------------------------------
(* Order.                                                                  *)

\* s lists the elements of T, each once.
Lists(T, s) ==
  /\ s \in Seq(T) /\ Len(s) = Cardinality(T)
  /\ \A i, j \in 1..Len(s) : s[i] = s[j] => i = j
  /\ \A x \in T : \E i \in 1..Len(s) : s[i] = x

StrictOrder(S, Ahead) ==
  /\ \A x \in S : x \notin Ahead[x]
  /\ \A x, y, z \in S : y \in Ahead[x] /\ z \in Ahead[y] => z \in Ahead[x]

FirstOf(Ahead, T) == CHOOSE x \in T : Ahead[x] \cap T = {}

LEMMA FirstExists ==
  ASSUME NEW S, IsFiniteSet(S), NEW Ahead, StrictOrder(S, Ahead), NEW T \in SUBSET S, T # {}
  PROVE  FirstOf(Ahead, T) \in T /\ Ahead[FirstOf(Ahead, T)] \cap T = {}
<1> DEFINE R == {Cardinality(Ahead[x] \cap T) : x \in T}
<1>1. \A x \in T : IsFiniteSet(Ahead[x] \cap T) /\ Cardinality(Ahead[x] \cap T) \in Nat
  <2>1. \A x \in T : Ahead[x] \cap T \subseteq S
    OBVIOUS
  <2> QED BY <2>1, FS_Subset, FS_CardinalityType
<1>2. R \in SUBSET Nat /\ R # {}
  BY <1>1
<1>3. PICK x \in T : \A y \in T : Cardinality(Ahead[x] \cap T) <= Cardinality(Ahead[y] \cap T)
  <2>1. PICK m \in R : \A n \in R : m <= n
    <3> HIDE DEF R
    <3> QED BY <1>2, Least
  <2> QED BY <2>1
<1>4. ASSUME NEW y \in Ahead[x] \cap T PROVE FALSE
  <2>1. Ahead[y] \cap T \subseteq (Ahead[x] \cap T) \ {y}
    BY DEF StrictOrder
  <2>2. Cardinality((Ahead[x] \cap T) \ {y}) = Cardinality(Ahead[x] \cap T) - 1
    BY <1>1, FS_RemoveElement
  <2>3. IsFiniteSet((Ahead[x] \cap T) \ {y})
    BY <1>1, FS_Subset
  <2>4. Cardinality(Ahead[y] \cap T) <= Cardinality((Ahead[x] \cap T) \ {y})
    BY <2>1, <2>3, FS_Subset
  <2>5. Cardinality(Ahead[x] \cap T) <= Cardinality(Ahead[y] \cap T)
    BY <1>3
  <2>6. Cardinality(Ahead[x] \cap T) \in Nat /\ Cardinality(Ahead[y] \cap T) \in Nat
    BY <1>1
  <2> QED BY <2>2, <2>4, <2>5, <2>6
<1>5. \E y \in T : Ahead[y] \cap T = {}
  BY <1>4
<1> QED BY <1>5 DEF FirstOf

OrdersBy(S, Ahead, g) ==
  g = [T \in SUBSET S |-> IF T = {} THEN <<>>
                          ELSE <<FirstOf(Ahead, T)>> \o g[T \ {FirstOf(Ahead, T)}]]

LEMMA InOrderLists ==
  ASSUME NEW S, IsFiniteSet(S), NEW Ahead, StrictOrder(S, Ahead)
  PROVE  Lists(S, InOrder(S, Ahead))
<1> DEFINE c == [T \in SUBSET S |-> FirstOf(Ahead, T)]
           G == [T \in SUBSET S |-> [d \in Seq(S) |-> <<c[T]>> \o d]]
           f == CHOOSE h : OrdersBy(S, Ahead, h)
<1>1. InOrder(S, Ahead) = f[S]
  BY DEF InOrder, MapThenFoldSet, OrdersBy, FirstOf
<1>2. \A T \in SUBSET S : T # {} => c[T] \in T
  BY FirstExists
<1>3. \A T \in SUBSET S : T # {} => G[T] \in [Seq(S) -> Seq(S)]
  <2> SUFFICES ASSUME NEW T \in SUBSET S, T # {}, NEW d \in Seq(S) PROVE <<c[T]>> \o d \in Seq(S)
    OBVIOUS
  <2>1. c[T] \in S
    BY <1>2
  <2> HIDE DEF c
  <2> QED BY <2>1
<1>4. PICK g \in [SUBSET S -> Seq(S)] : FoldsBy(S, <<>>, c, G, g)
  <2> HIDE DEF c, G
  <2>1. <<>> \in Seq(S)
    OBVIOUS
  <2> QED BY <1>2, <1>3, <2>1, FoldExists DEF Chooses
<1>5. OrdersBy(S, Ahead, g)
  <2>1. ASSUME NEW T \in SUBSET S, T # {}
        PROVE  g[T] = <<FirstOf(Ahead, T)>> \o g[T \ {FirstOf(Ahead, T)}]
    <3>1. g[T] = G[T][g[T \ {c[T]}]]
      BY <1>4, <2>1 DEF FoldsBy
    <3>2. g[T \ {c[T]}] \in Seq(S)
      OBVIOUS
    <3> QED BY <3>1, <3>2
  <2>2. g[{}] = <<>>
    BY <1>4 DEF FoldsBy
  <2>3. g = [T \in SUBSET S |-> g[T]]
    OBVIOUS
  <2>4. \A T \in SUBSET S : g[T] = IF T = {} THEN <<>>
                          ELSE <<FirstOf(Ahead, T)>> \o g[T \ {FirstOf(Ahead, T)}]
    BY <2>1, <2>2
  <2> QED BY <2>3, <2>4 DEF OrdersBy
<1>6. OrdersBy(S, Ahead, f)
  BY <1>5
<1> HIDE DEF f, c, G
<1> DEFINE P == {T \in SUBSET S : Lists(T, f[T])}
<1>7. {} \in P
  <2>1. f[{}] = <<>>
    BY <1>6 DEF OrdersBy
  <2>2. <<>> \in Seq({}) /\ Len(<<>>) = 0 /\ Cardinality({}) = 0
    BY FS_EmptySet
  <2>3. Lists({}, <<>>)
    BY <2>2 DEF Lists
  <2> QED BY <2>1, <2>3
<1>8. ASSUME NEW T \in SUBSET S, T # {}, \A x \in T : T \ {x} \in P PROVE T \in P
  <2> DEFINE x == FirstOf(Ahead, T)
             U == T \ {x}
             s == f[U]
  <2>1. x \in T
    BY <1>8, FirstExists
  <2>2. f[T] = <<x>> \o s
    BY <1>6, <1>8 DEF OrdersBy
  <2>3. Lists(U, s)
    BY <1>8, <2>1
  <2>4. Cardinality(T) = Cardinality(U) + 1 /\ Cardinality(U) \in Nat
    <3>1. IsFiniteSet(T)
      BY FS_Subset
    <3>2. Cardinality(T) \in Nat /\ IsFiniteSet(U) /\ Cardinality(U) = Cardinality(T) - 1
      BY <2>1, <3>1, FS_RemoveElement, FS_CardinalityType
    <3>3. Cardinality(U) \in Nat
      BY <3>2, FS_CardinalityType
    <3> HIDE DEF U
    <3> QED BY <3>2, <3>3
  <2>5. x \notin U /\ T = U \cup {x}
    BY <2>1
  <2> HIDE DEF x, U, s
  <2> DEFINE t == <<x>> \o s
  <2>6. s \in Seq(U) /\ Len(s) = Cardinality(U)
    BY <2>3 DEF Lists
  <2>7. t \in Seq(T) /\ Len(t) = Len(s) + 1 /\ t[1] = x
        /\ \A i \in 1..Len(s) : t[i + 1] = s[i]
    BY <2>5, <2>6
  <2>8. \A i \in 1..Len(t) : i = 1 \/ \E j \in 1..Len(s) : i = j + 1
    <3> SUFFICES ASSUME NEW i \in 1..Len(t), i # 1 PROVE i - 1 \in 1..Len(s) /\ i = (i - 1) + 1
      OBVIOUS
    <3> HIDE DEF t
    <3> QED BY <2>6, <2>7
  <2>9. \A i \in 1..Len(s) : s[i] \in U /\ i + 1 \in 1..Len(t)
    BY <2>6, <2>7
  <2> HIDE DEF t
  <2>10. ASSUME NEW i \in 1..Len(t), NEW j \in 1..Len(t), t[i] = t[j] PROVE i = j
    BY <2>3, <2>5, <2>7, <2>8, <2>9, <2>10 DEF Lists
  <2>11. ASSUME NEW y \in T PROVE \E i \in 1..Len(t) : t[i] = y
    <3>1. CASE y = x
      <4>1. 1 \in 1..Len(t)
        BY <2>6, <2>7
      <4> QED BY <2>7, <3>1, <4>1
    <3>2. CASE y \in U
      <4>1. PICK i \in 1..Len(s) : s[i] = y
        BY <2>3, <3>2 DEF Lists
      <4> QED BY <2>7, <2>9, <4>1
    <3> QED BY <2>5, <3>1, <3>2
  <2>12. Lists(T, t)
    BY <2>4, <2>6, <2>7, <2>10, <2>11 DEF Lists
  <2> QED BY <2>2, <2>12 DEF t
<1>9. SUBSET S \subseteq P
  <2>1. P \in SUBSET (SUBSET S)
    OBVIOUS
  <2> HIDE DEF P
  <2> QED BY <1>7, <1>8, <2>1, FiniteInduction
<1> QED BY <1>1, <1>9

LEMMA IncreasingLists ==
  ASSUME NEW S \in SUBSET Int, IsFiniteSet(S)
  PROVE  Lists(S, Increasing(S))
<1> DEFINE Ahead == [x \in S |-> {y \in S : y < x}]
<1>1. StrictOrder(S, Ahead)
  <2>1. \A x, y \in S : x \in Ahead[y] <=> x < y
    OBVIOUS
  <2>2. \A x \in S : x \in Int
    OBVIOUS
  <2> HIDE DEF Ahead
  <2>3. ASSUME NEW x \in S, NEW y \in S, NEW z \in S, x \in Ahead[y], y \in Ahead[z]
        PROVE  x \in Ahead[z]
    <3>1. x \in Int /\ y \in Int /\ z \in Int
      BY <2>2
    <3>2. x < y /\ y < z
      BY <2>1, <2>3
    <3>3. x < z
      BY <3>1, <3>2
    <3> QED BY <2>1, <3>3
  <2>4. ASSUME NEW x \in S PROVE x \notin Ahead[x]
    <3>1. x \in Int
      BY <2>2
    <3>2. ~(x < x)
      BY <3>1
    <3> QED BY <2>1, <3>2
  <2> QED BY <2>3, <2>4 DEF StrictOrder
<1> QED BY <1>1, InOrderLists DEF Increasing

\* Where keeps elements of the sequence, those at the indices, each once.
LEMMA WhereSelects ==
  ASSUME NEW E, NEW s \in Seq(E), NEW I \in SUBSET DOMAIN s
  PROVE  /\ Lists(I, Increasing(I))
         /\ Where(s, I) \in Seq(E)
         /\ Len(Where(s, I)) = Len(Increasing(I))
         /\ DOMAIN Where(s, I) = 1..Len(Increasing(I))
         /\ \A k \in 1..Len(Increasing(I)) :
              Increasing(I)[k] \in I /\ Where(s, I)[k] = s[Increasing(I)[k]]
<1>1. IsFiniteSet(I) /\ I \in SUBSET Int
  <2>1. DOMAIN s = 1..Len(s) /\ Len(s) \in Nat
    OBVIOUS
  <2>2. IsFiniteSet(1..Len(s))
    BY <2>1, FS_Interval
  <2> QED BY <2>1, <2>2, FS_Subset
<1> DEFINE at == Increasing(I)
<1>2. Lists(I, at)
  BY <1>1, IncreasingLists
<1>3. Where(s, I) = [k \in DOMAIN at |-> s[at[k]]]
  BY DEF Where
<1> HIDE DEF at
<1>4. DOMAIN at = 1..Len(at) /\ Len(at) \in Nat /\ \A k \in 1..Len(at) : at[k] \in I
  BY <1>2 DEF Lists
<1>5. \A k \in 1..Len(at) : s[at[k]] \in E
  BY <1>4
<1>6. Where(s, I) \in [1..Len(at) -> E]
  BY <1>3, <1>4, <1>5
<1>7. Where(s, I) \in Seq(E) /\ Len(Where(s, I)) = Len(at) /\ DOMAIN Where(s, I) = 1..Len(at)
  BY <1>4, <1>6
<1> QED BY <1>2, <1>3, <1>4, <1>7 DEF at

\* Sorting permutes.
LEMMA SortPermutes ==
  ASSUME NEW E, NEW s \in Seq(E), NEW key \in [DOMAIN s -> Int]
  PROVE  /\ SortByDesc(s, key) \in Seq(E)
         /\ Len(SortByDesc(s, key)) = Len(s)
         /\ DOMAIN SortByDesc(s, key) = DOMAIN s
         /\ \E order \in [DOMAIN s -> DOMAIN s] :
              /\ SortByDesc(s, key) = [k \in DOMAIN s |-> s[order[k]]]
              /\ \A i, j \in DOMAIN s : order[i] = order[j] => i = j
<1> DEFINE D == DOMAIN s
           Ahead == [j \in D |-> {i \in D : key[i] > key[j] \/ (key[i] = key[j] /\ i < j)}]
           order == InOrder(D, Ahead)
<1>1. D = 1..Len(s) /\ Len(s) \in Nat /\ IsFiniteSet(D) /\ Cardinality(D) = Len(s)
  BY FS_Interval
<1>2. StrictOrder(D, Ahead)
  <2>1. \A i, j \in D : i \in Ahead[j] <=> key[i] > key[j] \/ (key[i] = key[j] /\ i < j)
    OBVIOUS
  <2>2. \A i \in D : i \in Int /\ key[i] \in Int
    BY <1>1
  <2> HIDE DEF Ahead, D
  <2>3. \A i, j, k \in D : i \in Ahead[j] /\ j \in Ahead[k] => i \in Ahead[k]
    BY <2>1, <2>2
  <2>4. \A i \in D : i \notin Ahead[i]
    BY <2>1, <2>2
  <2> QED BY <2>3, <2>4 DEF StrictOrder
<1>3. SortByDesc(s, key) = [k \in D |-> s[order[k]]]
  BY DEF SortByDesc
<1>4. Lists(D, order)
  <2> HIDE DEF Ahead, D
  <2> QED BY <1>1, <1>2, InOrderLists
<1> HIDE DEF order
<1>5. order \in [D -> D] /\ \A i, j \in D : order[i] = order[j] => i = j
  <2>1. order \in Seq(D) /\ Len(order) = Len(s)
    BY <1>1, <1>4 DEF Lists
  <2>2. \A i, j \in 1..Len(s) : order[i] = order[j] => i = j
    BY <1>4, <2>1 DEF Lists
  <2> HIDE DEF D
  <2> QED BY <1>1, <2>1, <2>2
<1>6. SortByDesc(s, key) \in [1..Len(s) -> E]
  BY <1>1, <1>3, <1>5
<1>7. SortByDesc(s, key) \in Seq(E) /\ Len(SortByDesc(s, key)) = Len(s)
  BY <1>1, <1>6
<1> QED BY <1>1, <1>3, <1>5, <1>7

-----------------------------------------------------------------------------
(* Folds over a sequence, prefix by prefix.                                *)

LEMMA MinOfTwo ==
  ASSUME NEW a \in Int, NEW b \in Int
  PROVE  /\ Min({a, b}) \in {a, b} /\ Min({a, b}) <= a /\ Min({a, b}) <= b
<1>1. \E x \in {a, b} : \A y \in {a, b} : x <= y
  <2>1. CASE a <= b
    BY <2>1
  <2>2. CASE b <= a
    BY <2>2
  <2> QED BY <2>1, <2>2
<1> QED BY <1>1 DEF Min

LEMMA MaxOfTwo ==
  ASSUME NEW a \in Int, NEW b \in Int
  PROVE  /\ Max({a, b}) \in {a, b} /\ Max({a, b}) >= a /\ Max({a, b}) >= b
<1>1. \E x \in {a, b} : \A y \in {a, b} : x >= y
  <2>1. CASE a >= b
    BY <2>1
  <2>2. CASE b >= a
    BY <2>2
  <2> QED BY <2>1, <2>2
<1> QED BY <1>1 DEF Max

LEMMA MaxIsMember ==
  ASSUME NEW S \in SUBSET Int, IsFiniteSet(S), S # {}
  PROVE  Max(S) \in S /\ \A x \in S : Max(S) >= x
<1> DEFINE Ahead == [x \in S |-> {y \in S : y > x}]
<1>1. StrictOrder(S, Ahead)
  <2>1. \A x, y \in S : x \in Ahead[y] <=> x > y
    OBVIOUS
  <2>2. \A x \in S : x \in Int
    OBVIOUS
  <2> HIDE DEF Ahead
  <2>3. ASSUME NEW x \in S, NEW y \in S, NEW z \in S, x \in Ahead[y], y \in Ahead[z]
        PROVE  x \in Ahead[z]
    <3>1. x \in Int /\ y \in Int /\ z \in Int
      BY <2>2
    <3>2. x > y /\ y > z
      BY <2>1, <2>3
    <3>3. x > z
      BY <3>1, <3>2
    <3> QED BY <2>1, <3>3
  <2>4. ASSUME NEW x \in S, x \in Ahead[x] PROVE FALSE
    <3>1. x \in Int /\ x > x
      BY <2>1, <2>2, <2>4
    <3> QED BY <3>1
  <2> QED BY <2>3, <2>4 DEF StrictOrder
<1>2. PICK x \in S : Ahead[x] \cap S = {}
  <2> HIDE DEF Ahead
  <2> QED BY <1>1, FirstExists
<1>3. \A y \in S : ~(y > x)
  BY <1>2
<1>4. \A y \in S : x >= y
  BY <1>3
<1> QED BY <1>4 DEF Max

LEMMA MaxOfPart ==
  ASSUME NEW n \in Nat
  PROVE  \A s \in SUBSET (1..n) : s # {} => Max(s) \in s /\ Max(s) \in 1..n
<1> SUFFICES ASSUME NEW s \in SUBSET (1..n), s # {} PROVE Max(s) \in s
  OBVIOUS
<1>1. s \in SUBSET Int
  OBVIOUS
<1>2. IsFiniteSet(s)
  <2>1. IsFiniteSet(1..n)
    BY FS_Interval
  <2> QED BY <2>1, FS_Subset
<1> QED BY <1>1, <1>2, MaxIsMember

LEMMA Prefix ==
  ASSUME NEW k \in Nat
  PROVE  /\ 1..k + 1 # {} /\ Max(1..k + 1) = k + 1
         /\ (1..k + 1) \ {k + 1} = 1..k
<1>1. \A y \in 1..k + 1 : k + 1 >= y
  OBVIOUS
<1>2. \A x \in 1..k + 1 : (\A y \in 1..k + 1 : x >= y) => x = k + 1
  <2> SUFFICES ASSUME NEW x \in 1..k + 1, \A y \in 1..k + 1 : x >= y PROVE x = k + 1
    OBVIOUS
  <2>0. k + 1 \in 1..k + 1
    OBVIOUS
  <2>1. x >= k + 1
    BY <2>0
  <2> QED BY <2>1
<1>3. k + 1 \in 1..k + 1
  OBVIOUS
<1>4. Max(1..k + 1) = k + 1
  BY <1>1, <1>2, <1>3 DEF Max
<1>5. \A j : j \in (1..k + 1) \ {k + 1} <=> j \in 1..k
  OBVIOUS
<1>6. (1..k + 1) \ {k + 1} = 1..k
  BY <1>5, Zenon
<1> QED BY <1>3, <1>4, <1>6

\* The function by which FoldLeft is defined exists, G[i] being what is done at
\* index i; and whichever it is, it goes through the prefixes one by one.
PassesBy(n, b, G, g) ==
  \A s \in SUBSET (1..n) : g[s] = IF s = {} THEN b ELSE G[Max(s)][g[s \ {Max(s)}]]

LEMMA PassExists ==
  ASSUME NEW n \in Nat, NEW D, NEW b \in D, NEW G \in [1..n -> [D -> D]]
  PROVE  \E g \in [SUBSET (1..n) -> D] : PassesBy(n, b, G, g)
<1> DEFINE c == [s \in SUBSET (1..n) |-> Max(s)]
           H == [s \in SUBSET (1..n) |-> G[Max(s)]]
<1>1. IsFiniteSet(1..n)
  BY FS_Interval
<1>2. \A s \in SUBSET (1..n) : s # {} => Max(s) \in s
  <2> SUFFICES ASSUME NEW s \in SUBSET (1..n), s # {} PROVE Max(s) \in s
    OBVIOUS
  <2>1. s \in SUBSET Int
    OBVIOUS
  <2>2. IsFiniteSet(s)
    BY <1>1, FS_Subset
  <2> QED BY <2>1, <2>2, MaxIsMember
<1>3. Chooses(1..n, c)
  BY <1>2 DEF Chooses
<1>4. \A s \in SUBSET (1..n) : s # {} => H[s] \in [D -> D]
  BY <1>2
<1>5. PICK g \in [SUBSET (1..n) -> D] : FoldsBy(1..n, b, c, H, g)
  <2> HIDE DEF c, H
  <2> QED BY <1>1, <1>3, <1>4, FoldExists
<1> QED BY <1>5 DEF FoldsBy, PassesBy

\* A pass: acc[k] is the state after k steps.
Passes(n, b, G, acc) == acc[0] = b /\ \A k \in Nat : k + 1 <= n => acc[k + 1] = G[k + 1][acc[k]]

Continues(n, D, b, G, f) ==
  /\ f[{}] = b
  /\ \A s \in SUBSET (1..n) :
       s # {} /\ f[s \ {Max(s)}] \in D => f[s] = G[Max(s)][f[s \ {Max(s)}]]

LEMMA Pass ==
  ASSUME NEW n \in Nat, NEW D, NEW b \in D, NEW G \in [1..n -> [D -> D]],
         NEW f, Continues(n, D, b, G, f)
  PROVE  \E acc \in [0..n -> D] : Passes(n, b, G, acc) /\ f[1..n] = acc[n]
<1> DEFINE acc == [k \in 0..n |-> f[1..k]]
           R == {k \in Nat : k <= n => f[1..k] \in D}
<1>1. 0 \in R
  <2>1. 1..0 = {}
    OBVIOUS
  <2> QED BY <2>1 DEF Continues
<1>2. ASSUME NEW k \in Nat, k \in R, k + 1 <= n
      PROVE  f[1..k + 1] \in D /\ f[1..k + 1] = G[k + 1][f[1..k]]
  <2>1. k <= n /\ f[1..k] \in D
    BY <1>2
  <2>2. 1..k + 1 \in SUBSET (1..n) /\ k + 1 \in 1..n
    BY <1>2
  <2>3. f[1..k + 1] = G[k + 1][f[1..k]]
    <3> DEFINE s == 1..k + 1
    <3>1. s \in SUBSET (1..n) /\ s # {} /\ Max(s) = k + 1 /\ s \ {Max(s)} = 1..k
      BY <2>2, Prefix
    <3> HIDE DEF s
    <3>2. f[s] = G[Max(s)][f[s \ {Max(s)}]]
      BY <2>1, <3>1 DEF Continues
    <3> QED BY <3>1, <3>2 DEF s
  <2>4. G[k + 1] \in [D -> D]
    BY <2>2
  <2> QED BY <2>1, <2>3, <2>4
<1>3. Nat \subseteq R
  <2>1. \A k \in Nat : k \in R => k + 1 \in R
    BY <1>2
  <2> HIDE DEF R
  <2> QED BY <1>1, <2>1, Induction
<1>4. acc \in [0..n -> D]
  <2> SUFFICES ASSUME NEW k \in 0..n PROVE f[1..k] \in D
    OBVIOUS
  <2>1. k \in R /\ k <= n
    BY <1>3
  <2> QED BY <2>1
<1>5. acc[0] = b /\ acc[n] = f[1..n]
  <2>1. 1..0 = {} /\ 0 \in 0..n /\ n \in 0..n
    OBVIOUS
  <2> QED BY <2>1 DEF Continues
<1>6. ASSUME NEW k \in Nat, k + 1 <= n PROVE acc[k + 1] = G[k + 1][acc[k]]
  <2>1. k \in R /\ k \in 0..n /\ k + 1 \in 0..n
    BY <1>3, <1>6
  <2> QED BY <1>2, <1>6, <2>1
<1>7. Passes(n, b, G, acc)
  BY <1>5, <1>6 DEF Passes
<1> HIDE DEF acc
<1> QED BY <1>4, <1>5, <1>7

-----------------------------------------------------------------------------
(* Sums.                                                                   *)

\* Any element may be added last.
Splits(f, S, g) == \A T \in SUBSET S : \A x \in T : g[T] = f[x] + g[T \ {x}]

AddsUp(f, S, g) ==
  g = [T \in SUBSET S |-> IF T = {} THEN 0
                          ELSE f[CHOOSE x \in T : TRUE] + g[T \ {CHOOSE x \in T : TRUE}]]

LEMMA AddsUpSplits ==
  ASSUME NEW S, IsFiniteSet(S), NEW f, \A x \in S : f[x] \in Nat, NEW g, AddsUp(f, S, g)
  PROVE  g \in [SUBSET S -> Nat] /\ g[{}] = 0 /\ Splits(f, S, g)
<1> DEFINE Sums(T) == g[T] \in Nat /\ \A x \in T : g[T] = f[x] + g[T \ {x}]
           P == {T \in SUBSET S : \A U \in SUBSET T : Sums(U)}
<1>1. g[{}] = 0
  BY DEF AddsUp
<1>2. \A T \in SUBSET S : T # {} => \E x \in T : g[T] = f[x] + g[T \ {x}]
  BY DEF AddsUp
<1>3. {} \in P
  BY <1>1
<1>4. ASSUME NEW T \in SUBSET S, T # {}, \A x \in T : T \ {x} \in P PROVE T \in P
  <2>1. PICK y \in T : g[T] = f[y] + g[T \ {y}]
    BY <1>2, <1>4
  <2>2. \A x \in T : Sums(T \ {x})
    BY <1>4
  <2>3. g[T] \in Nat
    <3>1. f[y] \in Nat /\ g[T \ {y}] \in Nat
      BY <2>2
    <3> QED BY <2>1, <3>1
  <2>4. ASSUME NEW x \in T, x # y PROVE g[T] = f[x] + g[T \ {x}]
    <3> DEFINE U == (T \ {x}) \ {y}
    <3>1. g[T \ {x}] = f[y] + g[U]
      BY <2>2, <2>4
    <3>2. (T \ {y}) \ {x} = U
      OBVIOUS
    <3>3. g[T \ {y}] = f[x] + g[U]
      BY <2>2, <2>4, <3>2
    <3>4. g[U] \in Nat /\ f[x] \in Nat /\ f[y] \in Nat
      <4>1. U \in SUBSET (T \ {x}) /\ T \ {x} \in P
        BY <1>4
      <4>2. Sums(U)
        <5> HIDE DEF Sums, U
        <5> QED BY <4>1
      <4> QED BY <4>2
    <3> HIDE DEF U
    <3> QED BY <2>1, <3>1, <3>3, <3>4
  <2>5. Sums(T)
    BY <2>1, <2>3, <2>4
  <2>6. ASSUME NEW U \in SUBSET T, U # T PROVE Sums(U)
    <3>1. PICK x \in T : x \notin U
      BY <2>6
    <3>2. U \in SUBSET (T \ {x}) /\ T \ {x} \in P
      BY <1>4, <3>1
    <3> HIDE DEF Sums
    <3> QED BY <3>2
  <2> HIDE DEF Sums
  <2> QED BY <2>5, <2>6
<1>5. SUBSET S \subseteq P
  <2>1. P \in SUBSET (SUBSET S)
    OBVIOUS
  <2> HIDE DEF P
  <2> QED BY <1>3, <1>4, <2>1, FiniteInduction
<1>6. \A T \in SUBSET S : Sums(T)
  <2> HIDE DEF Sums
  <2>1. \A T \in SUBSET S : T \in P /\ T \in SUBSET T
    BY <1>5
  <2> QED BY <2>1
<1>7. g \in [SUBSET S -> Nat]
  BY <1>6 DEF AddsUp
<1> QED BY <1>1, <1>6, <1>7 DEF Splits

LEMMA SumExists ==
  ASSUME NEW S, IsFiniteSet(S), NEW f, \A x \in S : f[x] \in Nat
  PROVE  \E g \in [SUBSET S -> Nat] :
           g[{}] = 0 /\ Splits(f, S, g) /\ SumFunctionOnSet(f, S) = g[S]
<1> DEFINE c == [T \in SUBSET S |-> CHOOSE x \in T : TRUE]
           G == [T \in SUBSET S |-> [d \in Nat |-> f[c[T]] + d]]
           g == CHOOSE h : AddsUp(f, S, h)
<1>1. SumFunctionOnSet(f, S) = g[S]
  BY DEF SumFunctionOnSet, FoldFunctionOnSet, MapThenFoldSet, AddsUp
<1>2. Chooses(S, c)
  BY DEF Chooses
<1>3. \A T \in SUBSET S : T # {} => c[T] \in T /\ G[T] \in [Nat -> Nat]
  OBVIOUS
<1>4. PICK h \in [SUBSET S -> Nat] : FoldsBy(S, 0, c, G, h)
  <2> HIDE DEF c, G
  <2> QED BY <1>2, <1>3, FoldExists
<1>5. AddsUp(f, S, h)
  <2>1. ASSUME NEW T \in SUBSET S, T # {}
        PROVE  h[T] = f[CHOOSE x \in T : TRUE] + h[T \ {CHOOSE x \in T : TRUE}]
    <3>1. h[T] = G[T][h[T \ {c[T]}]] /\ h[T \ {c[T]}] \in Nat
      BY <1>4, <2>1 DEF FoldsBy
    <3> QED BY <3>1
  <2>2. h[{}] = 0
    BY <1>4 DEF FoldsBy
  <2>3. h = [T \in SUBSET S |-> h[T]]
    OBVIOUS
  <2> QED BY <2>1, <2>2, <2>3 DEF AddsUp
<1>6. AddsUp(f, S, g)
  BY <1>5
<1> HIDE DEF g
<1> QED BY <1>1, <1>6, AddsUpSplits

LEMMA SumGrows ==
  ASSUME NEW T, IsFiniteSet(T), NEW h, \A y \in T : h[y] \in Nat,
         NEW H \in [SUBSET T -> Nat], Splits(h, T, H), NEW U \in SUBSET T
  PROVE  H[U] <= H[T]
<1> DEFINE P == {V \in SUBSET T : \A W \in SUBSET V : H[W] <= H[V]}
<1>1. {} \in P
  <2>1. \A W \in SUBSET {} : W = {}
    OBVIOUS
  <2>2. H[{}] <= H[{}]
    OBVIOUS
  <2> QED BY <2>1, <2>2
<1>2. ASSUME NEW V \in SUBSET T, V # {}, \A y \in V : V \ {y} \in P PROVE V \in P
  <2> SUFFICES ASSUME NEW W \in SUBSET V, W # V PROVE H[W] <= H[V]
    OBVIOUS
  <2>1. PICK y \in V : y \notin W
    OBVIOUS
  <2>2. W \in SUBSET (V \ {y}) /\ V \ {y} \in P
    BY <1>2, <2>1
  <2>3. H[W] <= H[V \ {y}]
    BY <2>2
  <2>4. H[V] = h[y] + H[V \ {y}]
    BY DEF Splits
  <2>5. h[y] \in Nat /\ H[V \ {y}] \in Nat /\ H[W] \in Nat
    OBVIOUS
  <2> HIDE DEF P
  <2> QED BY <2>3, <2>4, <2>5
<1>3. SUBSET T \subseteq P
  <2>1. P \in SUBSET (SUBSET T)
    OBVIOUS
  <2> HIDE DEF P
  <2> QED BY <1>1, <1>2, <2>1, FiniteInduction
<1>4. T \in P
  <2> HIDE DEF P
  <2> QED BY <1>3
<1> QED BY <1>4

Injects(S, T, m) == m \in [S -> T] /\ \A x, y \in S : m[x] = m[y] => x = y

NoLarger(S, c, f, e, h, m) == \A x \in S : c * f[x] <= e * h[m[x]]

\* A sum over part of a set, of terms no larger, is no larger.
LEMMA SumsCompare ==
  ASSUME NEW S, IsFiniteSet(S), NEW f, \A x \in S : f[x] \in Nat,
         NEW T, IsFiniteSet(T), NEW h, \A y \in T : h[y] \in Nat,
         NEW m, Injects(S, T, m),
         NEW c \in Nat, NEW e \in Nat, NoLarger(S, c, f, e, h, m)
  PROVE  c * SumFunctionOnSet(f, S) <= e * SumFunctionOnSet(h, T)
<1>1. PICK F \in [SUBSET S -> Nat] :
        F[{}] = 0 /\ Splits(f, S, F) /\ SumFunctionOnSet(f, S) = F[S]
  BY SumExists
<1>2. PICK H \in [SUBSET T -> Nat] :
        H[{}] = 0 /\ Splits(h, T, H) /\ SumFunctionOnSet(h, T) = H[T]
  <2>1. \A x \in T : h[x] \in Nat
    OBVIOUS
  <2> QED BY <2>1, SumExists
<1> DEFINE Image(U) == {m[x] : x \in U}
           P == {U \in SUBSET S : c * F[U] <= e * H[Image(U)]}
<1>3. {} \in P
  <2>1. Image({}) = {}
    OBVIOUS
  <2> QED BY <1>1, <1>2, <2>1
<1>4. ASSUME NEW U \in SUBSET S, U # {}, \A x \in U : U \ {x} \in P PROVE U \in P
  <2>1. PICK x \in U : TRUE
    BY <1>4
  <2>2. Image(U) \ {m[x]} = Image(U \ {x}) /\ m[x] \in Image(U) /\ Image(U) \in SUBSET T
    BY DEF Injects
  <2>3. c * F[U \ {x}] <= e * H[Image(U \ {x})]
    BY <1>4
  <2> DEFINE V == Image(U)
             W == Image(U \ {x})
  <2>4. V \ {m[x]} = W /\ m[x] \in V /\ V \in SUBSET T /\ W \in SUBSET T
    BY <2>2
  <2> HIDE DEF V, W
  <2>5. H[V] = h[m[x]] + H[W]
    BY <1>2, <2>4 DEF Splits
  <2>6. F[U] = f[x] + F[U \ {x}]
    BY <1>1 DEF Splits
  <2>7. h[m[x]] \in Nat /\ H[W] \in Nat /\ f[x] \in Nat /\ F[U \ {x}] \in Nat
    BY <2>4 DEF Injects
  <2>8. c * f[x] <= e * h[m[x]] /\ c * F[U \ {x}] <= e * H[W]
    BY <2>3 DEF W, NoLarger
  <2>9. c * (f[x] + F[U \ {x}]) <= e * (h[m[x]] + H[W])
    <3> DEFINE a == f[x]
               b == F[U \ {x}]
               k == h[m[x]]
               l == H[W]
    <3>1. a \in Nat /\ b \in Nat /\ k \in Nat /\ l \in Nat /\ c * a <= e * k /\ c * b <= e * l
      BY <2>7, <2>8
    <3> HIDE DEF a, b, k, l
    <3>2. c * (a + b) = c * a + c * b /\ e * (k + l) = e * k + e * l
      BY <3>1
    <3>3. c * a \in Nat /\ c * b \in Nat /\ e * k \in Nat /\ e * l \in Nat
      BY <3>1
    <3>4. c * (a + b) <= e * (k + l)
      BY <3>1, <3>2, <3>3
    <3> QED BY <3>4 DEF a, b, k, l
  <2>10. c * F[U] <= e * H[V]
    BY <2>5, <2>6, <2>9
  <2> QED BY <2>10 DEF V
<1>5. c * F[S] <= e * H[Image(S)]
  <2>1. P \in SUBSET (SUBSET S)
    OBVIOUS
  <2>2. S \in P
    <3> HIDE DEF P
    <3>1. SUBSET S \subseteq P
      BY <1>3, <1>4, <2>1, FiniteInduction
    <3> QED BY <3>1
  <2> QED BY <2>2
<1>6. H[Image(S)] <= H[T]
  <2>1. Image(S) \in SUBSET T
    BY DEF Injects
  <2> HIDE DEF Image
  <2> QED BY <1>2, <2>1, SumGrows
<1> DEFINE a == H[Image(S)]
<1>7. a \in Nat /\ H[T] \in Nat /\ F[S] \in Nat
  <2>1. Image(S) \in SUBSET T
    BY DEF Injects
  <2> QED BY <2>1
<1>8. c * F[S] <= e * a /\ a <= H[T]
  BY <1>5, <1>6
<1> HIDE DEF a
<1>9. e * a <= e * H[T]
  BY <1>7, <1>8
<1>10. c * F[S] <= e * H[T]
  <2>1. c * F[S] \in Nat /\ e * a \in Nat /\ e * H[T] \in Nat
    BY <1>7
  <2> QED BY <1>8, <1>9, <2>1
<1> QED BY <1>1, <1>2, <1>10

LEMMA SumNat ==
  ASSUME NEW S, IsFiniteSet(S), NEW f, \A x \in S : f[x] \in Nat
  PROVE  /\ SumFunctionOnSet(f, S) \in Nat
         /\ \A x \in S : SumFunctionOnSet(f, S) >= f[x]
<1>1. PICK g \in [SUBSET S -> Nat] : Splits(f, S, g) /\ SumFunctionOnSet(f, S) = g[S]
  BY SumExists
<1>2. g[S] \in Nat
  OBVIOUS
<1>3. ASSUME NEW x \in S PROVE g[S] >= f[x]
  <2>1. g[S] = f[x] + g[S \ {x}] /\ g[S \ {x}] \in Nat /\ f[x] \in Nat
    BY <1>1 DEF Splits
  <2> QED BY <2>1
<1> QED BY <1>1, <1>2, <1>3

-----------------------------------------------------------------------------
(* FlattenSeq.                                                             *)

Flattens(seqs, g) ==
  g = [i \in 1..Len(seqs) |-> IF i = 1 THEN seqs[i] ELSE g[i - 1] \o seqs[i]]

\* What is joined so far.
LEMMA FlattenSteps ==
  ASSUME NEW D, NEW seqs \in Seq(Seq(D))
  PROVE  \E joined \in [0..Len(seqs) -> Seq(D)] :
           /\ joined[0] = <<>>
           /\ \A k \in Nat : k + 1 <= Len(seqs) => joined[k + 1] = joined[k] \o seqs[k + 1]
           /\ FlattenSeq(seqs) = joined[Len(seqs)]
<1> DEFINE n == Len(seqs)
           b == <<>>
           G == [i \in 1..n |-> [d \in Seq(D) |-> d \o seqs[i]]]
           f == CHOOSE g : Flattens(seqs, g)
<1>1. n \in Nat /\ b \in Seq(D) /\ \A i \in 1..n : seqs[i] \in Seq(D)
  OBVIOUS
<1>2. FlattenSeq(seqs) = IF n = 0 THEN seqs ELSE f[n]
  BY DEF FlattenSeq, Flattens
<1>3. G \in [1..n -> [Seq(D) -> Seq(D)]]
  <2> SUFFICES ASSUME NEW i \in 1..n, NEW d \in Seq(D) PROVE d \o seqs[i] \in Seq(D)
    OBVIOUS
  <2> QED BY <1>1
<1> HIDE DEF n
<1>4. PICK h \in [SUBSET (1..n) -> Seq(D)] : PassesBy(n, b, G, h)
  <2> DEFINE E == Seq(D)
  <2>1. b \in E /\ G \in [1..n -> [E -> E]]
    BY <1>1, <1>3
  <2> HIDE DEF b, G, E
  <2>2. \E h \in [SUBSET (1..n) -> E] : PassesBy(n, b, G, h)
    <3>1. n \in Nat
      BY <1>1
    <3> QED BY <2>1, <3>1, PassExists
  <2> QED BY <2>2 DEF E
<1>5. h[{}] = <<>>
  BY <1>4 DEF PassesBy
<1>6. ASSUME NEW k \in Nat, k + 1 <= n PROVE h[1..k + 1] = h[1..k] \o seqs[k + 1]
  <2> DEFINE s == 1..k + 1
  <2>0. s \in SUBSET (1..n)
    BY <1>1, <1>6
  <2>1. s \in SUBSET (1..n) /\ s # {} /\ Max(s) = k + 1 /\ s \ {Max(s)} = 1..k
    BY <2>0, Prefix
  <2>2. k + 1 \in 1..n /\ h[1..k] \in Seq(D)
    BY <1>1, <1>6
  <2> HIDE DEF s
  <2>3. h[s] = G[k + 1][h[1..k]]
    BY <1>4, <2>1 DEF PassesBy
  <2>4. h[s] = h[1..k] \o seqs[k + 1]
    BY <2>2, <2>3
  <2> QED BY <2>4 DEF s
<1> HIDE DEF G, b
<1> DEFINE e == [i \in 1..n |-> h[1..i]]
<1>7. Flattens(seqs, e)
  <2> SUFFICES ASSUME NEW i \in 1..n PROVE e[i] = IF i = 1 THEN seqs[i] ELSE e[i - 1] \o seqs[i]
    BY DEF Flattens, n
  <2>1. CASE i = 1
    <3>0. 0 \in Nat /\ 0 + 1 <= n /\ 0 + 1 = 1 /\ 1 \in 1..n
      BY <1>1, <2>1
    <3>1. h[1..0 + 1] = h[1..0] \o seqs[0 + 1]
      BY <1>6, <3>0
    <3>2. 1..0 = {} /\ seqs[1] \in Seq(D)
      BY <1>1, <3>0
    <3>3. h[1..1] = <<>> \o seqs[1]
      BY <1>5, <3>0, <3>1, <3>2, Zenon
    <3>4. h[1..1] = seqs[1]
      BY <3>2, <3>3
    <3> QED BY <2>1, <3>4
  <2>2. CASE i # 1
    <3>1. i - 1 \in Nat /\ i - 1 + 1 = i /\ i - 1 \in 1..n /\ i <= n
      BY <1>1, <2>2
    <3>2. h[1..i] = h[1..i - 1] \o seqs[i]
      BY <1>6, <3>1
    <3> QED BY <2>2, <3>1, <3>2
  <2> QED BY <2>1, <2>2
<1>8. Flattens(seqs, f)
  BY <1>7
<1> HIDE DEF e, f
<1> DEFINE joined == [k \in 0..n |-> IF k = 0 THEN <<>> ELSE f[k]]
<1>9. \A i \in 1..n : f[i] = IF i = 1 THEN seqs[i] ELSE f[i - 1] \o seqs[i]
  BY <1>8 DEF Flattens, n
<1>10. ASSUME NEW k \in Nat, k + 1 <= n PROVE joined[k + 1] = joined[k] \o seqs[k + 1]
  <2>1. k \in 0..n /\ k + 1 \in 0..n /\ k + 1 \in 1..n /\ k + 1 - 1 = k /\ k + 1 # 0
    BY <1>1, <1>10
  <2>2. f[k + 1] = IF k + 1 = 1 THEN seqs[k + 1] ELSE f[k] \o seqs[k + 1]
    BY <1>9, <2>1
  <2>3. CASE k = 0
    BY <1>1, <2>1, <2>2, <2>3
  <2>4. CASE k # 0
    <3>1. k + 1 # 1
      BY <2>4
    <3> QED BY <2>1, <2>2, <2>4, <3>1
  <2> QED BY <2>3, <2>4
<1>11. joined[0] = <<>> /\ DOMAIN joined = 0..n
  BY <1>1
<1>12. FlattenSeq(seqs) = joined[n]
  <2>1. CASE n = 0
    <3>1. seqs = <<>>
      BY <2>1 DEF n
    <3> QED BY <1>2, <1>11, <2>1, <3>1
  <2>2. CASE n # 0
    BY <1>1, <1>2, <2>2
  <2> QED BY <2>1, <2>2
<1>13. joined \in [0..n -> Seq(D)]
  <2> DEFINE R == {k \in Nat : k <= n => joined[k] \in Seq(D)}
  <2>1. 0 \in R
    BY <1>11
  <2>2. ASSUME NEW k \in Nat, k \in R PROVE k + 1 \in R
    <3> SUFFICES ASSUME k + 1 <= n PROVE joined[k + 1] \in Seq(D)
      OBVIOUS
    <3>0. k <= n /\ k + 1 \in 1..n
      BY <1>1
    <3>1. joined[k] \in Seq(D)
      BY <2>2, <3>0
    <3>2. seqs[k + 1] \in Seq(D) /\ joined[k + 1] = joined[k] \o seqs[k + 1]
      BY <1>1, <1>10, <3>0
    <3> HIDE DEF joined
    <3> QED BY <3>1, <3>2, <3>0
  <2>3. Nat \subseteq R
    <3> HIDE DEF R
    <3> QED BY <2>1, <2>2, Induction
  <2>4. ASSUME NEW k \in 0..n PROVE joined[k] \in Seq(D)
    <3>1. k \in Nat /\ k <= n
      BY <1>1
    <3>2. k \in R
      <4> HIDE DEF R
      <4> QED BY <2>3, <3>1
    <3> HIDE DEF joined
    <3> QED BY <3>1, <3>2
  <2>5. joined = [k \in 0..n |-> joined[k]]
    OBVIOUS
  <2> HIDE DEF joined
  <2> QED BY <2>4, <2>5
<1> HIDE DEF joined
<1> QED BY <1>10, <1>11, <1>12, <1>13 DEF n

-----------------------------------------------------------------------------
(* The validators that the strategies choose.                              *)

LEMMA Cancel ==
  ASSUME NEW a \in Int, NEW b \in Int, NEW c \in Nat \ {0}
  PROVE  /\ a * c < b * c => a < b
         /\ a * c <= b * c => a <= b
OBVIOUS

LEMMA Times ==
  ASSUME NEW a \in Int, NEW b \in Int, NEW c \in Nat \ {0}
  PROVE  /\ a <= b => a * c <= b * c
         /\ a < b => a * c < b * c
OBVIOUS

\* Comparing fractions by cross-multiplication is transitive.
LEMMA CrossTransitive ==
  ASSUME NEW a \in Nat, NEW b \in Nat, NEW c \in Nat,
         NEW A \in Nat \ {0}, NEW B \in Nat \ {0}, NEW C \in Nat \ {0},
         a * B <= b * A, b * C <= c * B
  PROVE  /\ a * C <= c * A
         /\ (a * B < b * A \/ b * C < c * B) => a * C < c * A
<1>1. a * B \in Int /\ b * A \in Int /\ b * C \in Int /\ c * B \in Int /\ a * C \in Int /\ c * A \in Int
  OBVIOUS
<1>2. (a * B) * C <= (b * A) * C /\ (a * B < b * A => (a * B) * C < (b * A) * C)
  BY <1>1, Times
<1>3. (b * C) * A <= (c * B) * A /\ (b * C < c * B => (b * C) * A < (c * B) * A)
  BY <1>1, Times
<1>4. (a * B) * C = (a * C) * B /\ (b * A) * C = (b * C) * A /\ (c * B) * A = (c * A) * B
  OBVIOUS
<1>5. (a * C) * B <= (c * A) * B
  BY <1>1, <1>2, <1>3, <1>4
<1>6. (a * B < b * A \/ b * C < c * B) => (a * C) * B < (c * A) * B
  <2> DEFINE p == (a * C) * B
             q == (b * C) * A
             r == (c * A) * B
  <2>1. p \in Int /\ q \in Int /\ r \in Int
    OBVIOUS
  <2>2. p <= q /\ q <= r /\ (a * B < b * A => p < q) /\ (b * C < c * B => q < r)
    BY <1>2, <1>3, <1>4
  <2> HIDE DEF p, q, r
  <2>3. (a * B < b * A \/ b * C < c * B) => p < r
    BY <2>1, <2>2
  <2> QED BY <2>3 DEF p, r
<1> QED BY <1>1, <1>5, <1>6, Cancel

LEMMA BestExists ==
  ASSUME NEW hotkeys, NEW metagraph, IsFiniteSet(metagraph),
         \A v \in metagraph : v \in ValidatorsOf(hotkeys), Candidates(metagraph) # {}
  PROVE  BestValidator(metagraph) \in Candidates(metagraph) /\ BestValidator(metagraph).hotkey \in hotkeys
<1> DEFINE C == Candidates(metagraph)
           Ahead == [v \in C |-> {w \in C : ~Outranks(v, w)}]
<1>1. IsFiniteSet(C)
  BY FS_Subset DEF Candidates
<1>2. ASSUME NEW v \in C
      PROVE  /\ v.dividends \in Nat /\ v.stake \in Nat \ {0} /\ v.uid \in Nat /\ v.hotkey \in hotkeys
  BY DEF Candidates, ValidatorsOf
<1>3. \A v, w \in C : w \in Ahead[v] <=> ~Outranks(v, w)
  OBVIOUS
<1>4. StrictOrder(C, Ahead)
  <2>1. ASSUME NEW v \in C, v \in Ahead[v] PROVE FALSE
    <3>1. ~Outranks(v, v)
      BY <1>3, <2>1
    <3>2. v.stake \in Nat /\ v.uid \in Nat /\ v.dividends * v.stake \in Int
      BY <1>2
    <3> QED BY <3>1, <3>2 DEF Outranks, LessYield, YieldPerAlpha
  <2>2. ASSUME NEW x \in C, NEW y \in C, NEW z \in C, y \in Ahead[x], z \in Ahead[y]
        PROVE  z \in Ahead[x]
    <3> DEFINE a == x.dividends
               A == x.stake
               b == y.dividends
               B == y.stake
               c == z.dividends
               D == z.stake
               u == x.uid
               v == y.uid
               w == z.uid
    <3>1. /\ a \in Nat /\ b \in Nat /\ c \in Nat
          /\ A \in Nat \ {0} /\ B \in Nat \ {0} /\ D \in Nat \ {0}
          /\ u \in Nat /\ v \in Nat /\ w \in Nat
      BY <1>2
    <3>2. ~Outranks(x, y) /\ ~Outranks(y, z)
      BY <1>3, <2>2
    <3>3. ~Outranks(x, y) => ~(b * A < a * B) /\ (a * B < b * A \/ A < B \/ (A = B /\ u > v))
      BY <3>1 DEF Outranks, LessYield, YieldPerAlpha
    <3>4. ~Outranks(y, z) => ~(c * B < b * D) /\ (b * D < c * B \/ B < D \/ (B = D /\ v > w))
      BY <3>1 DEF Outranks, LessYield, YieldPerAlpha
    <3>5. Outranks(x, z) => c * A < a * D \/ (~(a * D < c * A) /\ (A > D \/ (A = D /\ u <= w)))
      BY DEF Outranks, LessYield, YieldPerAlpha
    <3> HIDE DEF a, b, c, A, B, D, u, v, w
    <3>6. a * B \in Int /\ b * A \in Int /\ b * D \in Int /\ c * B \in Int /\ a * D \in Int /\ c * A \in Int
      BY <3>1
    <3>7. a * B <= b * A /\ b * D <= c * B
      BY <3>2, <3>3, <3>4, <3>6
    <3>8. a * D <= c * A /\ ((a * B < b * A \/ b * D < c * B) => a * D < c * A)
      BY <3>1, <3>7, CrossTransitive
    <3>9. ~(c * A < a * D)
      BY <3>6, <3>8
    <3>10. a * D < c * A \/ A < D \/ (A = D /\ u > w)
      BY <3>1, <3>2, <3>3, <3>4, <3>8
    <3>11. ~Outranks(x, z)
      BY <3>1, <3>5, <3>9, <3>10
    <3> QED BY <1>3, <3>11
  <2> HIDE DEF Ahead, C
  <2> QED BY <2>1, <2>2 DEF StrictOrder
<1>5. PICK v \in C : Ahead[v] \cap C = {}
  <2> HIDE DEF Ahead, C
  <2>1. C # {}
    BY DEF C
  <2> QED BY <1>1, <1>4, <2>1, FirstExists
<1>6. \A w \in C : Outranks(v, w)
  BY <1>5
<1>7. BestValidator(metagraph) \in C
  BY <1>6 DEF BestValidator
<1> QED BY <1>2, <1>7

Position(netuids, hotkeys) ==
  [netuid : netuids, hotkey : hotkeys, stake : Nat, alphaPrice : Nat, taoValue : Nat]

LEMMA LargestExists ==
  ASSUME NEW netuids, NEW hotkeys, NEW positions \in Seq(Position(netuids, hotkeys)),
         positions # <<>>
  PROVE  LargestPosition(positions) \in hotkeys
<1> DEFINE D == DOMAIN positions
           Beats(i, j) ==
             \/ positions[i].taoValue > positions[j].taoValue
             \/ /\ positions[i].taoValue = positions[j].taoValue
                /\ \/ positions[i].stake > positions[j].stake
                   \/ positions[i].stake = positions[j].stake /\ i <= j
           Ahead == [i \in D |-> {j \in D : ~Beats(i, j)}]
<1>1. D = 1..Len(positions) /\ Len(positions) \in Nat /\ D # {} /\ \A i \in D : i \in Int
  <2>1. D = 1..Len(positions) /\ Len(positions) \in Nat
    OBVIOUS
  <2>2. Len(positions) # 0
    OBVIOUS
  <2>3. 1 \in D
    BY <2>1, <2>2
  <2> QED BY <2>1, <2>3
<1>2. IsFiniteSet(D)
  BY <1>1, FS_Interval
<1>3. ASSUME NEW i \in D
      PROVE  /\ positions[i].taoValue \in Nat /\ positions[i].stake \in Nat
             /\ positions[i].hotkey \in hotkeys
  <2>1. positions[i] \in Position(netuids, hotkeys)
    OBVIOUS
  <2> QED BY <2>1 DEF Position
<1>4. \A i, j \in D : j \in Ahead[i] <=> ~Beats(i, j)
  OBVIOUS
<1>5. StrictOrder(D, Ahead)
  <2>1. ASSUME NEW i \in D, i \in Ahead[i] PROVE FALSE
    <3>1. i \in Int
      BY <1>1
    <3> QED BY <1>4, <2>1, <3>1
  <2>2. ASSUME NEW i \in D, NEW j \in D, NEW k \in D, j \in Ahead[i], k \in Ahead[j]
        PROVE  k \in Ahead[i]
    <3>1. ~Beats(i, j) /\ ~Beats(j, k)
      BY <1>4, <2>2
    <3>2. i \in Int /\ j \in Int /\ k \in Int
      BY <1>1
    <3>3. /\ positions[i].taoValue \in Nat /\ positions[i].stake \in Nat
          /\ positions[j].taoValue \in Nat /\ positions[j].stake \in Nat
          /\ positions[k].taoValue \in Nat /\ positions[k].stake \in Nat
      BY <1>3
    <3>4. ~Beats(i, k)
      BY <3>1, <3>2, <3>3
    <3> HIDE DEF Ahead, Beats
    <3> QED BY <1>4, <3>4
  <2> HIDE DEF Ahead, D
  <2> QED BY <2>1, <2>2 DEF StrictOrder
<1>6. PICK i \in D : Ahead[i] \cap D = {}
  <2> HIDE DEF Ahead, D
  <2> QED BY <1>1, <1>2, <1>5, FirstExists
<1>7. \A j \in D : Beats(i, j)
  BY <1>4, <1>6
<1> DEFINE first == CHOOSE k \in D : \A j \in D : Beats(k, j)
<1>8. first \in D
  <2> HIDE DEF Beats
  <2> QED BY <1>7
<1>9. LargestPosition(positions) = positions[first].hotkey
  BY DEF LargestPosition
<1> HIDE DEF first, D
<1> QED BY <1>3, <1>8, <1>9

\* The hotkey chosen for a subnet is known, or there is none.
LEMMA ResolvedIsKnown ==
  ASSUME NEW netuids, NEW hotkeys, NEW stakes \in Seq(Position(netuids, hotkeys)), NEW netuid,
         NEW metagraph, IsFiniteSet(metagraph), \A v \in metagraph : v \in ValidatorsOf(hotkeys),
         NEW fallback \in hotkeys \cup {None}
  PROVE  ResolveValidator(stakes, netuid, metagraph, fallback) \in hotkeys \cup {None}
<1> DEFINE existing == Where(stakes, {i \in DOMAIN stakes : stakes[i].netuid = netuid})
<1>1. existing \in Seq(Position(netuids, hotkeys))
  <2> DEFINE I == {i \in DOMAIN stakes : stakes[i].netuid = netuid}
  <2>1. I \in SUBSET DOMAIN stakes
    OBVIOUS
  <2> HIDE DEF I
  <2>2. Where(stakes, I) \in Seq(Position(netuids, hotkeys))
    BY <2>1, WhereSelects
  <2> QED BY <2>2 DEF I
<1>2. ResolveValidator(stakes, netuid, metagraph, fallback) =
        IF existing # <<>> THEN LargestPosition(existing)
        ELSE IF Candidates(metagraph) # {} THEN BestValidator(metagraph).hotkey
        ELSE fallback
  BY DEF ResolveValidator
<1> HIDE DEF existing
<1>3. existing # <<>> => LargestPosition(existing) \in hotkeys
  BY <1>1, LargestExists
<1>4. Candidates(metagraph) # {} => BestValidator(metagraph).hotkey \in hotkeys
  BY BestExists
<1> QED BY <1>2, <1>3, <1>4

LEMMA Sn0IsKnown ==
  ASSUME NEW netuids, NEW hotkeys, NEW stakes \in Seq(Position(netuids, hotkeys)),
         NEW metagraph, IsFiniteSet(metagraph), \A v \in metagraph : v \in ValidatorsOf(hotkeys),
         NEW fallback \in hotkeys \cup {None}
  PROVE  Sn0Validator(stakes, metagraph, fallback) \in hotkeys \cup {None}
<1> DEFINE root == Where(stakes, {i \in DOMAIN stakes : stakes[i].netuid = 0})
<1>1. root \in Seq(Position(netuids, hotkeys))
  <2> DEFINE I == {i \in DOMAIN stakes : stakes[i].netuid = 0}
  <2>1. I \in SUBSET DOMAIN stakes
    OBVIOUS
  <2> HIDE DEF I
  <2>2. Where(stakes, I) \in Seq(Position(netuids, hotkeys))
    BY <2>1, WhereSelects
  <2> QED BY <2>2 DEF I
<1>2. /\ Candidates(metagraph) = {} =>
           Sn0Validator(stakes, metagraph, fallback) =
             IF root = <<>> THEN fallback ELSE LargestPosition(root)
      /\ Candidates(metagraph) # {} =>
           \/ Sn0Validator(stakes, metagraph, fallback) = BestValidator(metagraph).hotkey
           \/ root # <<>> /\ Sn0Validator(stakes, metagraph, fallback) = LargestPosition(root)
  BY DEF Sn0Validator
<1> HIDE DEF root
<1>3. root # <<>> => LargestPosition(root) \in hotkeys
  BY <1>1, LargestExists
<1>4. Candidates(metagraph) # {} => BestValidator(metagraph).hotkey \in hotkeys
  BY BestExists
<1> QED BY <1>2, <1>3, <1>4

-----------------------------------------------------------------------------
(* What the strategies ask for.                                            *)

Targeted(netuids, hotkeys) ==
  [netuid : netuids, hotkey : hotkeys, share : Nat \X (Nat \ {0})]

\* The subnets of a world, with a hotkey for each or none.
Known(netuids, hotkeys, resolved) ==
  /\ netuids \in SUBSET Nat /\ IsFiniteSet(netuids) /\ 0 \in netuids
  /\ resolved \in [netuids -> hotkeys \cup {None}]

LEMMA KnownPart ==
  ASSUME NEW netuids, NEW hotkeys, NEW resolved, Known(netuids, hotkeys, resolved),
         NEW chosen \in SUBSET netuids
  PROVE  chosen \in SUBSET Int /\ IsFiniteSet(chosen)
<1>1. chosen \in SUBSET Int
  BY DEF Known
<1>2. IsFiniteSet(chosen)
  BY FS_Subset DEF Known
<1> QED BY <1>1, <1>2

Ordered(chosen, resolved, share) ==
  LET order == Increasing(chosen)
  IN [i \in DOMAIN order |-> Target(order[i], resolved[order[i]], share[order[i]])]

LEMMA TargetsOfOrder ==
  ASSUME NEW netuids, NEW hotkeys, NEW resolved, Known(netuids, hotkeys, resolved),
         NEW chosen \in SUBSET netuids, \A n \in chosen : resolved[n] # None,
         NEW share \in [chosen -> Nat \X (Nat \ {0})]
  PROVE  Ordered(chosen, resolved, share) \in Seq(Targeted(netuids, hotkeys))
<1> DEFINE order == Increasing(chosen)
           T == Targeted(netuids, hotkeys)
<1>1. chosen \in SUBSET Int /\ IsFiniteSet(chosen)
  BY KnownPart
<1>2. order \in Seq(chosen)
  BY <1>1, IncreasingLists DEF Lists
<1>3. \A n \in chosen : Target(n, resolved[n], share[n]) \in T
  BY DEF Target, Targeted, Known
<1> HIDE DEF order, T
<1>4. DOMAIN order = 1..Len(order) /\ Len(order) \in Nat /\ \A i \in DOMAIN order : order[i] \in chosen
  BY <1>2
<1> DEFINE t == [i \in DOMAIN order |-> Target(order[i], resolved[order[i]], share[order[i]])]
<1>5. t \in [1..Len(order) -> T]
  BY <1>3, <1>4
<1> HIDE DEF t
<1>6. t \in Seq(T)
  BY <1>4, <1>5
<1> QED BY <1>6 DEF t, T, order, Ordered

LEMMA RootEmissionTyped ==
  ASSUME NEW netuids, NEW hotkeys, NEW resolved, Known(netuids, hotkeys, resolved),
         NEW subnets, \A s \in subnets : s.netuid \in netuids, NEW stakes
  PROVE  RootEmissionTargets(subnets, stakes, resolved) \in Seq(Targeted(netuids, hotkeys))
<1> DEFINE winner == {s.netuid : s \in Winner(subnets, HeldNetuids(stakes))}
           chosen == {n \in {0} \cup winner : resolved[n] # None}
           order == Increasing(chosen)
           share == [n \in chosen |-> RootEmissionShare(n, chosen)]
<1>1. winner \in SUBSET netuids
  BY DEF Winner
<1>2. chosen \in SUBSET netuids
  BY <1>1 DEF Known
<1>3. \A n \in chosen : RootEmissionShare(n, chosen) \in Nat \X (Nat \ {0})
  <2>1. RootSharePct \in Nat /\ 100 - RootSharePct \in Nat /\ 100 \in Nat \ {0} /\ 1 \in Nat \ {0}
    BY StrategyAssumption DEF StrategyAssumption
  <2> QED BY <2>1 DEF RootEmissionShare
<1>4. share \in [chosen -> Nat \X (Nat \ {0})]
  BY <1>3
<1>5. \A n \in chosen : resolved[n] # None
  OBVIOUS
<1>6. RootEmissionTargets(subnets, stakes, resolved) =
        [i \in DOMAIN order |-> Target(order[i], resolved[order[i]],
                                       RootEmissionShare(order[i], chosen))]
  BY DEF RootEmissionTargets
<1> HIDE DEF winner, chosen
<1>7. \A i \in DOMAIN order : order[i] \in chosen
  <2>1. chosen \in SUBSET Int /\ IsFiniteSet(chosen)
    BY <1>2, KnownPart
  <2>2. order \in Seq(chosen)
    BY <2>1, IncreasingLists DEF Lists
  <2> QED BY <2>2
<1>8. \A i \in DOMAIN order : RootEmissionShare(order[i], chosen) = share[order[i]]
  BY <1>7
<1>9. Ordered(chosen, resolved, share) \in Seq(Targeted(netuids, hotkeys))
  <2> HIDE DEF share
  <2> QED BY <1>2, <1>4, <1>5, TargetsOfOrder
<1>10. Ordered(chosen, resolved, share) =
         [i \in DOMAIN order |-> Target(order[i], resolved[order[i]], share[order[i]])]
  BY DEF Ordered
<1> HIDE DEF order, share
<1> QED BY <1>6, <1>8, <1>9, <1>10

LEMMA CopyTradeTyped ==
  ASSUME NEW netuids, NEW hotkeys, NEW resolved, Known(netuids, hotkeys, resolved),
         NEW leader \in [netuids -> Nat], NEW total
  PROVE  CopyTradeTargets(leader, total, resolved) \in Seq(Targeted(netuids, hotkeys))
<1> DEFINE chosen == {n \in LeaderNetuids(leader, total) : resolved[n] # None}
           order == Increasing(chosen)
           sum == SumFunctionOnSet(leader, chosen)
           share == [n \in chosen |-> IF sum = 0 THEN <<1, 1>> ELSE <<leader[n], sum>>]
<1>1. chosen \in SUBSET netuids
  BY DEF LeaderNetuids, Known
<1>2. \A n \in chosen : resolved[n] # None
  OBVIOUS
<1>3. CopyTradeTargets(leader, total, resolved) =
        [i \in DOMAIN order |-> Target(order[i], resolved[order[i]],
                                       IF sum = 0 THEN <<1, 1>> ELSE <<leader[order[i]], sum>>)]
  BY DEF CopyTradeTargets
<1> HIDE DEF chosen
<1>4. chosen \in SUBSET Int /\ IsFiniteSet(chosen)
  BY <1>1, KnownPart
<1>5. sum \in Nat
  <2>1. \A n \in chosen : leader[n] \in Nat
    BY <1>1
  <2> QED BY <1>4, <2>1, SumNat
<1> HIDE DEF sum
<1>6. share \in [chosen -> Nat \X (Nat \ {0})]
  <2>1. \A n \in chosen : leader[n] \in Nat
    BY <1>1
  <2> QED BY <1>5, <2>1
<1>7. \A i \in DOMAIN order : order[i] \in chosen
  <2>1. order \in Seq(chosen)
    BY <1>4, IncreasingLists DEF Lists
  <2> QED BY <2>1
<1>8. \A i \in DOMAIN order :
        (IF sum = 0 THEN <<1, 1>> ELSE <<leader[order[i]], sum>>) = share[order[i]]
  BY <1>7
<1>9. Ordered(chosen, resolved, share) \in Seq(Targeted(netuids, hotkeys))
  <2> HIDE DEF share
  <2> QED BY <1>1, <1>2, <1>6, TargetsOfOrder
<1>10. Ordered(chosen, resolved, share) =
         [i \in DOMAIN order |-> Target(order[i], resolved[order[i]], share[order[i]])]
  BY DEF Ordered
<1> HIDE DEF order, share
<1> QED BY <1>3, <1>8, <1>9, <1>10

LEMMA CowardTyped ==
  ASSUME NEW netuids, NEW hotkeys, 0 \in netuids, NEW stakes \in Seq(Position(netuids, hotkeys)),
         NEW metagraph, IsFiniteSet(metagraph), \A v \in metagraph : v \in ValidatorsOf(hotkeys),
         NEW fallback \in hotkeys \cup {None}
  PROVE  CowardTargets(stakes, metagraph, fallback) \in Seq(Targeted(netuids, hotkeys))
<1> DEFINE hotkey == Sn0Validator(stakes, metagraph, fallback)
<1>1. hotkey \in hotkeys \cup {None}
  BY Sn0IsKnown
<1>2. CowardTargets(stakes, metagraph, fallback) =
        IF hotkey = None THEN <<>> ELSE <<Target(0, hotkey, <<1, 1>>)>>
  BY DEF CowardTargets
<1> HIDE DEF hotkey
<1>3. hotkey # None => Target(0, hotkey, <<1, 1>>) \in Targeted(netuids, hotkeys)
  BY <1>1 DEF Target, Targeted
<1> QED BY <1>2, <1>3

-----------------------------------------------------------------------------
(* The scores of sma-stoploss are numbers, so that the winners are ordered. *)

LEMMA SmaIsNat ==
  ASSUME NEW prices \in Seq(Nat), NEW period \in Nat \ {0}
  PROVE  ComputeSMA(prices, period) \in Nat
<1> DEFINE last == Len(prices) - period + 1 .. Len(prices)
<1>1. CASE Len(prices) < period
  BY <1>1 DEF ComputeSMA
<1>2. CASE Len(prices) >= period
  <2>1. IsFiniteSet(last)
    BY FS_Interval
  <2>2. \A i \in last : prices[i] \in Nat
    BY <1>2
  <2> HIDE DEF last
  <2>3. SumFunctionOnSet(prices, last) \in Nat
    BY <2>1, <2>2, SumNat
  <2>4. ComputeSMA(prices, period) = SumFunctionOnSet(prices, last) \div period
    BY <1>2 DEF ComputeSMA, last
  <2> QED BY <2>3, <2>4
<1> QED BY <1>1, <1>2

LEMMA YieldIsNat ==
  ASSUME NEW s \in SubnetState
  PROVE  EmissionYield(s) \in Nat
<1>1. s.alphaIn \in Nat /\ s.alphaOut \in Nat /\ s.taoIn \in Nat /\ s.taoInEmission \in Nat
  BY DEF SubnetState
<1>2. MarketCap(s) \in Nat
  <2>1. s.alphaOut * s.taoIn \in Nat
    BY <1>1
  <2> QED BY <1>1, <2>1 DEF MarketCap
<1>3. BlocksPerYear \in Nat /\ Precision \in Nat
  BY StrategyAssumption DEF StrategyAssumption
<1>4. s.taoInEmission * BlocksPerYear * Precision \in Nat
  BY <1>1, <1>3
<1> QED BY <1>2, <1>4 DEF EmissionYield

LEMMA ScoresAreNumbers ==
  ASSUME NEW passing, IsFiniteSet(passing), NEW samples,
         \A s \in passing : /\ s \in SubnetState /\ samples[s.netuid] \in Seq(Nat)
                            /\ SlowSma(s, samples) > 0,
         NEW held
  PROVE  SmaScores(passing, held, samples) \in [passing -> Int]
<1>0. /\ {Precision, MomentumWeight, EmissionWeight, IncumbencyBonus} \subseteq Nat
      /\ {SmaFastPeriod, SmaSlowPeriod} \subseteq Nat \ {0}
  BY StrategyAssumption DEF StrategyAssumption
<1>1. ASSUME NEW s \in passing
      PROVE  Momentum(s, samples) \in Int /\ EmissionYield(s) \in Int
  <2>1. samples[s.netuid] \in Seq(Nat) /\ SmaFastPeriod \in Nat \ {0} /\ SmaSlowPeriod \in Nat \ {0}
    BY <1>0
  <2>2. FastSma(s, samples) \in Nat /\ SlowSma(s, samples) \in Nat \ {0}
    <3>1. FastSma(s, samples) \in Nat /\ SlowSma(s, samples) \in Nat
      BY <2>1, SmaIsNat DEF FastSma, SlowSma
    <3> QED BY <3>1
  <2>3. (FastSma(s, samples) - SlowSma(s, samples)) * Precision \in Int
    BY <1>0, <2>2
  <2>4. Momentum(s, samples) \in Int
    BY <2>2, <2>3 DEF Momentum
  <2>5. EmissionYield(s) \in Nat
    BY YieldIsNat
  <2> QED BY <2>4, <2>5
<1> DEFINE A == {0} \cup {Momentum(s, samples) : s \in passing}
           B == {0} \cup {EmissionYield(s) : s \in passing}
           Normalized(value, max) == IF max > 0 THEN (value * Precision) \div max ELSE 0
<1>2. Max(A) \in Int /\ Max(B) \in Int
  <2>1. A \in SUBSET Int /\ B \in SUBSET Int /\ A # {} /\ B # {}
    BY <1>1
  <2>2. IsFiniteSet(A) /\ IsFiniteSet(B)
    <3>1. IsFiniteSet({0})
      BY FS_Singleton
    <3>2. IsFiniteSet({Momentum(s, samples) : s \in passing})
      <4> DEFINE f == [s \in passing |-> Momentum(s, samples)]
      <4>1. f \in Surjection(passing, {Momentum(s, samples) : s \in passing})
        BY DEF Surjection
      <4> QED BY <4>1, FS_Surjection
    <3>3. IsFiniteSet({EmissionYield(s) : s \in passing})
      <4> DEFINE f == [s \in passing |-> EmissionYield(s)]
      <4>1. f \in Surjection(passing, {EmissionYield(s) : s \in passing})
        BY DEF Surjection
      <4> QED BY <4>1, FS_Surjection
    <3> QED BY <3>1, <3>2, <3>3, FS_Union
  <2> HIDE DEF A, B
  <2>3. Max(A) \in A /\ Max(B) \in B
    BY <2>1, <2>2, MaxIsMember
  <2> QED BY <2>1, <2>3
<1>3. SmaScores(passing, held, samples) =
        [s \in passing |->
           (Normalized(Momentum(s, samples), Max(A)) * MomentumWeight) \div 100
           + (Normalized(EmissionYield(s), Max(B)) * EmissionWeight) \div 100
           + Bonus(s, held)]
  BY DEF SmaScores
<1> HIDE DEF A, B
<1>4. ASSUME NEW value \in Int, NEW max \in Int, NEW weight \in Nat
      PROVE  (Normalized(value, max) * weight) \div 100 \in Int
  <2>1. value * Precision \in Int
    BY <1>0
  <2>2. Normalized(value, max) \in Int
    BY <2>1
  <2> HIDE DEF Normalized
  <2>3. Normalized(value, max) * weight \in Int
    BY <2>2
  <2> QED BY <2>3
<1>5. \A s : Bonus(s, held) \in Int
  <2>1. IncumbencyBonus * Precision \in Int
    BY <1>0
  <2> QED BY <2>1 DEF Bonus
<1> HIDE DEF Normalized
<1>6. ASSUME NEW s \in passing
      PROVE  (Normalized(Momentum(s, samples), Max(A)) * MomentumWeight) \div 100
             + (Normalized(EmissionYield(s), Max(B)) * EmissionWeight) \div 100
             + Bonus(s, held) \in Int
  <2>1. MomentumWeight \in Nat /\ EmissionWeight \in Nat
    BY <1>0
  <2>2. (Normalized(Momentum(s, samples), Max(A)) * MomentumWeight) \div 100 \in Int
    BY <1>1, <1>2, <1>4, <2>1
  <2>3. (Normalized(EmissionYield(s), Max(B)) * EmissionWeight) \div 100 \in Int
    BY <1>1, <1>2, <1>4, <2>1
  <2> QED BY <1>5, <2>2, <2>3
<1> QED BY <1>3, <1>6

LEMMA WhereShorter ==
  ASSUME NEW E, NEW s \in Seq(E), NEW I \in SUBSET DOMAIN s
  PROVE  Len(Where(s, I)) <= Len(s)
<1>1. Len(Where(s, I)) = Cardinality(I)
  BY WhereSelects DEF Lists
<1>2. DOMAIN s = 1..Len(s) /\ Len(s) \in Nat
  OBVIOUS
<1>3. IsFiniteSet(1..Len(s)) /\ Cardinality(1..Len(s)) = Len(s)
  <2> DEFINE n == Len(s)
  <2>1. n \in Nat
    BY <1>2
  <2> HIDE DEF n
  <2>2. IsFiniteSet(1..n) /\ Cardinality(1..n) = n
    BY <2>1, FS_Interval
  <2> QED BY <2>2 DEF n
<1>4. Cardinality(I) <= Cardinality(1..Len(s))
  BY <1>2, <1>3, FS_Subset
<1> QED BY <1>1, <1>3, <1>4

LEMMA WinnersTyped ==
  ASSUME NEW netuids \in SUBSET Nat, NEW passing, IsFiniteSet(passing),
         \A s \in passing : s.netuid \in netuids, NEW score \in [passing -> Int]
  PROVE  SmaWinners(score) \in Seq(netuids) /\ Len(SmaWinners(score)) <= MaxSubnets
<1> DEFINE Before(s, r) == score[s] > score[r] \/ (score[s] = score[r] /\ s.netuid < r.netuid)
           Ahead == [r \in passing |-> {s \in passing : Before(s, r)}]
           order == InOrder(passing, Ahead)
           m == Min({Len(order), MaxSubnets})
           w == [i \in 1..m |-> order[i].netuid]
<1>1. StrictOrder(passing, Ahead)
  <2>1. \A s, r \in passing : s \in Ahead[r] <=> Before(s, r)
    OBVIOUS
  <2>2. ASSUME NEW s \in passing PROVE score[s] \in Int /\ s.netuid \in Int
    <3>1. s.netuid \in netuids
      OBVIOUS
    <3>2. netuids \subseteq Int
      OBVIOUS
    <3> QED BY <3>1, <3>2
  <2> HIDE DEF Ahead
  <2>3. ASSUME NEW x \in passing, x \in Ahead[x] PROVE FALSE
    <3>1. Before(x, x) /\ score[x] \in Int /\ x.netuid \in Int
      BY <2>1, <2>2, <2>3
    <3> QED BY <3>1
  <2>4. ASSUME NEW x \in passing, NEW y \in passing, NEW z \in passing, y \in Ahead[x], z \in Ahead[y]
        PROVE  z \in Ahead[x]
    <3> DEFINE a == score[x]
               b == score[y]
               c == score[z]
               i == x.netuid
               j == y.netuid
               k == z.netuid
    <3>1. a \in Int /\ b \in Int /\ c \in Int /\ i \in Int /\ j \in Int /\ k \in Int
      BY <2>2
    <3>2. (b > a \/ (b = a /\ j < i)) /\ (c > b \/ (c = b /\ k < j))
      BY <2>1, <2>4
    <3> HIDE DEF a, b, c, i, j, k
    <3>3. c > a \/ (c = a /\ k < i)
      BY <3>1, <3>2
    <3>4. Before(z, x)
      BY <3>3 DEF a, c, i, k
    <3> HIDE DEF Before
    <3> QED BY <2>1, <3>4
  <2> QED BY <2>3, <2>4 DEF StrictOrder
<1>2. SmaWinners(score) = w
  <2>1. DOMAIN score = passing
    OBVIOUS
  <2> QED BY <2>1 DEF SmaWinners
<1>3. order \in Seq(passing)
  <2> HIDE DEF Ahead
  <2> QED BY <1>1, InOrderLists DEF Lists
<1> HIDE DEF order
<1>4. MaxSubnets \in Nat /\ Len(order) \in Nat
  BY <1>3, StrategyAssumption DEF StrategyAssumption
<1>5. m \in Nat /\ m <= Len(order) /\ m <= MaxSubnets
  <2>1. Len(order) \in Int /\ MaxSubnets \in Int
    BY <1>4
  <2>2. m \in {Len(order), MaxSubnets} /\ m <= Len(order) /\ m <= MaxSubnets
    BY <2>1, MinOfTwo
  <2> HIDE DEF m
  <2> QED BY <1>4, <2>2
<1> HIDE DEF m
<1>6. \A i \in 1..m : order[i].netuid \in netuids
  <2> SUFFICES ASSUME NEW i \in 1..m PROVE order[i] \in passing
    OBVIOUS
  <2>1. i \in 1..Len(order)
    BY <1>4, <1>5
  <2> QED BY <1>3, <2>1
<1>7. w \in [1..m -> netuids]
  BY <1>6
<1>8. w \in Seq(netuids) /\ Len(w) = m
  <2> HIDE DEF w
  <2> QED BY <1>5, <1>7
<1> HIDE DEF w
<1> QED BY <1>2, <1>5, <1>8

LEMMA SlotsTyped ==
  ASSUME NEW netuids, NEW hotkeys, NEW resolved, Known(netuids, hotkeys, resolved),
         NEW winners \in Seq(netuids), Len(winners) <= MaxSubnets,
         \A i \in DOMAIN winners : resolved[winners[i]] # None
  PROVE  SmaSlots(winners, resolved) \in Seq(Targeted(netuids, hotkeys))
<1> DEFINE T == Targeted(netuids, hotkeys)
           slots == [i \in DOMAIN winners |->
                      Target(winners[i], resolved[winners[i]], <<1, MaxSubnets>>)]
           left == MaxSubnets - Len(winners)
           root == IF left > 0 /\ resolved[0] # None
                   THEN <<Target(0, resolved[0], <<left, MaxSubnets>>)>> ELSE <<>>
<1>1. MaxSubnets \in Nat \ {0}
  BY StrategyAssumption DEF StrategyAssumption
<1>2. Len(winners) \in Nat /\ DOMAIN winners = 1..Len(winners)
      /\ \A i \in DOMAIN winners : winners[i] \in netuids
  OBVIOUS
<1>3. \A i \in DOMAIN winners : Target(winners[i], resolved[winners[i]], <<1, MaxSubnets>>) \in T
  <2> SUFFICES ASSUME NEW i \in DOMAIN winners
               PROVE Target(winners[i], resolved[winners[i]], <<1, MaxSubnets>>) \in T
    OBVIOUS
  <2>1. winners[i] \in netuids /\ resolved[winners[i]] \in hotkeys
    BY <1>2 DEF Known
  <2> QED BY <1>1, <2>1 DEF Target, Targeted
<1>4. slots \in Seq(T)
  <2> HIDE DEF T
  <2>1. slots \in [1..Len(winners) -> T]
    BY <1>2, <1>3
  <2> HIDE DEF slots
  <2> QED BY <1>2, <2>1
<1>5. root \in Seq(T)
  <2>1. left \in Nat
    BY <1>1, <1>2
  <2>2. CASE left > 0 /\ resolved[0] # None
    <3>1. 0 \in netuids /\ resolved[0] \in hotkeys
      BY <2>2 DEF Known
    <3> HIDE DEF left
    <3>2. Target(0, resolved[0], <<left, MaxSubnets>>) \in T
      BY <1>1, <2>1, <3>1 DEF Target, Targeted
    <3> HIDE DEF T
    <3> QED BY <2>2, <3>2
  <2>3. CASE ~(left > 0 /\ resolved[0] # None)
    BY <2>3
  <2> QED BY <2>2, <2>3
<1>6. SmaSlots(winners, resolved) = slots \o root
  BY DEF SmaSlots
<1> HIDE DEF slots, root, T
<1>7. slots \o root \in Seq(T)
  BY <1>4, <1>5
<1> QED BY <1>6, <1>7 DEF T

LEMMA SmaTyped ==
  ASSUME NEW netuids, NEW hotkeys, NEW resolved, Known(netuids, hotkeys, resolved),
         NEW subnets, IsFiniteSet(subnets), NEW stakes, NEW samples, NEW stoppedOut,
         \A s \in subnets : /\ s \in SubnetState /\ s.netuid \in netuids
                            /\ samples[s.netuid] \in Seq(Nat)
  PROVE  SmaTargets(subnets, stakes, samples, stoppedOut, resolved)
           \in Seq(Targeted(netuids, hotkeys))
<1> DEFINE passing == Passing(subnets, samples, stoppedOut)
           score == SmaScores(passing, HeldNetuids(stakes), samples)
           winners == SmaWinners(score)
           I == {i \in DOMAIN winners : resolved[winners[i]] # None}
<1>1. passing \in SUBSET subnets
  BY DEF Passing, Gated
<1>2. IsFiniteSet(passing)
  BY <1>1, FS_Subset
<1>3. \A s \in passing : /\ s \in SubnetState /\ samples[s.netuid] \in Seq(Nat)
                         /\ SlowSma(s, samples) > 0
  <2>1. \A s \in passing : SlowSma(s, samples) > 0
    BY DEF Passing
  <2> QED BY <1>1, <2>1
<1>4. SmaTargets(subnets, stakes, samples, stoppedOut, resolved) =
        IF ColdStart(subnets, samples, stoppedOut) THEN <<>>
        ELSE SmaSlots(Where(winners, I), resolved)
  BY DEF SmaTargets
<1> HIDE DEF passing
<1>5. score \in [passing -> Int]
  BY <1>2, <1>3, ScoresAreNumbers
<1> HIDE DEF score
<1>6. winners \in Seq(netuids) /\ Len(winners) <= MaxSubnets
  <2>1. netuids \in SUBSET Nat
    BY DEF Known
  <2>2. \A s \in passing : s.netuid \in netuids
    BY <1>1
  <2> QED BY <1>2, <1>5, <2>1, <2>2, WinnersTyped
<1> HIDE DEF winners
<1> DEFINE kept == Where(winners, I)
<1>7. I \in SUBSET DOMAIN winners /\ \A i \in I : resolved[winners[i]] # None
  OBVIOUS
<1> HIDE DEF I
<1>8. /\ kept \in Seq(netuids) /\ DOMAIN kept = 1..Len(Increasing(I))
      /\ \A k \in 1..Len(Increasing(I)) : Increasing(I)[k] \in I /\ kept[k] = winners[Increasing(I)[k]]
  BY <1>6, <1>7, WhereSelects
<1>9. Len(kept) <= MaxSubnets
  <2>1. Len(kept) <= Len(winners)
    BY <1>6, <1>7, WhereShorter
  <2>2. Len(kept) \in Nat /\ Len(winners) \in Nat /\ MaxSubnets \in Nat
    <3>1. Len(kept) \in Nat
      <4> HIDE DEF kept
      <4> QED BY <1>8
    <3>2. Len(winners) \in Nat
      BY <1>6
    <3> QED BY <3>1, <3>2, StrategyAssumption DEF StrategyAssumption
  <2> HIDE DEF kept
  <2> QED BY <1>6, <2>1, <2>2
<1>10. \A k \in DOMAIN kept : resolved[kept[k]] # None
  <2> HIDE DEF kept
  <2> QED BY <1>7, <1>8
<1> HIDE DEF kept
<1>11. SmaSlots(kept, resolved) \in Seq(Targeted(netuids, hotkeys))
  BY <1>8, <1>9, <1>10, SlotsTyped
<1> QED BY <1>4, <1>11 DEF kept

-----------------------------------------------------------------------------
(* The operations of a plan.                                               *)

MoveOps(netuids, hotkeys) ==
  [kind : {"move"}, netuid : netuids, hotkey : hotkeys, destination : hotkeys,
   alpha : Nat \cup {Sweep}]
SwapOps(netuids, hotkeys) ==
  [kind : {"swap"}, netuid : netuids, hotkey : hotkeys, origin : hotkeys, destination : netuids,
   alpha : Nat, tao : Int, limit : Int]
UnstakeOps(netuids, hotkeys) ==
  [kind : {"unstake", "unstake_partial"}, netuid : netuids, hotkey : hotkeys,
   alpha : Nat, tao : Nat, limit : Int]
StakeOps(netuids, hotkeys) ==
  [kind : {"stake"}, netuid : netuids, hotkey : hotkeys, tao : Nat, limit : Int]

Operation(netuids, hotkeys) ==
  MoveOps(netuids, hotkeys) \cup SwapOps(netuids, hotkeys)
    \cup UnstakeOps(netuids, hotkeys) \cup StakeOps(netuids, hotkeys)

\* A resolved target.
Goal(netuids, hotkeys) == [netuid : netuids, hotkey : hotkeys, value : Nat]

\* A position that holds what it is worth at its price.
Priced(netuids, hotkeys) ==
  {p \in Position(netuids, hotkeys) : p.taoValue * TAO <= p.stake * p.alphaPrice}

PlanState(netuids, hotkeys, aims) ==
  [ops : Seq(Operation(netuids, hotkeys)), fulfilled : [aims -> Int]]

LEMMA Division ==
  ASSUME NEW a \in Nat, NEW b \in Nat \ {0}
  PROVE  /\ a \div b \in Nat
         /\ (a \div b) * b <= a
         /\ a < (a \div b) * b + b
OBVIOUS

LEMMA Config ==
  /\ TAO \in Nat \ {0} /\ ShareUnit \in Nat \ {0}
  /\ {FreeReserve, ReserveDriftPercent, MinOperation, MinStake, MinRebalance,
      DriftPercent, SlippagePercent} \subseteq Nat
BY ConfigAssumption DEF ConfigAssumption

LEMMA ConversionsNat ==
  ASSUME NEW x \in Nat, NEW price \in Nat
  PROVE  AlphaToTao(x, price) \in Nat /\ TaoToAlpha(x, price) \in Nat
<1>1. x * price \in Nat /\ x * TAO \in Nat /\ TAO \in Nat \ {0}
  BY Config
<1>2. AlphaToTao(x, price) \in Nat
  BY <1>1, Division DEF AlphaToTao
<1>3. price > 0 => (x * TAO) \div price \in Nat
  <2>1. price > 0 => price \in Nat \ {0}
    OBVIOUS
  <2> QED BY <1>1, <2>1, Division
<1> QED BY <1>2, <1>3 DEF TaoToAlpha

LEMMA SwapToTyped ==
  ASSUME NEW netuids, NEW hotkeys, NEW p, p.netuid \in netuids, p.hotkey \in hotkeys,
         NEW t, t.netuid \in netuids, t.hotkey \in hotkeys,
         NEW alpha \in Nat, NEW tao \in Int, NEW moved \in Nat \cup {Sweep}, NEW limits \in BOOLEAN
  PROVE  SwapTo(p, t, alpha, tao, moved, limits) \in Seq(Operation(netuids, hotkeys))
<1> DEFINE move == [kind |-> "move", netuid |-> p.netuid, hotkey |-> p.hotkey,
                    destination |-> t.hotkey, alpha |-> moved]
           swap == [kind |-> "swap", netuid |-> p.netuid, hotkey |-> t.hotkey,
                    origin |-> IF limits THEN t.hotkey ELSE p.hotkey,
                    destination |-> t.netuid, alpha |-> alpha, tao |-> tao, limit |-> 0]
<1>1. SwapTo(p, t, alpha, tao, moved, limits) =
        IF limits /\ t.hotkey # p.hotkey THEN <<move, swap>> ELSE <<swap>>
  BY DEF SwapTo
<1>2. move \in MoveOps(netuids, hotkeys)
  BY DEF MoveOps
<1>3. swap \in SwapOps(netuids, hotkeys)
  BY DEF SwapOps
<1>4. move \in Operation(netuids, hotkeys) /\ swap \in Operation(netuids, hotkeys)
  BY <1>2, <1>3 DEF Operation
<1> HIDE DEF move, swap
<1> QED BY <1>1, <1>4

LEMMA UnstakesTyped ==
  ASSUME NEW netuids, NEW hotkeys, NEW p \in Position(netuids, hotkeys)
  PROVE  /\ Unstake(p) \in Operation(netuids, hotkeys)
         /\ \A alpha, tao \in Nat : UnstakePartial(p, alpha, tao) \in Operation(netuids, hotkeys)
<1>1. p.netuid \in netuids /\ p.hotkey \in hotkeys /\ p.stake \in Nat /\ p.taoValue \in Nat
  BY DEF Position
<1>2. Unstake(p) \in UnstakeOps(netuids, hotkeys)
  BY <1>1 DEF Unstake, UnstakeOps
<1>3. \A alpha, tao \in Nat : UnstakePartial(p, alpha, tao) \in UnstakeOps(netuids, hotkeys)
  BY <1>1 DEF UnstakePartial, UnstakeOps
<1> QED BY <1>2, <1>3 DEF Operation

LEMMA AddOpsTyped ==
  ASSUME NEW netuids, NEW hotkeys, NEW aims, NEW plan \in PlanState(netuids, hotkeys, aims),
         NEW more \in Seq(Operation(netuids, hotkeys))
  PROVE  AddOps(plan, more) \in PlanState(netuids, hotkeys, aims)
<1> DEFINE O == Operation(netuids, hotkeys)
<1>1. plan.ops \in Seq(O) /\ plan.fulfilled \in [aims -> Int]
      /\ plan = [ops |-> plan.ops, fulfilled |-> plan.fulfilled]
  BY DEF PlanState
<1>2. plan.ops \o more \in Seq(O)
  <2> HIDE DEF O
  <2>1. more \in Seq(O)
    BY DEF O
  <2> QED BY <1>1, <2>1
<1>3. AddOps(plan, more) = [ops |-> plan.ops \o more, fulfilled |-> plan.fulfilled]
  <2>1. \A x, y, z : [[ops |-> x, fulfilled |-> y] EXCEPT !.ops = z] = [ops |-> z, fulfilled |-> y]
    OBVIOUS
  <2>2. AddOps(plan, more) = [plan EXCEPT !.ops = plan.ops \o more]
    BY DEF AddOps
  <2> DEFINE x == plan.ops
             y == plan.fulfilled
  <2>3. plan = [ops |-> x, fulfilled |-> y]
    BY <1>1
  <2> HIDE DEF x, y
  <2>4. AddOps(plan, more) = [ops |-> x \o more, fulfilled |-> y]
    BY <2>1, <2>2, <2>3
  <2> QED BY <2>4 DEF x, y
<1> QED BY <1>1, <1>2, <1>3 DEF PlanState

LEMMA FulfilTyped ==
  ASSUME NEW netuids, NEW hotkeys, NEW aims, NEW plan \in PlanState(netuids, hotkeys, aims),
         NEW t, t.netuid \in aims, NEW tao \in Int
  PROVE  Fulfil(plan, t, tao) \in PlanState(netuids, hotkeys, aims)
<1> DEFINE f == [plan.fulfilled EXCEPT ![t.netuid] = @ + tao]
<1>1. plan.fulfilled \in [aims -> Int] /\ plan.ops \in Seq(Operation(netuids, hotkeys))
      /\ plan = [ops |-> plan.ops, fulfilled |-> plan.fulfilled]
  BY DEF PlanState
<1>2. f \in [aims -> Int]
  BY <1>1
<1>3. Fulfil(plan, t, tao) = [ops |-> plan.ops, fulfilled |-> f]
  <2>1. \A x, y : [[ops |-> x, fulfilled |-> y] EXCEPT !.fulfilled[t.netuid] = @ + tao]
                    = [ops |-> x, fulfilled |-> [y EXCEPT ![t.netuid] = @ + tao]]
    OBVIOUS
  <2>2. Fulfil(plan, t, tao) = [plan EXCEPT !.fulfilled[t.netuid] = @ + tao]
    BY DEF Fulfil
  <2> DEFINE x == plan.ops
             y == plan.fulfilled
  <2>3. plan = [ops |-> x, fulfilled |-> y]
    BY <1>1
  <2> HIDE DEF x, y
  <2>4. Fulfil(plan, t, tao) = [ops |-> x, fulfilled |-> [y EXCEPT ![t.netuid] = @ + tao]]
    BY <2>1, <2>2, <2>3
  <2> QED BY <2>4 DEF x, y, f
<1> HIDE DEF f
<1> QED BY <1>1, <1>2, <1>3 DEF PlanState

LEMMA DeficitInt ==
  ASSUME NEW netuids, NEW hotkeys, NEW aims, NEW plan \in PlanState(netuids, hotkeys, aims),
         NEW t \in Goal(netuids, hotkeys), t.netuid \in aims
  PROVE  Deficit(plan, t) \in Int
<1>1. plan.fulfilled[t.netuid] \in Int
  BY DEF PlanState
<1>2. t.value \in Nat
  BY DEF Goal
<1> QED BY <1>1, <1>2 DEF Deficit

\* What passes a filter is in E if what the filter lets through is.
LEMMA WhereIn ==
  ASSUME NEW E, NEW F, NEW s \in Seq(E), NEW I \in SUBSET DOMAIN s, \A i \in I : s[i] \in F
  PROVE  Where(s, I) \in Seq(F)
<1> DEFINE w == Where(s, I)
           n == Len(Increasing(I))
<1>1. w \in Seq(E) /\ DOMAIN w = 1..n /\ Len(w) = n
      /\ \A k \in 1..n : Increasing(I)[k] \in I /\ w[k] = s[Increasing(I)[k]]
  BY WhereSelects
<1> HIDE DEF w, n
<1>2. \A k \in 1..n : w[k] \in F
  BY <1>1
<1>3. w \in [1..n -> F] /\ n \in Nat
  <2>1. Len(w) \in Nat
    BY <1>1
  <2>2. w = [k \in 1..n |-> w[k]]
    BY <1>1
  <2> QED BY <1>1, <1>2, <2>1, <2>2
<1>4. w \in Seq(F)
  BY <1>3
<1> QED BY <1>4 DEF w

-----------------------------------------------------------------------------
(* A split never gives more than there is.                                 *)

\* Targets in need, by a plan.
Needy(netuids, hotkeys, aims, plan) ==
  {t \in Goal(netuids, hotkeys) : t.netuid \in aims /\ Deficit(plan, t) > 0}

LEMMA DomainFinite ==
  ASSUME NEW E, NEW s \in Seq(E)
  PROVE  IsFiniteSet(DOMAIN s)
<1> DEFINE n == Len(s)
<1>1. n \in Nat /\ DOMAIN s = 1..n
  OBVIOUS
<1> HIDE DEF n
<1>2. IsFiniteSet(1..n)
  BY <1>1, FS_Interval
<1> QED BY <1>1, <1>2

LEMMA ListFinite ==
  ASSUME NEW E, NEW n \in Nat, NEW f \in [1..n -> E]
  PROVE  IsFiniteSet(1..n)
BY FS_Interval

TotalDeficit(plan, eligible) ==
  SumFunction([i \in DOMAIN eligible |-> Deficit(plan, eligible[i])])

PortionsOf(plan, allocations, distributable, total) ==
  [k \in DOMAIN allocations |-> (distributable * Deficit(plan, allocations[k])) \div total]

LEMMA PortionsFit ==
  ASSUME NEW netuids, NEW hotkeys, NEW aims, NEW plan \in PlanState(netuids, hotkeys, aims),
         NEW eligible \in Seq(Needy(netuids, hotkeys, aims, plan)), eligible # <<>>,
         NEW total, total = TotalDeficit(plan, eligible),
         NEW distributable \in Nat, NEW I \in SUBSET DOMAIN eligible,
         NEW portions,
         portions = PortionsOf(plan, Where(eligible, I), distributable, total)
  PROVE  /\ total \in Nat \ {0}
         /\ portions \in [1..Len(Where(eligible, I)) -> Nat]
         /\ SumFunction(portions) \in Nat
         /\ SumFunction(portions) <= distributable
<1> DEFINE D == DOMAIN eligible
           d == [i \in D |-> Deficit(plan, eligible[i])]
           at == Increasing(I)
           n == Len(at)
           m == [k \in 1..n |-> at[k]]
<1>1. D = 1..Len(eligible) /\ Len(eligible) \in Nat /\ 1 \in D
      /\ \A i \in D : eligible[i] \in Needy(netuids, hotkeys, aims, plan)
  <2>1. D = 1..Len(eligible) /\ Len(eligible) \in Nat /\ Len(eligible) # 0
        /\ \A i \in D : eligible[i] \in Needy(netuids, hotkeys, aims, plan)
    OBVIOUS
  <2> QED BY <2>1
<1>2. IsFiniteSet(D)
  BY DomainFinite
<1>3. \A i \in D : d[i] \in Nat \ {0}
  <2> SUFFICES ASSUME NEW i \in D PROVE Deficit(plan, eligible[i]) \in Nat \ {0}
    OBVIOUS
  <2>1. eligible[i] \in Goal(netuids, hotkeys) /\ eligible[i].netuid \in aims
        /\ Deficit(plan, eligible[i]) > 0
    BY <1>1 DEF Needy
  <2>2. Deficit(plan, eligible[i]) \in Int
    BY <2>1, DeficitInt
  <2> QED BY <2>1, <2>2
<1>4. total = SumFunctionOnSet(d, D)
  BY DEF TotalDeficit, SumFunction
<1>5. total \in Nat \ {0}
  <2> HIDE DEF D, d
  <2>1. \A i \in D : d[i] \in Nat
    BY <1>3
  <2>2. SumFunctionOnSet(d, D) \in Nat /\ SumFunctionOnSet(d, D) >= d[1]
    BY <1>1, <1>2, <2>1, SumNat
  <2>3. d[1] \in Nat \ {0}
    BY <1>1, <1>3
  <2> QED BY <1>4, <2>2, <2>3
<1>6. /\ DOMAIN Where(eligible, I) = 1..n /\ Len(Where(eligible, I)) = n /\ n \in Nat
      /\ \A k \in 1..n : at[k] \in I /\ Where(eligible, I)[k] = eligible[at[k]]
      /\ \A j, k \in 1..n : at[j] = at[k] => j = k
  <2>1. /\ DOMAIN Where(eligible, I) = 1..n /\ Len(Where(eligible, I)) = n
        /\ \A k \in 1..n : at[k] \in I /\ Where(eligible, I)[k] = eligible[at[k]]
        /\ Lists(I, at)
    BY WhereSelects
  <2>2. \A j, k \in 1..n : at[j] = at[k] => j = k
    BY <2>1 DEF Lists
  <2>3. n \in Nat
    <3>1. at \in Seq(I)
      BY <2>1 DEF Lists
    <3> HIDE DEF at
    <3> QED BY <3>1
  <2> HIDE DEF at
  <2> QED BY <2>1, <2>2, <2>3
<1> HIDE DEF at, n
<1>7. portions = [k \in 1..n |-> (distributable * d[m[k]]) \div total]
  <2>1. \A k \in 1..n : at[k] \in D /\ Deficit(plan, Where(eligible, I)[k]) = d[m[k]]
    BY <1>6
  <2> QED BY <1>6, <2>1 DEF PortionsOf
<1>8. \A k \in 1..n : m[k] \in D
  BY <1>6
<1>9. Injects(1..n, D, m)
  BY <1>6, <1>8 DEF Injects
<1> HIDE DEF d, D, m
<1>10. ASSUME NEW k \in 1..n
       PROVE  portions[k] \in Nat /\ total * portions[k] <= distributable * d[m[k]]
  <2>1. d[m[k]] \in Nat
    BY <1>3, <1>8
  <2>2. distributable * d[m[k]] \in Nat
    BY <2>1
  <2>3. portions[k] = (distributable * d[m[k]]) \div total
    BY <1>7
  <2> DEFINE x == distributable * d[m[k]]
  <2> HIDE DEF x
  <2>4. x \in Nat /\ portions[k] = x \div total
    BY <2>2, <2>3 DEF x
  <2>5. x \div total \in Nat /\ (x \div total) * total <= x
    BY <1>5, <2>4, Division
  <2>6. total * portions[k] <= x
    BY <1>5, <2>4, <2>5
  <2> QED BY <2>4, <2>5, <2>6 DEF x
<1>11. portions \in [1..n -> Nat]
  BY <1>7, <1>10
<1>12. SumFunction(portions) = SumFunctionOnSet(portions, 1..n)
  BY <1>11 DEF SumFunction
<1>13. IsFiniteSet(1..n)
  BY <1>6, <1>11, ListFinite
<1>14. SumFunctionOnSet(portions, 1..n) \in Nat
  BY <1>10, <1>13, SumNat
<1>15. total * SumFunctionOnSet(portions, 1..n) <= distributable * SumFunctionOnSet(d, D)
  <2>1. NoLarger(1..n, total, portions, distributable, d, m)
    BY <1>10 DEF NoLarger
  <2>2. total \in Nat /\ (\A k \in 1..n : portions[k] \in Nat) /\ (\A i \in D : d[i] \in Nat)
    BY <1>3, <1>5, <1>10
  <2> QED BY <1>2, <1>9, <1>13, <2>1, <2>2, SumsCompare
<1>16. SumFunctionOnSet(portions, 1..n) <= distributable
  <2> DEFINE x == SumFunctionOnSet(portions, 1..n)
  <2>1. x \in Nat /\ total * x <= distributable * total
    BY <1>4, <1>14, <1>15
  <2> HIDE DEF x
  <2>2. x * total <= distributable * total
    BY <1>5, <2>1
  <2>3. x <= distributable
    BY <1>5, <2>1, <2>2, Cancel
  <2> QED BY <2>3 DEF x
<1> QED BY <1>5, <1>6, <1>11, <1>12, <1>14, <1>16

LEMMA SplitTaoNat ==
  ASSUME NEW n \in Nat, NEW portions \in [1..n -> Nat], NEW distributable \in Nat,
         SumFunction(portions) \in Nat, SumFunction(portions) <= distributable
  PROVE  /\ SplitTao(portions, distributable) \in [1..n -> Nat]
         /\ \A i \in 1..n : i # n => SplitTao(portions, distributable)[i] = portions[i]
<1>1. DOMAIN portions = 1..n /\ Len(portions) = n
  OBVIOUS
<1>2. SplitTao(portions, distributable) =
        [i \in 1..n |-> portions[i] + IF i = n THEN distributable - SumFunction(portions) ELSE 0]
  BY <1>1 DEF SplitTao
<1> DEFINE x == SumFunction(portions)
<1>3. x \in Nat /\ x <= distributable
  OBVIOUS
<1> HIDE DEF x
<1>4. \A i \in 1..n : portions[i] + (IF i = n THEN distributable - x ELSE 0) \in Nat
                      /\ (i # n => portions[i] + (IF i = n THEN distributable - x ELSE 0) = portions[i])
  BY <1>3
<1> QED BY <1>2, <1>4 DEF x

Converted(p, tao) == [i \in DOMAIN tao |-> TaoToAlpha(tao[i], p.alphaPrice)]

LEMMA SplitAlphaNat ==
  ASSUME NEW netuids, NEW hotkeys, NEW p \in Priced(netuids, hotkeys),
         NEW n \in Nat, NEW tao \in [1..n -> Nat], NEW portions \in [1..n -> Nat],
         \A i \in 1..n : i # n => tao[i] = portions[i],
         SumFunction(portions) <= p.taoValue,
         NEW rest
  PROVE  SplitAlpha(p, Converted(p, tao), rest) \in [1..n -> Nat]
<1> DEFINE converted == [i \in 1..n |-> TaoToAlpha(tao[i], p.alphaPrice)]
           S == 1..n - 1
           sum == SumFunctionOnSet(converted, S)
           all == SumFunctionOnSet(portions, 1..n)
           price == p.alphaPrice
           m == [i \in S |-> i]
<1>1. p.stake \in Nat /\ price \in Nat /\ p.taoValue \in Nat /\ p.taoValue * TAO <= p.stake * price
  BY DEF Priced, Position
<1>2. \A i \in 1..n : converted[i] \in Nat
  BY <1>1, ConversionsNat
<1>3. S \subseteq 1..n /\ \A i \in S : i # n
  OBVIOUS
<1>4. IsFiniteSet(S) /\ IsFiniteSet(1..n)
  BY FS_Interval
<1>5. DOMAIN tao = 1..n /\ DOMAIN converted = 1..n /\ Len(converted) = n
      /\ DOMAIN portions = 1..n
  OBVIOUS
<1>6. SplitAlpha(p, Converted(p, tao), rest) =
        [i \in 1..n |-> IF i = n /\ rest = 0 THEN p.stake - sum ELSE converted[i]]
  BY <1>5 DEF SplitAlpha, Converted
<1>7. Injects(S, 1..n, m)
  BY <1>3 DEF Injects
<1>8. ASSUME NEW i \in S
      PROVE  /\ converted[i] \in Nat
             /\ price * converted[i] <= TAO * portions[m[i]]
             /\ price = 0 => 1 * converted[i] <= 0 * portions[m[i]]
  <2>1. i \in 1..n /\ i # n /\ m[i] = i
    BY <1>3
  <2>2. tao[i] = portions[i] /\ tao[i] \in Nat /\ converted[i] = TaoToAlpha(tao[i], price)
    BY <2>1
  <2>3. CASE price = 0
    BY <1>2, <2>1, <2>2, <2>3, Config DEF TaoToAlpha
  <2>4. CASE price # 0
    <3>1. price \in Nat \ {0} /\ tao[i] * TAO \in Nat
      <4> DEFINE g == tao[i]
      <4>1. g \in Nat /\ TAO \in Nat
        BY <2>2, Config
      <4> HIDE DEF g
      <4>2. g * TAO \in Nat
        BY <4>1
      <4> QED BY <1>1, <2>4, <4>2 DEF g
    <3>2. converted[i] = (tao[i] * TAO) \div price
      BY <2>2, <3>1 DEF TaoToAlpha
    <3> DEFINE x == tao[i] * TAO
               y == converted[i]
    <3>3. x \in Nat /\ y = x \div price
      BY <3>1, <3>2
    <3> HIDE DEF x, y
    <3>4. y \in Nat /\ y * price <= x
      BY <3>1, <3>3, Division
    <3>5. price * y <= x
      BY <3>1, <3>4
    <3>6. x = TAO * portions[m[i]]
      BY <2>1, <2>2, Config DEF x
    <3> QED BY <2>4, <3>4, <3>5, <3>6 DEF y
  <2> QED BY <2>3, <2>4
<1> HIDE DEF converted, S, m
<1>9. sum \in Nat /\ all \in Nat /\ all <= p.taoValue
  <2>1. \A i \in S : converted[i] \in Nat
    BY <1>8
  <2>2. sum \in Nat
    BY <1>4, <2>1, SumNat
  <2>3. all \in Nat
    BY <1>4, SumNat
  <2> QED BY <1>5, <2>2, <2>3 DEF SumFunction
<1>10. price * sum <= TAO * all
  <2>1. NoLarger(S, price, converted, TAO, portions, m)
    BY <1>8 DEF NoLarger
  <2>2. (\A i \in S : converted[i] \in Nat) /\ (\A i \in 1..n : portions[i] \in Nat)
    BY <1>8
  <2> QED BY <1>1, <1>4, <1>7, <2>1, <2>2, Config, SumsCompare
<1>11. price = 0 => 1 * sum <= 0 * all
  <2> SUFFICES ASSUME price = 0 PROVE 1 * sum <= 0 * all
    OBVIOUS
  <2>1. NoLarger(S, 1, converted, 0, portions, m)
    BY <1>8 DEF NoLarger
  <2>2. (\A i \in S : converted[i] \in Nat) /\ (\A i \in 1..n : portions[i] \in Nat)
    BY <1>8
  <2> QED BY <1>4, <1>7, <2>1, <2>2, SumsCompare
<1> HIDE DEF sum, all, price
<1>12. sum <= p.stake
  <2> DEFINE st == p.stake
             tv == p.taoValue
  <2>1. st \in Nat /\ tv \in Nat /\ tv * TAO <= st * price /\ all <= tv
    BY <1>1, <1>9
  <2> HIDE DEF st, tv
  <2>2. CASE price = 0
    <3>1. sum <= 0
      BY <1>9, <1>11, <2>2
    <3>2. sum <= st
      BY <1>9, <2>1, <3>1
    <3> QED BY <3>2 DEF st
  <2>3. CASE price # 0
    <3>1. price \in Nat \ {0} /\ TAO \in Nat \ {0}
      BY <1>1, <2>3, Config
    <3>2. all * TAO <= tv * TAO
      BY <1>9, <2>1, <3>1, Times
    <3>3. sum * price <= st * price
      <4>1. sum * price \in Int /\ all * TAO \in Int /\ tv * TAO \in Int /\ st * price \in Int
        BY <1>9, <2>1, <3>1
      <4>2. sum * price <= all * TAO
        BY <1>9, <1>10, <3>1
      <4> QED BY <2>1, <3>2, <4>1, <4>2
    <3>4. sum <= st
      BY <1>9, <2>1, <3>1, <3>3, Cancel
    <3> QED BY <3>4 DEF st
  <2> QED BY <2>2, <2>3
<1>13. \A i \in 1..n : (IF i = n /\ rest = 0 THEN p.stake - sum ELSE converted[i]) \in Nat
  BY <1>1, <1>2, <1>9, <1>12
<1> QED BY <1>6, <1>13

FillsUp(allocations, tao, plan, seq, g) ==
  g = [s \in SUBSET DOMAIN seq |->
         IF s = {} THEN plan
         ELSE Fulfil(g[s \ {Max(s)}], allocations[seq[Max(s)]], tao[seq[Max(s)]])]

Filled(allocations, tao, plan) ==
  FoldLeft(LAMBDA q, i : Fulfil(q, allocations[i], tao[i]), plan, [i \in DOMAIN tao |-> i])

LEMMA FilledTyped ==
  ASSUME NEW netuids, NEW hotkeys, NEW aims, NEW plan \in PlanState(netuids, hotkeys, aims),
         NEW n \in Nat, NEW tao \in [1..n -> Nat],
         NEW allocations, \A i \in 1..n : allocations[i].netuid \in aims
  PROVE  Filled(allocations, tao, plan) \in PlanState(netuids, hotkeys, aims)
<1> DEFINE PS == PlanState(netuids, hotkeys, aims)
           seq == [i \in DOMAIN tao |-> i]
           f == CHOOSE g : FillsUp(allocations, tao, plan, seq, g)
           G == [i \in 1..n |-> [q \in PS |-> Fulfil(q, allocations[i], tao[i])]]
<1>1. Filled(allocations, tao, plan) = f[DOMAIN seq]
  BY DEF Filled, FoldLeft, MapThenFoldSet, FillsUp
<1>2. DOMAIN seq = 1..n /\ \A i \in 1..n : seq[i] = i
  OBVIOUS
<1> HIDE DEF seq
<1>3. ASSUME NEW q \in PS, NEW i \in 1..n PROVE Fulfil(q, allocations[i], tao[i]) \in PS
  BY FulfilTyped
<1>4. G \in [1..n -> [PS -> PS]] /\ plan \in PS
  <2> HIDE DEF PS
  <2>1. plan \in PS
    BY DEF PS
  <2> QED BY <1>3, <2>1
<1> HIDE DEF PS
<1>5. PICK h \in [SUBSET (1..n) -> PS] : PassesBy(n, plan, G, h)
  <2> HIDE DEF G
  <2> QED BY <1>4, PassExists
<1>6. \A s \in SUBSET (1..n) : s # {} => Max(s) \in 1..n
  BY MaxOfPart
<1>7. FillsUp(allocations, tao, plan, seq, h)
  <2>1. ASSUME NEW s \in SUBSET (1..n), s # {}
        PROVE  h[s] = Fulfil(h[s \ {Max(s)}], allocations[seq[Max(s)]], tao[seq[Max(s)]])
    <3>1. Max(s) \in 1..n /\ seq[Max(s)] = Max(s) /\ h[s \ {Max(s)}] \in PS
      BY <1>2, <1>6, <2>1
    <3>2. h[s] = G[Max(s)][h[s \ {Max(s)}]]
      BY <1>5, <2>1 DEF PassesBy
    <3> QED BY <3>1, <3>2
  <2>2. h[{}] = plan
    BY <1>5 DEF PassesBy
  <2>3. h = [s \in SUBSET (1..n) |-> h[s]]
    OBVIOUS
  <2> HIDE DEF G
  <2> QED BY <1>2, <2>1, <2>2, <2>3 DEF FillsUp
<1>8. FillsUp(allocations, tao, plan, seq, f)
  BY <1>7
<1> HIDE DEF f
<1>9. f[{}] = plan
  BY <1>2, <1>8 DEF FillsUp
<1>10. \A s \in SUBSET (1..n) : s # {} /\ f[s \ {Max(s)}] \in PS =>
          f[s] = G[Max(s)][f[s \ {Max(s)}]]
  <2> SUFFICES ASSUME NEW s \in SUBSET (1..n), s # {}, f[s \ {Max(s)}] \in PS
               PROVE  f[s] = G[Max(s)][f[s \ {Max(s)}]]
    OBVIOUS
  <2>1. Max(s) \in 1..n /\ seq[Max(s)] = Max(s)
    BY <1>2, <1>6
  <2>2. f[s] = Fulfil(f[s \ {Max(s)}], allocations[seq[Max(s)]], tao[seq[Max(s)]])
    BY <1>2, <1>8 DEF FillsUp
  <2> QED BY <2>1, <2>2
<1> HIDE DEF G
<1>11. Continues(n, PS, plan, G, f)
  BY <1>9, <1>10 DEF Continues
<1>12. f[1..n] \in PS
  <2>1. \E acc \in [0..n -> PS] : Passes(n, plan, G, acc) /\ f[1..n] = acc[n]
    BY <1>4, <1>11, Pass
  <2>2. n \in 0..n
    OBVIOUS
  <2> QED BY <2>1, <2>2
<1> QED BY <1>1, <1>2, <1>12 DEF PS

LEMMA SplitSwapsTyped ==
  ASSUME NEW netuids, NEW hotkeys, NEW aims \in SUBSET netuids,
         NEW plan \in PlanState(netuids, hotkeys, aims), NEW p \in Priced(netuids, hotkeys),
         NEW n \in Nat, NEW allocations, \A i \in 1..n : allocations[i] \in Goal(netuids, hotkeys),
         \A i \in 1..n : allocations[i].netuid \in aims,
         NEW tao \in [1..n -> Nat], NEW alpha \in [1..n -> Nat],
         NEW rest \in Nat, NEW limits \in BOOLEAN
  PROVE  SplitSwaps(plan, p, allocations, tao, alpha, rest, limits)
           \in PlanState(netuids, hotkeys, aims)
<1> DEFINE O == Operation(netuids, hotkeys)
           each == [i \in 1..n |-> SwapTo(p, allocations[i], alpha[i], tao[i], alpha[i], limits)]
           swaps == FlattenSeq(each)
           restAlpha == p.stake - SumFunction(alpha)
           remainder == IF rest > 0 /\ rest >= MinOperation /\ restAlpha > 0
                        THEN <<UnstakePartial(p, restAlpha, rest)>> ELSE <<>>
           filled == Filled(allocations, tao, plan)
<1>1. p \in Position(netuids, hotkeys) /\ p.netuid \in netuids /\ p.hotkey \in hotkeys /\ p.stake \in Nat
  BY DEF Priced, Position
<1>2. \A i \in 1..n : each[i] \in Seq(O)
  <2> SUFFICES ASSUME NEW i \in 1..n
               PROVE SwapTo(p, allocations[i], alpha[i], tao[i], alpha[i], limits) \in Seq(O)
    OBVIOUS
  <2>1. allocations[i].netuid \in netuids /\ allocations[i].hotkey \in hotkeys
        /\ alpha[i] \in Nat /\ alpha[i] \in Nat \cup {Sweep} /\ tao[i] \in Int
    BY DEF Goal
  <2> QED BY <1>1, <2>1, SwapToTyped
<1> HIDE DEF O
<1>3. each \in Seq(Seq(O))
  <2> DEFINE E == Seq(O)
  <2>1. each = [i \in 1..n |-> each[i]]
    OBVIOUS
  <2>2. \A i \in 1..n : each[i] \in E
    BY <1>2
  <2> HIDE DEF E, each
  <2>3. each \in [1..n -> E]
    BY <2>1, <2>2
  <2>4. each \in Seq(E)
    BY <2>3
  <2> QED BY <2>4 DEF E
<1> HIDE DEF each
<1>4. swaps \in Seq(O)
  <2>1. PICK joined \in [0..Len(each) -> Seq(O)] : FlattenSeq(each) = joined[Len(each)]
    BY <1>3, FlattenSteps
  <2>2. Len(each) \in 0..Len(each)
    BY <1>3
  <2> QED BY <2>1, <2>2
<1>5. remainder \in Seq(O)
  <2>1. CASE rest > 0 /\ rest >= MinOperation /\ restAlpha > 0
    <3>1. restAlpha \in Nat
      <4>1. SumFunction(alpha) \in Nat
        <5>1. IsFiniteSet(1..n) /\ \A i \in 1..n : alpha[i] \in Nat
          <6>1. IsFiniteSet(1..n)
            BY FS_Interval
          <6> QED BY <6>1
        <5>2. DOMAIN alpha = 1..n
          OBVIOUS
        <5> QED BY <5>1, <5>2, SumNat DEF SumFunction
      <4> QED BY <1>1, <2>1, <4>1
    <3> HIDE DEF restAlpha
    <3>2. UnstakePartial(p, restAlpha, rest) \in O
      BY <1>1, <3>1, UnstakesTyped DEF O
    <3> QED BY <2>1, <3>2
  <2>2. CASE ~(rest > 0 /\ rest >= MinOperation /\ restAlpha > 0)
    <3> HIDE DEF restAlpha
    <3> QED BY <2>2
  <2> QED BY <2>1, <2>2
<1>6. filled \in PlanState(netuids, hotkeys, aims)
  BY FilledTyped
<1>7. SplitSwaps(plan, p, allocations, tao, alpha, rest, limits) = AddOps(filled, swaps \o remainder)
  <2>1. DOMAIN tao = 1..n
    OBVIOUS
  <2> QED BY <2>1 DEF SplitSwaps, Filled, each
<1> HIDE DEF swaps, remainder, filled
<1>8. swaps \o remainder \in Seq(O)
  BY <1>4, <1>5
<1> QED BY <1>6, <1>7, <1>8, AddOpsTyped DEF O

LEMMA SplitTyped ==
  ASSUME NEW netuids, NEW hotkeys, NEW aims \in SUBSET netuids,
         NEW plan \in PlanState(netuids, hotkeys, aims), NEW p \in Priced(netuids, hotkeys),
         NEW eligible \in Seq(Needy(netuids, hotkeys, aims, plan)), eligible # <<>>,
         NEW limits \in BOOLEAN
  PROVE  Split(plan, p, eligible, TotalDeficit(plan, eligible), limits)
           \in PlanState(netuids, hotkeys, aims)
<1> DEFINE total == TotalDeficit(plan, eligible)
           distributable == Min({p.taoValue, total})
           I == {i \in DOMAIN eligible :
                   (distributable * Deficit(plan, eligible[i])) \div total >= MinOperation}
           allocations == Where(eligible, I)
           portions == PortionsOf(plan, allocations, distributable, total)
           tao == SplitTao(portions, distributable)
           rest == p.taoValue - distributable
           alpha == SplitAlpha(p, Converted(p, tao), rest)
           n == Len(allocations)
<1>1. p \in Position(netuids, hotkeys) /\ p.taoValue \in Nat
  BY DEF Priced, Position
<1>2. Split(plan, p, eligible, total, limits) =
        IF allocations = <<>> THEN AddOps(plan, <<Unstake(p)>>)
        ELSE SplitSwaps(plan, p, allocations, tao, alpha, rest, limits)
  BY DEF Split, SplitAmong, PortionsOf, Converted
<1>3. I \in SUBSET DOMAIN eligible
  OBVIOUS
<1>4. IsFiniteSet({}) /\ {} \in SUBSET DOMAIN eligible
  BY FS_EmptySet
<1> DEFINE none == PortionsOf(plan, Where(eligible, {}), 0, total)
<1>5. total \in Nat \ {0}
  <2>1. 0 \in Nat
    OBVIOUS
  <2> HIDE DEF total
  <2>2. total = TotalDeficit(plan, eligible)
    BY DEF total
  <2> QED BY <1>4, <2>1, <2>2, PortionsFit
<1> HIDE DEF I, none
<1>6. distributable \in Nat /\ distributable <= p.taoValue /\ rest \in Nat
  <2> DEFINE v == p.taoValue
  <2>1. v \in Int /\ total \in Int /\ v \in Nat /\ total \in Nat
    BY <1>1, <1>5
  <2> HIDE DEF v, total
  <2>2. Min({v, total}) \in {v, total} /\ Min({v, total}) <= v
    BY <2>1, MinOfTwo
  <2>3. Min({v, total}) \in Nat /\ v - Min({v, total}) \in Nat
    BY <2>1, <2>2
  <2> QED BY <2>2, <2>3 DEF v
<1>7. total = TotalDeficit(plan, eligible)
  OBVIOUS
<1> HIDE DEF total, distributable
<1>8. /\ portions \in [1..n -> Nat] /\ SumFunction(portions) \in Nat
      /\ SumFunction(portions) <= distributable
  BY <1>3, <1>6, <1>7, PortionsFit
<1>9. n \in Nat /\ \A i \in 1..n : allocations[i] \in Needy(netuids, hotkeys, aims, plan)
  <2>1. allocations \in Seq(Needy(netuids, hotkeys, aims, plan))
    BY <1>3, WhereSelects
  <2> HIDE DEF allocations
  <2> QED BY <2>1
<1> HIDE DEF allocations, portions, n
<1>10. tao \in [1..n -> Nat] /\ \A i \in 1..n : i # n => tao[i] = portions[i]
  BY <1>6, <1>8, <1>9, SplitTaoNat
<1> HIDE DEF tao
<1>11. alpha \in [1..n -> Nat]
  <2> HIDE DEF rest
  <2>1. SumFunction(portions) <= p.taoValue
    <3> DEFINE x == SumFunction(portions)
    <3>1. x \in Nat /\ x <= distributable
      BY <1>8
    <3> HIDE DEF x
    <3>2. x <= p.taoValue
      BY <1>1, <1>6, <3>1
    <3> QED BY <3>2 DEF x
  <2>2. portions \in [1..n -> Nat]
    BY <1>8
  <2>3. tao \in [1..n -> Nat]
    BY <1>10
  <2>4. \A i \in 1..n : i # n => tao[i] = portions[i]
    BY <1>10
  <2>5. n \in Nat
    BY <1>9
  <2>6. SplitAlpha(p, Converted(p, tao), rest) \in [1..n -> Nat]
    BY <2>1, <2>2, <2>3, <2>4, <2>5, SplitAlphaNat
  <2> QED BY <2>6
<1> HIDE DEF alpha, rest
<1>12. \A i \in 1..n : allocations[i] \in Goal(netuids, hotkeys) /\ allocations[i].netuid \in aims
  BY <1>9 DEF Needy
<1>13. SplitSwaps(plan, p, allocations, tao, alpha, rest, limits)
         \in PlanState(netuids, hotkeys, aims)
  BY <1>6, <1>9, <1>10, <1>11, <1>12, SplitSwapsTyped
<1>14. AddOps(plan, <<Unstake(p)>>) \in PlanState(netuids, hotkeys, aims)
  <2>1. Unstake(p) \in Operation(netuids, hotkeys)
    BY <1>1, UnstakesTyped
  <2>2. <<Unstake(p)>> \in Seq(Operation(netuids, hotkeys))
    BY <2>1
  <2> QED BY <2>2, AddOpsTyped
<1> QED BY <1>2, <1>7, <1>13, <1>14

-----------------------------------------------------------------------------
(* Every stage of the planner keeps a plan well formed.                    *)

LEMMA GoalsAims ==
  ASSUME NEW netuids, NEW hotkeys, NEW goals \in Seq(Goal(netuids, hotkeys))
  PROVE  /\ Netuids(goals) \in SUBSET netuids
         /\ \A i \in DOMAIN goals : goals[i] \in Goal(netuids, hotkeys)
                                    /\ goals[i].netuid \in Netuids(goals)
<1>1. \A i \in DOMAIN goals : goals[i] \in Goal(netuids, hotkeys)
  OBVIOUS
<1>2. \A i \in DOMAIN goals : goals[i].netuid \in netuids
  BY <1>1 DEF Goal
<1> QED BY <1>1, <1>2 DEF Netuids

LEMMA SortIn ==
  ASSUME NEW E, NEW s \in Seq(E), NEW key \in [DOMAIN s -> Int]
  PROVE  SortByDesc(s, key) \in Seq(E) /\ Len(SortByDesc(s, key)) = Len(s)
BY SortPermutes

LEMMA SingleTargetTyped ==
  ASSUME NEW netuids, NEW hotkeys, NEW aims, NEW plan \in PlanState(netuids, hotkeys, aims),
         NEW p \in Priced(netuids, hotkeys),
         NEW eligible \in Seq(Needy(netuids, hotkeys, aims, plan)), eligible # <<>>
  PROVE  SingleTarget(plan, p, eligible) \in Seq(Needy(netuids, hotkeys, aims, plan))
<1> DEFINE E == Needy(netuids, hotkeys, aims, plan)
           Over(t) == plan.fulfilled[t.netuid] + p.taoValue - t.value
           I == {i \in DOMAIN eligible : Over(eligible[i]) <= DriftThreshold(eligible[i].value)}
           near == Where(eligible, I)
           key == [i \in DOMAIN near |-> -Over(near[i])]
           sorted == SortByDesc(near, key)
<1>1. SingleTarget(plan, p, eligible) =
        IF Len(eligible) = 1 \/ p.taoValue <= Deficit(plan, Head(eligible))
        THEN <<Head(eligible)>> ELSE Take(sorted, 1)
  BY DEF SingleTarget
<1>2. I \in SUBSET DOMAIN eligible
  OBVIOUS
<1>3. \A t \in E : Over(t) \in Int
  <2> SUFFICES ASSUME NEW t \in E PROVE Over(t) \in Int
    OBVIOUS
  <2>1. t \in Goal(netuids, hotkeys) /\ t.netuid \in aims
    BY DEF Needy
  <2>2. plan.fulfilled[t.netuid] \in Int
    BY <2>1 DEF PlanState
  <2>3. t.value \in Nat /\ p.taoValue \in Nat
    BY <2>1 DEF Goal, Priced, Position
  <2> QED BY <2>2, <2>3
<1> HIDE DEF E, Over, I
<1>4. near \in Seq(E)
  BY <1>2, WhereSelects DEF E
<1> HIDE DEF near
<1>5. key \in [DOMAIN near -> Int]
  <2> SUFFICES ASSUME NEW i \in DOMAIN near PROVE -Over(near[i]) \in Int
    OBVIOUS
  <2>1. near[i] \in E
    BY <1>4
  <2>2. Over(near[i]) \in Int
    BY <1>3, <2>1
  <2> QED BY <2>2
<1> HIDE DEF key
<1>6. sorted \in Seq(E)
  BY <1>4, <1>5, SortIn
<1> HIDE DEF sorted
<1>7. Take(sorted, 1) \in Seq(E)
  <2> DEFINE m == Min({1, Len(sorted)})
  <2>1. Len(sorted) \in Nat
    BY <1>6
  <2>2. m \in {1, Len(sorted)} /\ m <= Len(sorted)
    <3> DEFINE x == Len(sorted)
    <3>1. 1 \in Int /\ x \in Int
      BY <2>1
    <3> HIDE DEF x
    <3>2. Min({1, x}) \in {1, x} /\ Min({1, x}) <= 1 /\ Min({1, x}) <= x
      BY <3>1, MinOfTwo
    <3> QED BY <3>2 DEF x
  <2> HIDE DEF m
  <2>3. m \in Nat
    BY <2>1, <2>2
  <2>4. SubSeq(sorted, 1, m) \in Seq(E)
    BY <1>6, <2>1, <2>2, <2>3
  <2> QED BY <2>4 DEF Take, m
<1>8. <<Head(eligible)>> \in Seq(E)
  <2>1. Head(eligible) \in Needy(netuids, hotkeys, aims, plan)
    OBVIOUS
  <2> QED BY <2>1 DEF E
<1> QED BY <1>1, <1>7, <1>8 DEF E

LEMMA OneUnstake ==
  ASSUME NEW netuids, NEW hotkeys, NEW aims, NEW plan \in PlanState(netuids, hotkeys, aims),
         NEW p \in Position(netuids, hotkeys)
  PROVE  AddOps(plan, <<Unstake(p)>>) \in PlanState(netuids, hotkeys, aims)
<1>1. Unstake(p) \in Operation(netuids, hotkeys)
  BY UnstakesTyped
<1>2. <<Unstake(p)>> \in Seq(Operation(netuids, hotkeys))
  BY <1>1
<1> QED BY <1>2, AddOpsTyped

LEMMA PricedIsTyped ==
  ASSUME NEW netuids, NEW hotkeys, NEW p \in Priced(netuids, hotkeys)
  PROVE  /\ p \in Position(netuids, hotkeys)
         /\ p.netuid \in netuids /\ p.hotkey \in hotkeys
         /\ p.stake \in Nat /\ p.alphaPrice \in Nat /\ p.taoValue \in Nat
BY DEF Priced, Position

LEMMA ExitToTyped ==
  ASSUME NEW netuids, NEW hotkeys, NEW aims \in SUBSET netuids,
         NEW plan \in PlanState(netuids, hotkeys, aims), NEW p \in Priced(netuids, hotkeys),
         NEW eligible \in Seq(Needy(netuids, hotkeys, aims, plan)), eligible # <<>>,
         NEW limits \in BOOLEAN
  PROVE  ExitTo(plan, p, SingleTarget(plan, p, eligible), eligible, limits)
           \in PlanState(netuids, hotkeys, aims)
<1> DEFINE single == SingleTarget(plan, p, eligible)
           PS == PlanState(netuids, hotkeys, aims)
           full == AddOps(Fulfil(plan, single[1], p.taoValue),
                          SwapTo(p, single[1], p.stake, p.taoValue, Sweep, limits))
<1>1. ExitTo(plan, p, single, eligible, limits) =
        IF single = <<>> THEN Split(plan, p, eligible, TotalDeficit(plan, eligible), limits)
        ELSE IF ~WithinOverfill(plan, single[1], p.taoValue) THEN AddOps(plan, <<Unstake(p)>>)
        ELSE full
  BY DEF ExitTo, TotalDeficit, SumOf
<1>2. single \in Seq(Needy(netuids, hotkeys, aims, plan))
  BY SingleTargetTyped
<1> HIDE DEF single
<1>3. Split(plan, p, eligible, TotalDeficit(plan, eligible), limits) \in PS
  BY SplitTyped
<1>4. AddOps(plan, <<Unstake(p)>>) \in PS
  BY PricedIsTyped, OneUnstake
<1>5. single # <<>> => full \in PS
  <2> SUFFICES ASSUME single # <<>> PROVE full \in PS
    OBVIOUS
  <2>1. single[1] \in Needy(netuids, hotkeys, aims, plan)
    BY <1>2
  <2>2. single[1].netuid \in aims /\ single[1].netuid \in netuids /\ single[1].hotkey \in hotkeys
    BY <2>1 DEF Needy, Goal
  <2>3. p.netuid \in netuids /\ p.hotkey \in hotkeys /\ p.stake \in Nat /\ p.taoValue \in Int
        /\ Sweep \in Nat \cup {Sweep}
    BY PricedIsTyped
  <2>4. Fulfil(plan, single[1], p.taoValue) \in PS
    BY <2>2, <2>3, FulfilTyped
  <2>5. SwapTo(p, single[1], p.stake, p.taoValue, Sweep, limits) \in Seq(Operation(netuids, hotkeys))
    BY <2>2, <2>3, SwapToTyped
  <2> QED BY <2>4, <2>5, AddOpsTyped
<1> HIDE DEF full, PS
<1> QED BY <1>1, <1>3, <1>4, <1>5 DEF PS, single

\* The goals that a condition on the plan leaves, the neediest first.
ByNeed(plan, short) == SortByDesc(short, [i \in DOMAIN short |-> Deficit(plan, short[i])])

LEMMA ByNeedTyped ==
  ASSUME NEW netuids, NEW hotkeys, NEW goals \in Seq(Goal(netuids, hotkeys)),
         NEW plan \in PlanState(netuids, hotkeys, Netuids(goals)),
         NEW I \in SUBSET DOMAIN goals, \A i \in I : Deficit(plan, goals[i]) > 0
  PROVE  ByNeed(plan, Where(goals, I)) \in Seq(Needy(netuids, hotkeys, Netuids(goals), plan))
<1> DEFINE E == Needy(netuids, hotkeys, Netuids(goals), plan)
           short == Where(goals, I)
           key == [i \in DOMAIN short |-> Deficit(plan, short[i])]
<1>1. \A i \in I : goals[i] \in E
  BY GoalsAims DEF Needy
<1> HIDE DEF E
<1>2. short \in Seq(E)
  BY <1>1, WhereIn
<1> HIDE DEF short
<1>3. key \in [DOMAIN short -> Int]
  <2> SUFFICES ASSUME NEW i \in DOMAIN short PROVE Deficit(plan, short[i]) \in Int
    OBVIOUS
  <2>1. short[i] \in E
    BY <1>2
  <2> QED BY <2>1, DeficitInt DEF E, Needy
<1>4. SortByDesc(short, key) \in Seq(E)
  <2> HIDE DEF key
  <2> QED BY <1>2, <1>3, SortIn
<1> QED BY <1>4 DEF ByNeed, E, short

LEMMA ExitTyped ==
  ASSUME NEW netuids, NEW hotkeys, NEW goals \in Seq(Goal(netuids, hotkeys)),
         NEW plan \in PlanState(netuids, hotkeys, Netuids(goals)),
         NEW p \in Priced(netuids, hotkeys), NEW limits \in BOOLEAN
  PROVE  Exit(plan, p, goals, limits) \in PlanState(netuids, hotkeys, Netuids(goals))
<1> DEFINE aims == Netuids(goals)
           I == {i \in DOMAIN goals : Deficit(plan, goals[i]) > 0}
           eligible == ByNeed(plan, Where(goals, I))
           PS == PlanState(netuids, hotkeys, aims)
           all == ExitTo(plan, p, SingleTarget(plan, p, eligible), eligible, limits)
<1>1. \/ Exit(plan, p, goals, limits) = plan
      \/ Exit(plan, p, goals, limits) = AddOps(plan, <<Unstake(p)>>)
      \/ eligible # <<>> /\ Exit(plan, p, goals, limits) = all
  <2>1. p.taoValue \in Int /\ MinOperation \in Int
    BY PricedIsTyped, Config
  <2>2. \/ p.taoValue < MinOperation
        \/ p.taoValue >= MinOperation /\ eligible = <<>>
        \/ p.taoValue >= MinOperation /\ eligible # <<>>
    BY <2>1
  <2>3. Exit(plan, p, goals, limits) =
          CASE p.taoValue < MinOperation -> plan
            [] p.taoValue >= MinOperation /\ eligible = <<>> -> AddOps(plan, <<Unstake(p)>>)
            [] OTHER -> all
    BY DEF Exit, ByNeed
  <2> HIDE DEF eligible, all
  <2> QED BY <2>1, <2>2, <2>3
<1>2. I \in SUBSET DOMAIN goals /\ \A i \in I : Deficit(plan, goals[i]) > 0
  OBVIOUS
<1> HIDE DEF I
<1>3. eligible \in Seq(Needy(netuids, hotkeys, aims, plan))
  BY <1>2, ByNeedTyped
<1> HIDE DEF eligible
<1>4. aims \in SUBSET netuids
  BY GoalsAims
<1>5. eligible # <<>> => all \in PS
  BY <1>3, <1>4, ExitToTyped
<1>6. AddOps(plan, <<Unstake(p)>>) \in PS
  BY PricedIsTyped, OneUnstake
<1> QED BY <1>1, <1>5, <1>6

\* One exit after the other.
ExitsBy(goals, limits, start, seq, g) ==
  g = [s \in SUBSET DOMAIN seq |->
         IF s = {} THEN start ELSE Exit(g[s \ {Max(s)}], seq[Max(s)], goals, limits)]

AllExits(goals, limits, start, seq) ==
  FoldLeft(LAMBDA q, p : Exit(q, p, goals, limits), start, seq)

LEMMA ExitsTyped ==
  ASSUME NEW netuids, NEW hotkeys, NEW goals \in Seq(Goal(netuids, hotkeys)),
         NEW start \in PlanState(netuids, hotkeys, Netuids(goals)),
         NEW seq \in Seq(Priced(netuids, hotkeys)), NEW limits \in BOOLEAN
  PROVE  AllExits(goals, limits, start, seq) \in PlanState(netuids, hotkeys, Netuids(goals))
<1> DEFINE D == PlanState(netuids, hotkeys, Netuids(goals))
           n == Len(seq)
           f == CHOOSE g : ExitsBy(goals, limits, start, seq, g)
           G == [i \in 1..n |-> [q \in D |-> Exit(q, seq[i], goals, limits)]]
<1>1. AllExits(goals, limits, start, seq) = f[DOMAIN seq]
  BY DEF AllExits, FoldLeft, MapThenFoldSet, ExitsBy
<1>2. DOMAIN seq = 1..n /\ n \in Nat
  OBVIOUS
<1> HIDE DEF n
<1>3. ASSUME NEW q \in D, NEW i \in 1..n PROVE Exit(q, seq[i], goals, limits) \in D
  <2>1. seq[i] \in Priced(netuids, hotkeys)
    BY <1>2
  <2> QED BY <2>1, ExitTyped
<1>4. G \in [1..n -> [D -> D]] /\ start \in D
  <2> HIDE DEF D
  <2>1. start \in D
    BY DEF D
  <2> QED BY <1>3, <2>1
<1> HIDE DEF D
<1>5. PICK h \in [SUBSET (1..n) -> D] : PassesBy(n, start, G, h)
  <2> HIDE DEF G
  <2> QED BY <1>2, <1>4, PassExists
<1>6. \A s \in SUBSET (1..n) : s # {} => Max(s) \in 1..n
  BY <1>2, MaxOfPart
<1>7. ExitsBy(goals, limits, start, seq, h)
  <2>1. ASSUME NEW s \in SUBSET (1..n), s # {}
        PROVE  h[s] = Exit(h[s \ {Max(s)}], seq[Max(s)], goals, limits)
    <3>1. Max(s) \in 1..n /\ h[s \ {Max(s)}] \in D
      BY <1>6, <2>1
    <3>2. h[s] = G[Max(s)][h[s \ {Max(s)}]]
      BY <1>5, <2>1 DEF PassesBy
    <3> QED BY <3>1, <3>2
  <2>2. h[{}] = start
    BY <1>5 DEF PassesBy
  <2>3. h = [s \in SUBSET (1..n) |-> h[s]]
    OBVIOUS
  <2> HIDE DEF G
  <2> QED BY <1>2, <2>1, <2>2, <2>3 DEF ExitsBy
<1>8. ExitsBy(goals, limits, start, seq, f)
  BY <1>7
<1> HIDE DEF f
<1>9. f[{}] = start
  BY <1>2, <1>8 DEF ExitsBy
<1>10. \A s \in SUBSET (1..n) : s # {} /\ f[s \ {Max(s)}] \in D =>
          f[s] = G[Max(s)][f[s \ {Max(s)}]]
  <2> SUFFICES ASSUME NEW s \in SUBSET (1..n), s # {}, f[s \ {Max(s)}] \in D
               PROVE  f[s] = G[Max(s)][f[s \ {Max(s)}]]
    OBVIOUS
  <2>1. Max(s) \in 1..n
    BY <1>6
  <2>2. f[s] = Exit(f[s \ {Max(s)}], seq[Max(s)], goals, limits)
    BY <1>2, <1>8 DEF ExitsBy
  <2> QED BY <2>1, <2>2
<1> HIDE DEF G
<1>11. Continues(n, D, start, G, f)
  BY <1>9, <1>10 DEF Continues
<1>12. f[1..n] \in D
  <2>1. \E acc \in [0..n -> D] : Passes(n, start, G, acc) /\ f[1..n] = acc[n]
    BY <1>2, <1>4, <1>11, Pass
  <2>2. n \in 0..n
    BY <1>2
  <2> QED BY <2>1, <2>2
<1> QED BY <1>1, <1>2, <1>12 DEF D

TaoValues(s) == SumFunction([i \in DOMAIN s |-> s[i].taoValue])

LEMMA TaoValuesNat ==
  ASSUME NEW netuids, NEW hotkeys, NEW s \in Seq(Priced(netuids, hotkeys))
  PROVE  TaoValues(s) \in Nat
<1> DEFINE f == [i \in DOMAIN s |-> s[i].taoValue]
<1>1. \A i \in DOMAIN s : f[i] \in Nat
  <2> SUFFICES ASSUME NEW i \in DOMAIN s PROVE s[i].taoValue \in Nat
    OBVIOUS
  <2>1. s[i] \in Priced(netuids, hotkeys)
    OBVIOUS
  <2> QED BY <2>1, PricedIsTyped
<1>2. IsFiniteSet(DOMAIN s)
  BY DomainFinite
<1>3. DOMAIN f = DOMAIN s
  OBVIOUS
<1> HIDE DEF f
<1>4. SumFunctionOnSet(f, DOMAIN s) \in Nat
  BY <1>1, <1>2, SumNat
<1> QED BY <1>3, <1>4 DEF TaoValues, SumFunction, f

\* Exits starts from what the targets have.
LEMMA ExitsStartTyped ==
  ASSUME NEW netuids, NEW hotkeys, NEW goals \in Seq(Goal(netuids, hotkeys)),
         NEW positions \in Seq(Priced(netuids, hotkeys)), NEW limits \in BOOLEAN
  PROVE  Exits(positions, goals, limits) \in PlanState(netuids, hotkeys, Netuids(goals))
<1> DEFINE start == [ops |-> <<>>,
                     fulfilled |-> [n \in Netuids(goals) |-> TaoValues(PositionsOn(positions, n))]]
<1>1. Exits(positions, goals, limits) = AllExits(goals, limits, start, ExitsOf(positions, goals))
  BY DEF Exits, AllExits, TaoValues, SumOf
<1>2. \A n : PositionsOn(positions, n) \in Seq(Priced(netuids, hotkeys))
  <2> SUFFICES ASSUME NEW n PROVE PositionsOn(positions, n) \in Seq(Priced(netuids, hotkeys))
    OBVIOUS
  <2> DEFINE I == {i \in DOMAIN positions : positions[i].netuid = n}
  <2>1. I \in SUBSET DOMAIN positions
    OBVIOUS
  <2> HIDE DEF I
  <2> QED BY <2>1, WhereSelects DEF PositionsOn, I
<1>3. ExitsOf(positions, goals) \in Seq(Priced(netuids, hotkeys))
  <2> DEFINE I == {i \in DOMAIN positions : IsExit(positions[i], goals)}
  <2>1. I \in SUBSET DOMAIN positions
    OBVIOUS
  <2> HIDE DEF I
  <2> QED BY <2>1, WhereSelects DEF ExitsOf, I
<1>4. \A n \in Netuids(goals) : TaoValues(PositionsOn(positions, n)) \in Nat
  BY <1>2, TaoValuesNat
<1>5. <<>> \in Seq(Operation(netuids, hotkeys))
  OBVIOUS
<1>6. start \in PlanState(netuids, hotkeys, Netuids(goals))
  BY <1>4, <1>5 DEF PlanState
<1> HIDE DEF start
<1> QED BY <1>1, <1>3, <1>6, ExitsTyped

LEMMA PositionsOnTyped ==
  ASSUME NEW E, NEW positions \in Seq(E), NEW n
  PROVE  PositionsOn(positions, n) \in Seq(E)
<1> DEFINE I == {i \in DOMAIN positions : positions[i].netuid = n}
<1>1. I \in SUBSET DOMAIN positions
  OBVIOUS
<1> HIDE DEF I
<1> QED BY <1>1, WhereSelects DEF PositionsOn, I

LEMMA ReduceTyped ==
  ASSUME NEW netuids, NEW hotkeys, NEW goals \in Seq(Goal(netuids, hotkeys)),
         NEW plan \in PlanState(netuids, hotkeys, Netuids(goals)),
         NEW p \in Priced(netuids, hotkeys), NEW target \in Goal(netuids, hotkeys),
         NEW limits \in BOOLEAN
  PROVE  Reduce(plan, p, target, goals, limits) \in PlanState(netuids, hotkeys, Netuids(goals))
<1> DEFINE PS == PlanState(netuids, hotkeys, Netuids(goals))
           E == Needy(netuids, hotkeys, Netuids(goals), plan)
           amount == Min({p.taoValue - target.value, p.taoValue - MinStake})
           alpha == TaoToAlpha(amount, p.alphaPrice)
           I == {i \in DOMAIN goals : /\ Deficit(plan, goals[i]) > 0
                                      /\ WithinOverfill(plan, goals[i], amount)}
           fitting == ByNeed(plan, Where(goals, I))
           unstaked == AddOps(plan, <<UnstakePartial(p, alpha, amount)>>)
           swapped == AddOps(Fulfil(plan, fitting[1], amount),
                             SwapTo(p, fitting[1], alpha, amount, alpha, limits))
<1>1. \/ Reduce(plan, p, target, goals, limits) = plan
      \/ /\ ~(amount < MinRebalance)
         /\ Reduce(plan, p, target, goals, limits) = IF fitting = <<>> THEN unstaked ELSE swapped
  BY DEF Reduce, ByNeed
<1>2. I \in SUBSET DOMAIN goals /\ \A i \in I : Deficit(plan, goals[i]) > 0
  OBVIOUS
<1>3. p.taoValue \in Nat /\ p.alphaPrice \in Nat /\ p.netuid \in netuids /\ p.hotkey \in hotkeys
  BY PricedIsTyped
<1>4. amount \in Int
  <2> DEFINE x == p.taoValue - target.value
             y == p.taoValue - MinStake
  <2>1. target.value \in Nat
    BY DEF Goal
  <2>2. MinStake \in Nat
    BY Config
  <2>3. x \in Int /\ y \in Int
    BY <1>3, <2>1, <2>2
  <2> HIDE DEF x, y
  <2>4. Min({x, y}) \in Int
    BY <2>3, MinOfTwo
  <2> QED BY <2>4 DEF x, y
<1> HIDE DEF amount, I
<1>5. fitting \in Seq(E)
  BY <1>2, ByNeedTyped
<1> HIDE DEF fitting
<1>6. SUFFICES ASSUME ~(amount < MinRebalance)
               PROVE  (IF fitting = <<>> THEN unstaked ELSE swapped) \in PS
  BY <1>1
<1>7. amount \in Nat
  <2>1. MinRebalance \in Nat
    BY Config
  <2> QED BY <1>4, <1>6, <2>1
<1>8. alpha \in Nat
  BY <1>3, <1>7, ConversionsNat
<1> HIDE DEF alpha
<1>9. unstaked \in PS
  <2>1. p \in Position(netuids, hotkeys)
    BY PricedIsTyped
  <2>2. UnstakePartial(p, alpha, amount) \in Operation(netuids, hotkeys)
    BY <1>7, <1>8, <2>1, UnstakesTyped
  <2>3. <<UnstakePartial(p, alpha, amount)>> \in Seq(Operation(netuids, hotkeys))
    BY <2>2
  <2> QED BY <2>3, AddOpsTyped
<1>10. fitting # <<>> => swapped \in PS
  <2> SUFFICES ASSUME fitting # <<>> PROVE swapped \in PS
    OBVIOUS
  <2>1. fitting[1] \in E
    BY <1>5
  <2>2. fitting[1].netuid \in Netuids(goals) /\ fitting[1].netuid \in netuids
        /\ fitting[1].hotkey \in hotkeys
    BY <2>1 DEF Needy, Goal
  <2>3. Fulfil(plan, fitting[1], amount) \in PS
    BY <1>4, <2>2, FulfilTyped
  <2>4. SwapTo(p, fitting[1], alpha, amount, alpha, limits) \in Seq(Operation(netuids, hotkeys))
    BY <1>3, <1>4, <1>8, <2>2, SwapToTyped
  <2> QED BY <2>3, <2>4, AddOpsTyped
<1> HIDE DEF unstaked, swapped
<1> QED BY <1>9, <1>10

\* One position of a target after the other.
ReducesBy(target, goals, limits, start, seq, g) ==
  g = [s \in SUBSET DOMAIN seq |->
         IF s = {} THEN start ELSE Reduce(g[s \ {Max(s)}], seq[Max(s)], target, goals, limits)]

AllReduces(target, goals, limits, start, seq) ==
  FoldLeft(LAMBDA q, p : Reduce(q, p, target, goals, limits), start, seq)

LEMMA ReducesTyped ==
  ASSUME NEW netuids, NEW hotkeys, NEW goals \in Seq(Goal(netuids, hotkeys)),
         NEW start \in PlanState(netuids, hotkeys, Netuids(goals)),
         NEW target \in Goal(netuids, hotkeys),
         NEW seq \in Seq(Priced(netuids, hotkeys)), NEW limits \in BOOLEAN
  PROVE  AllReduces(target, goals, limits, start, seq) \in PlanState(netuids, hotkeys, Netuids(goals))
<1> DEFINE D == PlanState(netuids, hotkeys, Netuids(goals))
           n == Len(seq)
           f == CHOOSE g : ReducesBy(target, goals, limits, start, seq, g)
           G == [i \in 1..n |-> [q \in D |-> Reduce(q, seq[i], target, goals, limits)]]
<1>1. AllReduces(target, goals, limits, start, seq) = f[DOMAIN seq]
  BY DEF AllReduces, FoldLeft, MapThenFoldSet, ReducesBy
<1>2. DOMAIN seq = 1..n /\ n \in Nat
  OBVIOUS
<1> HIDE DEF n
<1>3. ASSUME NEW q \in D, NEW i \in 1..n PROVE Reduce(q, seq[i], target, goals, limits) \in D
  <2>1. seq[i] \in Priced(netuids, hotkeys)
    BY <1>2
  <2> QED BY <2>1, ReduceTyped
<1>4. G \in [1..n -> [D -> D]] /\ start \in D
  <2> HIDE DEF D
  <2>1. start \in D
    BY DEF D
  <2> QED BY <1>3, <2>1
<1> HIDE DEF D
<1>5. PICK h \in [SUBSET (1..n) -> D] : PassesBy(n, start, G, h)
  <2> HIDE DEF G
  <2> QED BY <1>2, <1>4, PassExists
<1>6. \A s \in SUBSET (1..n) : s # {} => Max(s) \in 1..n
  BY <1>2, MaxOfPart
<1>7. ReducesBy(target, goals, limits, start, seq, h)
  <2>1. ASSUME NEW s \in SUBSET (1..n), s # {}
        PROVE  h[s] = Reduce(h[s \ {Max(s)}], seq[Max(s)], target, goals, limits)
    <3>1. Max(s) \in 1..n /\ h[s \ {Max(s)}] \in D
      BY <1>6, <2>1
    <3>2. h[s] = G[Max(s)][h[s \ {Max(s)}]]
      BY <1>5, <2>1 DEF PassesBy
    <3> QED BY <3>1, <3>2
  <2>2. h[{}] = start
    BY <1>5 DEF PassesBy
  <2>3. h = [s \in SUBSET (1..n) |-> h[s]]
    OBVIOUS
  <2> HIDE DEF G
  <2> QED BY <1>2, <2>1, <2>2, <2>3 DEF ReducesBy
<1>8. ReducesBy(target, goals, limits, start, seq, f)
  BY <1>7
<1> HIDE DEF f
<1>9. f[{}] = start
  BY <1>2, <1>8 DEF ReducesBy
<1>10. \A s \in SUBSET (1..n) : s # {} /\ f[s \ {Max(s)}] \in D =>
          f[s] = G[Max(s)][f[s \ {Max(s)}]]
  <2> SUFFICES ASSUME NEW s \in SUBSET (1..n), s # {}, f[s \ {Max(s)}] \in D
               PROVE  f[s] = G[Max(s)][f[s \ {Max(s)}]]
    OBVIOUS
  <2>1. Max(s) \in 1..n
    BY <1>6
  <2>2. f[s] = Reduce(f[s \ {Max(s)}], seq[Max(s)], target, goals, limits)
    BY <1>2, <1>8 DEF ReducesBy
  <2> QED BY <2>1, <2>2
<1> HIDE DEF G
<1>11. Continues(n, D, start, G, f)
  BY <1>9, <1>10 DEF Continues
<1>12. f[1..n] \in D
  <2>1. \E acc \in [0..n -> D] : Passes(n, start, G, acc) /\ f[1..n] = acc[n]
    BY <1>2, <1>4, <1>11, Pass
  <2>2. n \in 0..n
    BY <1>2
  <2> QED BY <2>1, <2>2
<1> QED BY <1>1, <1>2, <1>12 DEF D

LEMMA ReduceTargetTyped ==
  ASSUME NEW netuids, NEW hotkeys, NEW goals \in Seq(Goal(netuids, hotkeys)),
         NEW plan \in PlanState(netuids, hotkeys, Netuids(goals)),
         NEW positions \in Seq(Priced(netuids, hotkeys)), NEW target \in Goal(netuids, hotkeys),
         NEW limits \in BOOLEAN
  PROVE  ReduceTarget(plan, target, positions, goals, limits)
           \in PlanState(netuids, hotkeys, Netuids(goals))
<1>1. ReduceTarget(plan, target, positions, goals, limits)
        = AllReduces(target, goals, limits, plan, PositionsOn(positions, target.netuid))
  BY DEF ReduceTarget, AllReduces
<1>2. PositionsOn(positions, target.netuid) \in Seq(Priced(netuids, hotkeys))
  BY PositionsOnTyped
<1> QED BY <1>1, <1>2, ReducesTyped

\* One target after the other.
ReductionsBy(positions, goals, limits, start, seq, g) ==
  g = [s \in SUBSET DOMAIN seq |->
         IF s = {} THEN start ELSE ReduceTarget(g[s \ {Max(s)}], seq[Max(s)], positions, goals, limits)]

AllReductions(positions, goals, limits, start, seq) ==
  FoldLeft(LAMBDA q, t : ReduceTarget(q, t, positions, goals, limits), start, seq)

LEMMA AllReductionsTyped ==
  ASSUME NEW netuids, NEW hotkeys, NEW goals \in Seq(Goal(netuids, hotkeys)),
         NEW start \in PlanState(netuids, hotkeys, Netuids(goals)),
         NEW positions \in Seq(Priced(netuids, hotkeys)),
         NEW seq \in Seq(Goal(netuids, hotkeys)), NEW limits \in BOOLEAN
  PROVE  AllReductions(positions, goals, limits, start, seq) \in PlanState(netuids, hotkeys, Netuids(goals))
<1> DEFINE D == PlanState(netuids, hotkeys, Netuids(goals))
           n == Len(seq)
           f == CHOOSE g : ReductionsBy(positions, goals, limits, start, seq, g)
           G == [i \in 1..n |-> [q \in D |-> ReduceTarget(q, seq[i], positions, goals, limits)]]
<1>1. AllReductions(positions, goals, limits, start, seq) = f[DOMAIN seq]
  BY DEF AllReductions, FoldLeft, MapThenFoldSet, ReductionsBy
<1>2. DOMAIN seq = 1..n /\ n \in Nat
  OBVIOUS
<1> HIDE DEF n
<1>3. ASSUME NEW q \in D, NEW i \in 1..n PROVE ReduceTarget(q, seq[i], positions, goals, limits) \in D
  <2>1. seq[i] \in Goal(netuids, hotkeys)
    BY <1>2
  <2> QED BY <2>1, ReduceTargetTyped
<1>4. G \in [1..n -> [D -> D]] /\ start \in D
  <2> HIDE DEF D
  <2>1. start \in D
    BY DEF D
  <2> QED BY <1>3, <2>1
<1> HIDE DEF D
<1>5. PICK h \in [SUBSET (1..n) -> D] : PassesBy(n, start, G, h)
  <2> HIDE DEF G
  <2> QED BY <1>2, <1>4, PassExists
<1>6. \A s \in SUBSET (1..n) : s # {} => Max(s) \in 1..n
  BY <1>2, MaxOfPart
<1>7. ReductionsBy(positions, goals, limits, start, seq, h)
  <2>1. ASSUME NEW s \in SUBSET (1..n), s # {}
        PROVE  h[s] = ReduceTarget(h[s \ {Max(s)}], seq[Max(s)], positions, goals, limits)
    <3>1. Max(s) \in 1..n /\ h[s \ {Max(s)}] \in D
      BY <1>6, <2>1
    <3>2. h[s] = G[Max(s)][h[s \ {Max(s)}]]
      BY <1>5, <2>1 DEF PassesBy
    <3> QED BY <3>1, <3>2
  <2>2. h[{}] = start
    BY <1>5 DEF PassesBy
  <2>3. h = [s \in SUBSET (1..n) |-> h[s]]
    OBVIOUS
  <2> HIDE DEF G
  <2> QED BY <1>2, <2>1, <2>2, <2>3 DEF ReductionsBy
<1>8. ReductionsBy(positions, goals, limits, start, seq, f)
  BY <1>7
<1> HIDE DEF f
<1>9. f[{}] = start
  BY <1>2, <1>8 DEF ReductionsBy
<1>10. \A s \in SUBSET (1..n) : s # {} /\ f[s \ {Max(s)}] \in D =>
          f[s] = G[Max(s)][f[s \ {Max(s)}]]
  <2> SUFFICES ASSUME NEW s \in SUBSET (1..n), s # {}, f[s \ {Max(s)}] \in D
               PROVE  f[s] = G[Max(s)][f[s \ {Max(s)}]]
    OBVIOUS
  <2>1. Max(s) \in 1..n
    BY <1>6
  <2>2. f[s] = ReduceTarget(f[s \ {Max(s)}], seq[Max(s)], positions, goals, limits)
    BY <1>2, <1>8 DEF ReductionsBy
  <2> QED BY <2>1, <2>2
<1> HIDE DEF G
<1>11. Continues(n, D, start, G, f)
  BY <1>9, <1>10 DEF Continues
<1>12. f[1..n] \in D
  <2>1. \E acc \in [0..n -> D] : Passes(n, start, G, acc) /\ f[1..n] = acc[n]
    BY <1>2, <1>4, <1>11, Pass
  <2>2. n \in 0..n
    BY <1>2
  <2> QED BY <2>1, <2>2
<1> QED BY <1>1, <1>2, <1>12 DEF D

\* The plan while staking, with what is left of the free balance.
StakingState(netuids, hotkeys, aims) ==
  [ops : Seq(Operation(netuids, hotkeys)), fulfilled : [aims -> Int], free : Int]

LEMMA StakeTargetTyped ==
  ASSUME NEW netuids, NEW hotkeys, NEW aims, NEW plan \in StakingState(netuids, hotkeys, aims),
         NEW t \in Goal(netuids, hotkeys), t.netuid \in aims
  PROVE  StakeTarget(plan, t) \in StakingState(netuids, hotkeys, aims)
<1> DEFINE O == Operation(netuids, hotkeys)
           amount == Min({Deficit(plan, t), plan.free})
           x == plan.ops
           y == plan.fulfilled
           z == plan.free
           op == Stake(t, amount)
           filled == [y EXCEPT ![t.netuid] = @ + amount]
           staked == [AddOps(Fulfil(plan, t, amount), <<op>>) EXCEPT !.free = @ - amount]
<1>1. /\ x \in Seq(O) /\ y \in [aims -> Int] /\ z \in Int
      /\ plan = [ops |-> x, fulfilled |-> y, free |-> z]
  BY DEF StakingState
<1>2. t.netuid \in netuids /\ t.hotkey \in hotkeys /\ t.value \in Nat
  BY DEF Goal
<1>3. amount \in Int
  <2> DEFINE d == Deficit(plan, t)
  <2>1. d \in Int
    BY <1>1, <1>2 DEF Deficit
  <2> HIDE DEF d, z
  <2>2. Min({d, z}) \in Int
    BY <1>1, <2>1, MinOfTwo
  <2> QED BY <2>2 DEF d, z
<1>4. \/ StakeTarget(plan, t) = plan
      \/ ~(amount < MinRebalance) /\ StakeTarget(plan, t) = staked
  BY DEF StakeTarget
<1> HIDE DEF amount
<1>5. SUFFICES ASSUME ~(amount < MinRebalance) PROVE staked \in StakingState(netuids, hotkeys, aims)
  BY <1>4
<1>6. amount \in Nat
  <2>1. MinRebalance \in Nat
    BY Config
  <2> QED BY <1>3, <1>5, <2>1
<1>7. op \in O
  <2>1. op \in StakeOps(netuids, hotkeys)
    BY <1>2, <1>6 DEF Stake, StakeOps
  <2> QED BY <2>1 DEF Operation
<1>8. filled \in [aims -> Int]
  BY <1>1, <1>3
<1>9. staked = [ops |-> x \o <<op>>, fulfilled |-> filled, free |-> z - amount]
  <2>1. \A a, b, c : [[ops |-> a, fulfilled |-> b, free |-> c] EXCEPT !.fulfilled[t.netuid] = @ + amount]
                       = [ops |-> a, fulfilled |-> [b EXCEPT ![t.netuid] = @ + amount], free |-> c]
    OBVIOUS
  <2>2. \A a, b, c, d : [[ops |-> a, fulfilled |-> b, free |-> c] EXCEPT !.ops = d]
                          = [ops |-> d, fulfilled |-> b, free |-> c]
    OBVIOUS
  <2>3. \A a, b, c, d : [[ops |-> a, fulfilled |-> b, free |-> c] EXCEPT !.free = d]
                          = [ops |-> a, fulfilled |-> b, free |-> d]
    OBVIOUS
  <2> DEFINE one == Fulfil(plan, t, amount)
             two == AddOps(one, <<op>>)
  <2>0. staked = [two EXCEPT !.free = @ - amount]
    OBVIOUS
  <2> HIDE DEF x, y, z, op
  <2>4. one = [ops |-> x, fulfilled |-> filled, free |-> z]
    BY <1>1, <2>1 DEF Fulfil
  <2> HIDE DEF one, filled
  <2>5. two = [one EXCEPT !.ops = one.ops \o <<op>>] /\ one.ops = x
    BY <2>4 DEF AddOps
  <2>6. two = [ops |-> x \o <<op>>, fulfilled |-> filled, free |-> z]
    BY <2>2, <2>4, <2>5
  <2> HIDE DEF two, staked
  <2>7. staked = [two EXCEPT !.free = two.free - amount] /\ two.free = z
    BY <2>0, <2>6
  <2> QED BY <2>3, <2>6, <2>7
<1>10. x \o <<op>> \in Seq(O)
  <2> HIDE DEF x, op, O
  <2> QED BY <1>1, <1>7
<1>11. z - amount \in Int
  BY <1>1, <1>3
<1> HIDE DEF x, z, op, filled, staked
<1> QED BY <1>8, <1>9, <1>10, <1>11 DEF StakingState

\* One stake after the other.
StakesBy(start, seq, g) ==
  g = [s \in SUBSET DOMAIN seq |->
         IF s = {} THEN start ELSE StakeTarget(g[s \ {Max(s)}], seq[Max(s)])]

AllStakes(start, seq) ==
  FoldLeft(StakeTarget, start, seq)

LEMMA AllStakesTyped ==
  ASSUME NEW netuids, NEW hotkeys, NEW seq \in Seq(Goal(netuids, hotkeys)),
         NEW start \in StakingState(netuids, hotkeys, Netuids(seq))
  PROVE  AllStakes(start, seq) \in StakingState(netuids, hotkeys, Netuids(seq))
<1> DEFINE D == StakingState(netuids, hotkeys, Netuids(seq))
           n == Len(seq)
           f == CHOOSE g : StakesBy(start, seq, g)
           G == [i \in 1..n |-> [q \in D |-> StakeTarget(q, seq[i])]]
<1>1. AllStakes(start, seq) = f[DOMAIN seq]
  BY DEF AllStakes, FoldLeft, MapThenFoldSet, StakesBy
<1>2. DOMAIN seq = 1..n /\ n \in Nat
  OBVIOUS
<1> HIDE DEF n
<1>3. ASSUME NEW q \in D, NEW i \in 1..n PROVE StakeTarget(q, seq[i]) \in D
  <2>1. seq[i] \in Goal(netuids, hotkeys) /\ seq[i].netuid \in Netuids(seq)
    BY <1>2, GoalsAims
  <2> QED BY <2>1, StakeTargetTyped
<1>4. G \in [1..n -> [D -> D]] /\ start \in D
  <2> HIDE DEF D
  <2>1. start \in D
    BY DEF D
  <2> QED BY <1>3, <2>1
<1> HIDE DEF D
<1>5. PICK h \in [SUBSET (1..n) -> D] : PassesBy(n, start, G, h)
  <2> HIDE DEF G
  <2> QED BY <1>2, <1>4, PassExists
<1>6. \A s \in SUBSET (1..n) : s # {} => Max(s) \in 1..n
  BY <1>2, MaxOfPart
<1>7. StakesBy(start, seq, h)
  <2>1. ASSUME NEW s \in SUBSET (1..n), s # {}
        PROVE  h[s] = StakeTarget(h[s \ {Max(s)}], seq[Max(s)])
    <3>1. Max(s) \in 1..n /\ h[s \ {Max(s)}] \in D
      BY <1>6, <2>1
    <3>2. h[s] = G[Max(s)][h[s \ {Max(s)}]]
      BY <1>5, <2>1 DEF PassesBy
    <3> QED BY <3>1, <3>2
  <2>2. h[{}] = start
    BY <1>5 DEF PassesBy
  <2>3. h = [s \in SUBSET (1..n) |-> h[s]]
    OBVIOUS
  <2> HIDE DEF G
  <2> QED BY <1>2, <2>1, <2>2, <2>3 DEF StakesBy
<1>8. StakesBy(start, seq, f)
  BY <1>7
<1> HIDE DEF f
<1>9. f[{}] = start
  BY <1>2, <1>8 DEF StakesBy
<1>10. \A s \in SUBSET (1..n) : s # {} /\ f[s \ {Max(s)}] \in D =>
          f[s] = G[Max(s)][f[s \ {Max(s)}]]
  <2> SUFFICES ASSUME NEW s \in SUBSET (1..n), s # {}, f[s \ {Max(s)}] \in D
               PROVE  f[s] = G[Max(s)][f[s \ {Max(s)}]]
    OBVIOUS
  <2>1. Max(s) \in 1..n
    BY <1>6
  <2>2. f[s] = StakeTarget(f[s \ {Max(s)}], seq[Max(s)])
    BY <1>2, <1>8 DEF StakesBy
  <2> QED BY <2>1, <2>2
<1> HIDE DEF G
<1>11. Continues(n, D, start, G, f)
  BY <1>9, <1>10 DEF Continues
<1>12. f[1..n] \in D
  <2>1. \E acc \in [0..n -> D] : Passes(n, start, G, acc) /\ f[1..n] = acc[n]
    BY <1>2, <1>4, <1>11, Pass
  <2>2. n \in 0..n
    BY <1>2
  <2> QED BY <2>1, <2>2
<1> QED BY <1>1, <1>2, <1>12 DEF D

LEMMA ProceedsNat ==
  ASSUME NEW netuids, NEW hotkeys, NEW batch \in Seq(Operation(netuids, hotkeys))
  PROVE  Proceeds(batch) \in Nat
<1> DEFINE U == UnstakeOps(netuids, hotkeys)
           I == {i \in DOMAIN batch : batch[i].kind \in {"unstake", "unstake_partial"}}
           s == Where(batch, I)
           f == [i \in DOMAIN s |-> s[i].tao]
<1>1. \A i \in I : batch[i] \in U
  <2> SUFFICES ASSUME NEW i \in DOMAIN batch, batch[i].kind \in {"unstake", "unstake_partial"}
               PROVE  batch[i] \in U
    OBVIOUS
  <2>1. batch[i] \in Operation(netuids, hotkeys)
    OBVIOUS
  <2>2. \A x \in MoveOps(netuids, hotkeys) : x.kind = "move"
    BY DEF MoveOps
  <2>3. \A x \in SwapOps(netuids, hotkeys) : x.kind = "swap"
    BY DEF SwapOps
  <2>4. \A x \in StakeOps(netuids, hotkeys) : x.kind = "stake"
    BY DEF StakeOps
  <2> QED BY <2>1, <2>2, <2>3, <2>4 DEF Operation
<1>2. I \in SUBSET DOMAIN batch
  OBVIOUS
<1>3. Proceeds(batch) = SumFunction(f)
  BY DEF Proceeds, SumOf
<1> HIDE DEF I, U
<1>4. s \in Seq(U)
  BY <1>1, <1>2, WhereIn
<1> HIDE DEF s
<1>5. \A i \in DOMAIN s : f[i] \in Nat
  <2> SUFFICES ASSUME NEW i \in DOMAIN s PROVE s[i].tao \in Nat
    OBVIOUS
  <2>1. s[i] \in U
    BY <1>4
  <2> QED BY <2>1 DEF U, UnstakeOps
<1>6. IsFiniteSet(DOMAIN s)
  BY <1>4, DomainFinite
<1>7. DOMAIN f = DOMAIN s
  OBVIOUS
<1> HIDE DEF f
<1>8. SumFunctionOnSet(f, DOMAIN s) \in Nat
  BY <1>5, <1>6, SumNat
<1> QED BY <1>3, <1>7, <1>8 DEF SumFunction

LEMMA GenerateTyped ==
  ASSUME NEW netuids, NEW hotkeys, NEW goals \in Seq(Goal(netuids, hotkeys)),
         NEW positions \in Seq(Priced(netuids, hotkeys)), NEW freeBalance \in Int,
         NEW limits \in BOOLEAN
  PROVE  GenerateOperations(positions, goals, freeBalance, limits) \in Seq(Operation(netuids, hotkeys))
<1> DEFINE aims == Netuids(goals)
           PS == PlanState(netuids, hotkeys, aims)
           first == Exits(positions, goals, limits)
           second == Reductions(first, positions, goals, limits)
           free0 == Max({0, freeBalance - FreeReserve + Proceeds(second.ops)})
           start == [ops |-> second.ops, fulfilled |-> second.fulfilled, free |-> free0]
<1>1. first \in PS
  BY ExitsStartTyped
<1>2. second \in PS
  <2> HIDE DEF first
  <2>1. second = AllReductions(positions, goals, limits, first, goals)
    BY DEF Reductions, AllReductions
  <2>2. AllReductions(positions, goals, limits, first, goals) \in PS
    BY <1>1, AllReductionsTyped
  <2> QED BY <2>1, <2>2
<1>3. GenerateOperations(positions, goals, freeBalance, limits) = AllStakes(start, goals).ops
  BY DEF GenerateOperations, Stakings, AllStakes
<1> HIDE DEF second
<1>4. second.ops \in Seq(Operation(netuids, hotkeys)) /\ second.fulfilled \in [aims -> Int]
  BY <1>2 DEF PlanState
<1>5. free0 \in Int
  <2> DEFINE y == freeBalance - FreeReserve + Proceeds(second.ops)
  <2>1. Proceeds(second.ops) \in Nat
    BY <1>4, ProceedsNat
  <2>2. FreeReserve \in Nat
    BY Config
  <2>3. y \in Int /\ 0 \in Int
    BY <2>1, <2>2
  <2> HIDE DEF y
  <2>4. Max({0, y}) \in Int
    BY <2>3, MaxOfTwo
  <2> QED BY <2>4 DEF y
<1> HIDE DEF free0
<1>6. start \in StakingState(netuids, hotkeys, aims)
  BY <1>4, <1>5 DEF StakingState
<1> HIDE DEF start
<1>7. AllStakes(start, goals) \in StakingState(netuids, hotkeys, aims)
  BY <1>6, AllStakesTyped
<1> QED BY <1>3, <1>7 DEF StakingState

-----------------------------------------------------------------------------
(* Replenishing the reserve.                                               *)

Distinct(positions) ==
  \A i, j \in DOMAIN positions :
    positions[i].netuid = positions[j].netuid /\ positions[i].hotkey = positions[j].hotkey => i = j

\* What one operation may take from a position.
TakesFrom(p, alpha, tao) ==
  /\ alpha \in Nat /\ tao \in Nat
  /\ alpha <= p.stake /\ tao <= p.taoValue /\ alpha * p.alphaPrice <= tao * TAO

Replenishing(positions, replenish) ==
  replenish # <<>> =>
    \E s \in DOMAIN positions, alpha, tao \in Nat :
      replenish = <<UnstakePartial(positions[s], alpha, tao)>> /\ TakesFrom(positions[s], alpha, tao)

LEMMA Affordable ==
  ASSUME NEW netuids, NEW hotkeys, NEW p \in Priced(netuids, hotkeys), NEW tao \in Nat,
         tao <= p.taoValue, TaoToAlpha(tao, p.alphaPrice) > 0
  PROVE  TakesFrom(p, TaoToAlpha(tao, p.alphaPrice), tao)
<1> DEFINE price == p.alphaPrice
           st == p.stake
           tv == p.taoValue
           alpha == TaoToAlpha(tao, price)
<1>1. st \in Nat /\ price \in Nat /\ tv \in Nat /\ tv * TAO <= st * price
  BY DEF Priced, Position
<1>2. alpha \in Nat
  BY <1>1, ConversionsNat
<1>3. price \in Nat \ {0}
  BY <1>1 DEF TaoToAlpha
<1>4. alpha = (tao * TAO) \div price
  BY <1>3 DEF TaoToAlpha
<1>5. TAO \in Nat \ {0}
  BY Config
<1> HIDE DEF price, st, tv, alpha
<1>6. tao * TAO \in Nat /\ tao <= tv
  BY <1>5 DEF tv
<1>7. alpha * price <= tao * TAO
  <2> DEFINE x == tao * TAO
  <2> HIDE DEF x
  <2>1. x \in Nat /\ alpha = x \div price
    BY <1>4, <1>6 DEF x
  <2>2. alpha * price <= x
    BY <1>3, <2>1, Division
  <2> QED BY <2>2 DEF x
<1>8. alpha <= st
  <2>1. tao * TAO <= tv * TAO
    BY <1>1, <1>5, <1>6, Times
  <2>2. alpha * price \in Int /\ tao * TAO \in Int /\ tv * TAO \in Int /\ st * price \in Int
    BY <1>1, <1>2, <1>3, <1>5
  <2>3. alpha * price <= st * price
    BY <1>1, <1>7, <2>1, <2>2
  <2> QED BY <1>1, <1>2, <1>3, <2>3, Cancel
<1> QED BY <1>2, <1>6, <1>7, <1>8 DEF TakesFrom, price, st, tv, alpha

LEMMA ReplenishOpsFit ==
  ASSUME NEW netuids, NEW hotkeys, NEW positions \in Seq(Priced(netuids, hotkeys)),
         NEW freeBalance \in Nat, NEW wanted
  PROVE  Replenishing(positions, ReplenishOps(freeBalance, positions, wanted))
<1> DEFINE E == {positions[i] : i \in DOMAIN positions}
           deficit == FreeReserve - freeBalance
           exits == ExitsOf(positions, wanted)
           sources == IF exits = <<>> THEN positions ELSE exits
           key == [i \in DOMAIN sources |-> sources[i].taoValue]
           source == SortByDesc(sources, key)[1]
           alpha == TaoToAlpha(deficit, source.alphaPrice)
           result == ReplenishOps(freeBalance, positions, wanted)
<1>1. \/ result = <<>>
      \/ /\ ~(deficit <= 0) /\ positions # <<>>
         /\ ~(source.taoValue - deficit < MinStake) /\ ~(alpha <= 0)
         /\ result = <<UnstakePartial(source, alpha, deficit)>>
  BY DEF ReplenishOps
<1>2. SUFFICES ASSUME positions # <<>>, ~(deficit <= 0),
                      ~(source.taoValue - deficit < MinStake), ~(alpha <= 0),
                      result = <<UnstakePartial(source, alpha, deficit)>>
               PROVE  Replenishing(positions, result)
  BY <1>1 DEF Replenishing
<1>3. positions \in Seq(E)
  OBVIOUS
<1>4. E \subseteq Priced(netuids, hotkeys)
  OBVIOUS
<1>5. exits \in Seq(E)
  <2> DEFINE I == {i \in DOMAIN positions : IsExit(positions[i], wanted)}
  <2>1. I \in SUBSET DOMAIN positions
    OBVIOUS
  <2> HIDE DEF I, E
  <2> QED BY <1>3, <2>1, WhereSelects DEF ExitsOf, I
<1>6. deficit \in Nat
  <2>1. FreeReserve \in Nat
    BY Config
  <2> QED BY <1>2, <2>1
<1> HIDE DEF E, exits, deficit, result
<1>7. sources \in Seq(E) /\ sources # <<>>
  BY <1>2, <1>3, <1>5
<1> HIDE DEF sources
<1>8. key \in [DOMAIN sources -> Int]
  <2> SUFFICES ASSUME NEW i \in DOMAIN sources PROVE sources[i].taoValue \in Int
    OBVIOUS
  <2>1. sources[i] \in Priced(netuids, hotkeys)
    BY <1>4, <1>7
  <2> QED BY <2>1, PricedIsTyped
<1> HIDE DEF key
<1>9. source \in E
  <2>1. SortByDesc(sources, key) \in Seq(E) /\ Len(SortByDesc(sources, key)) = Len(sources)
    BY <1>7, <1>8, SortIn
  <2> DEFINE sorted == SortByDesc(sources, key)
  <2>2. Len(sources) \in Nat /\ Len(sources) # 0
    BY <1>7
  <2> HIDE DEF sorted
  <2>3. sorted \in Seq(E) /\ Len(sorted) \in Nat /\ Len(sorted) # 0
    BY <2>1, <2>2 DEF sorted
  <2>4. sorted[1] \in E
    BY <2>3
  <2> QED BY <2>4 DEF sorted
<1> HIDE DEF source
<1>10. source \in Priced(netuids, hotkeys) /\ source.taoValue \in Nat /\ source.alphaPrice \in Nat
  BY <1>4, <1>9, PricedIsTyped
<1>11. deficit <= source.taoValue
  <2>1. MinStake \in Nat
    BY Config
  <2> QED BY <1>2, <1>6, <1>10, <2>1
<1>12. alpha \in Nat /\ alpha > 0
  <2>1. alpha \in Nat
    BY <1>6, <1>10, ConversionsNat
  <2> HIDE DEF alpha
  <2> QED BY <1>2, <2>1
<1>13. TakesFrom(source, alpha, deficit)
  BY <1>6, <1>10, <1>11, <1>12, Affordable
<1>14. PICK s \in DOMAIN positions : source = positions[s]
  BY <1>9 DEF E
<1> HIDE DEF alpha
<1> QED BY <1>2, <1>6, <1>12, <1>13, <1>14 DEF Replenishing

\* Taking part of a position leaves one whose value its alpha covers.
LEMMA TakenFrom ==
  ASSUME NEW netuids, NEW hotkeys, NEW p \in Priced(netuids, hotkeys), NEW alpha, NEW tao,
         TakesFrom(p, alpha, tao)
  PROVE  [p EXCEPT !.stake = @ - alpha, !.taoValue = @ - tao] \in Priced(netuids, hotkeys)
<1> DEFINE price == p.alphaPrice
           st == p.stake
           tv == p.taoValue
           q == [p EXCEPT !.stake = @ - alpha, !.taoValue = @ - tao]
<1>1. /\ st \in Nat /\ price \in Nat /\ tv \in Nat /\ tv * TAO <= st * price
      /\ p.netuid \in netuids /\ p.hotkey \in hotkeys
      /\ p = [netuid |-> p.netuid, hotkey |-> p.hotkey, stake |-> st, alphaPrice |-> price,
              taoValue |-> tv]
  BY DEF Priced, Position
<1>2. alpha \in Nat /\ tao \in Nat /\ alpha <= st /\ tao <= tv /\ alpha * price <= tao * TAO
  BY DEF TakesFrom
<1>3. q = [netuid |-> p.netuid, hotkey |-> p.hotkey, stake |-> st - alpha, alphaPrice |-> price,
           taoValue |-> tv - tao]
  <2>1. \A a, b, c, d, e, x :
          [[netuid |-> a, hotkey |-> b, stake |-> c, alphaPrice |-> d, taoValue |-> e] EXCEPT !.stake = x]
          = [netuid |-> a, hotkey |-> b, stake |-> x, alphaPrice |-> d, taoValue |-> e]
    OBVIOUS
  <2>5. \A a, b, c, d, e, y :
          [[netuid |-> a, hotkey |-> b, stake |-> c, alphaPrice |-> d, taoValue |-> e] EXCEPT !.taoValue = y]
          = [netuid |-> a, hotkey |-> b, stake |-> c, alphaPrice |-> d, taoValue |-> y]
    OBVIOUS
  <2>6. \A v, x, y : [v EXCEPT !.stake = x, !.taoValue = y]
                       = [[v EXCEPT !.stake = x] EXCEPT !.taoValue = y]
    OBVIOUS
  <2> DEFINE a == p.netuid
             b == p.hotkey
             x == st - alpha
             y == tv - tao
  <2>2. p = [netuid |-> a, hotkey |-> b, stake |-> st, alphaPrice |-> price, taoValue |-> tv]
    BY <1>1
  <2>3. q = [p EXCEPT !.stake = x, !.taoValue = y]
    OBVIOUS
  <2> HIDE DEF a, b, st, price, tv, x, y, q
  <2>4. q = [netuid |-> a, hotkey |-> b, stake |-> x, alphaPrice |-> price, taoValue |-> y]
    BY <2>1, <2>2, <2>3, <2>5, <2>6
  <2> QED BY <2>4 DEF a, b, x, y
<1> HIDE DEF st, price, tv
<1>4. st - alpha \in Nat /\ tv - tao \in Nat
  BY <1>1, <1>2
<1>5. (tv - tao) * TAO <= (st - alpha) * price
  <2>1. TAO \in Nat
    BY Config
  <2>2. (tv - tao) * TAO = tv * TAO - tao * TAO /\ (st - alpha) * price = st * price - alpha * price
    BY <1>1, <1>2, <2>1
  <2>3. tv * TAO \in Int /\ tao * TAO \in Int /\ st * price \in Int /\ alpha * price \in Int
    BY <1>1, <1>2, <2>1
  <2> QED BY <1>1, <1>2, <2>2, <2>3
<1> HIDE DEF q
<1>6. q \in Position(netuids, hotkeys)
  BY <1>1, <1>3, <1>4 DEF Position
<1>7. q.stake = st - alpha /\ q.taoValue = tv - tao /\ q.alphaPrice = price
  BY <1>3
<1>8. q \in Priced(netuids, hotkeys)
  BY <1>5, <1>6, <1>7 DEF Priced
<1> QED BY <1>8 DEF q

LEMMA AdjustedTyped ==
  ASSUME NEW netuids, NEW hotkeys, NEW positions \in Seq(Priced(netuids, hotkeys)),
         Distinct(positions), NEW replenish, Replenishing(positions, replenish)
  PROVE  AdjustedPositions(positions, replenish) \in Seq(Priced(netuids, hotkeys))
<1> DEFINE Pr == Priced(netuids, hotkeys)
           Hit(i) == positions[i].netuid = replenish[1].netuid
                     /\ positions[i].hotkey = replenish[1].hotkey
           less(i) == [positions[i] EXCEPT !.stake = @ - replenish[1].alpha,
                                           !.taoValue = @ - replenish[1].tao]
           adjusted == AdjustedPositions(positions, replenish)
<1>1. adjusted = [i \in DOMAIN positions |-> IF replenish # <<>> /\ Hit(i) THEN less(i) ELSE positions[i]]
  BY DEF AdjustedPositions
<1>2. \A i \in DOMAIN positions : positions[i] \in Pr
  OBVIOUS
<1>3. ASSUME NEW i \in DOMAIN positions, replenish # <<>>, Hit(i)
      PROVE  less(i) \in Pr
  <2>1. PICK s \in DOMAIN positions, alpha \in Nat, tao \in Nat :
          replenish = <<UnstakePartial(positions[s], alpha, tao)>> /\ TakesFrom(positions[s], alpha, tao)
    BY <1>3 DEF Replenishing
  <2>2. replenish[1].netuid = positions[s].netuid /\ replenish[1].hotkey = positions[s].hotkey
        /\ replenish[1].alpha = alpha /\ replenish[1].tao = tao
    BY <2>1 DEF UnstakePartial
  <2>3. i = s
    BY <1>3, <2>2 DEF Distinct
  <2>4. TakesFrom(positions[i], alpha, tao)
    BY <2>1, <2>3
  <2>5. [positions[i] EXCEPT !.stake = @ - alpha, !.taoValue = @ - tao] \in Pr
    BY <1>2, <2>4, TakenFrom
  <2> QED BY <2>2, <2>5
<1> HIDE DEF adjusted
<1>4. \A i \in DOMAIN positions : adjusted[i] \in Pr
  <2> HIDE DEF less, Pr, Hit
  <2> QED BY <1>1, <1>2, <1>3
<1>5. adjusted = [i \in DOMAIN positions |-> adjusted[i]]
  BY <1>1
<1>6. DOMAIN positions = 1..Len(positions) /\ Len(positions) \in Nat
  OBVIOUS
<1> HIDE DEF Pr
<1>7. adjusted \in [1..Len(positions) -> Pr]
  BY <1>4, <1>5, <1>6
<1>8. adjusted \in Seq(Pr)
  BY <1>6, <1>7
<1> QED BY <1>8 DEF adjusted, Pr

-----------------------------------------------------------------------------

LEMMA RoundShareNat ==
  ASSUME NEW share \in Nat \X (Nat \ {0})
  PROVE  RoundShare(share) \in Nat
<1> DEFINE x == share[1]
           y == share[2]
           a == 2 * x * ShareUnit + y
           b == 2 * y
<1>1. x \in Nat /\ y \in Nat \ {0} /\ ShareUnit \in Nat
  BY Config
<1> HIDE DEF x, y
<1>2. a \in Nat /\ b \in Nat \ {0}
  BY <1>1
<1> HIDE DEF a, b
<1>3. a \div b \in Nat
  BY <1>2, Division
<1> QED BY <1>3 DEF RoundShare, a, b, x, y

LEMMA PlanAfterTyped ==
  ASSUME NEW netuids, netuids \in SUBSET Nat, NEW hotkeys, NEW held,
         held.free \in Nat, held.stakes \in Seq(Priced(netuids, hotkeys)),
         Distinct(held.stakes), held.totalTaoValue \in Int,
         NEW wanted \in Seq(Targeted(netuids, hotkeys)), NEW limits \in BOOLEAN,
         NEW replenish \in Seq(Operation(netuids, hotkeys)),
         Replenishing(held.stakes, replenish)
  PROVE  PlanAfter(replenish, held, wanted, limits) \in Seq(Operation(netuids, hotkeys))
<1> DEFINE O == Operation(netuids, hotkeys)
           Gl == Goal(netuids, hotkeys)
           available == held.totalTaoValue - FreeReserve
           resolved == [i \in DOMAIN wanted |->
             [netuid |-> wanted[i].netuid, hotkey |-> wanted[i].hotkey,
              value |-> (available * RoundShare(wanted[i].share)) \div ShareUnit]]
           key == [i \in DOMAIN resolved |-> -resolved[i].netuid]
           sorted == SortByDesc(resolved, key)
           adjusted == AdjustedPositions(held.stakes, replenish)
           more == GenerateOperations(adjusted, sorted, held.free + Proceeds(replenish), limits)
<1>1. PlanAfter(replenish, held, wanted, limits)
        = IF available <= 0 THEN replenish ELSE replenish \o more
  BY DEF PlanAfter
<1>2. available \in Int
  <2>1. FreeReserve \in Nat
    BY Config
  <2> QED BY <2>1
<1> HIDE DEF available
<1>3. CASE available <= 0
  BY <1>1, <1>3
<1>4. CASE ~(available <= 0)
  <2>1. \A i \in DOMAIN wanted : resolved[i] \in Gl
    <3> SUFFICES ASSUME NEW i \in DOMAIN wanted PROVE resolved[i] \in Gl
      OBVIOUS
    <3>1. wanted[i] \in Targeted(netuids, hotkeys)
      OBVIOUS
    <3>2. wanted[i].netuid \in netuids /\ wanted[i].hotkey \in hotkeys
          /\ wanted[i].share \in Nat \X (Nat \ {0})
      BY <3>1 DEF Targeted
    <3> DEFINE r == RoundShare(wanted[i].share)
               x == available * r
    <3>3. r \in Nat
      BY <3>2, RoundShareNat
    <3> HIDE DEF r
    <3>4. x \in Nat
      BY <1>2, <1>4, <3>3
    <3>5. ShareUnit \in Nat \ {0}
      BY Config
    <3> HIDE DEF x
    <3>6. x \div ShareUnit \in Nat
      BY <3>4, <3>5, Division
    <3>7. resolved[i] = [netuid |-> wanted[i].netuid, hotkey |-> wanted[i].hotkey,
                         value |-> x \div ShareUnit]
      BY DEF x, r
    <3> QED BY <3>2, <3>6, <3>7 DEF Goal
  <2>2. DOMAIN wanted = 1..Len(wanted) /\ Len(wanted) \in Nat /\ DOMAIN resolved = DOMAIN wanted
    OBVIOUS
  <2>3. resolved = [i \in 1..Len(wanted) |-> resolved[i]]
    BY <2>2
  <2> HIDE DEF resolved, Gl
  <2>4. resolved \in [1..Len(wanted) -> Gl]
    BY <2>1, <2>2, <2>3
  <2>5. resolved \in Seq(Gl)
    BY <2>2, <2>4
  <2>6. key \in [DOMAIN resolved -> Int]
    <3> SUFFICES ASSUME NEW i \in DOMAIN resolved PROVE -resolved[i].netuid \in Int
      OBVIOUS
    <3>1. resolved[i] \in Gl
      BY <2>5
    <3>2. resolved[i].netuid \in Nat
      BY <3>1 DEF Gl, Goal
    <3> QED BY <3>2
  <2> HIDE DEF key
  <2>7. sorted \in Seq(Gl)
    BY <2>5, <2>6, SortIn
  <2> HIDE DEF sorted
  <2>8. adjusted \in Seq(Priced(netuids, hotkeys))
    BY AdjustedTyped
  <2> HIDE DEF adjusted
  <2>9. held.free + Proceeds(replenish) \in Int
    <3>1. Proceeds(replenish) \in Nat
      BY ProceedsNat
    <3> QED BY <3>1
  <2>10. more \in Seq(O)
    <3>1. sorted \in Seq(Goal(netuids, hotkeys))
      BY <2>7 DEF Gl
    <3> QED BY <2>8, <2>9, <3>1, GenerateTyped
  <2> HIDE DEF more
  <2>11. replenish \o more \in Seq(O)
    <3>1. replenish \in Seq(O)
      OBVIOUS
    <3> HIDE DEF O
    <3> QED BY <2>10, <3>1
  <2> QED BY <1>1, <1>4, <2>11
<1> QED BY <1>3, <1>4

\* A plan for typed balances and targets consists of operations on known subnets,
\* between known hotkeys, in amounts that are not negative.
LEMMA PlanTyped ==
  ASSUME NEW netuids, netuids \in SUBSET Nat, NEW hotkeys, NEW held,
         held.free \in Nat, held.stakes \in Seq(Priced(netuids, hotkeys)),
         Distinct(held.stakes), held.totalTaoValue \in Int,
         NEW wanted \in Seq(Targeted(netuids, hotkeys)), NEW limits \in BOOLEAN
  PROVE  Plan(held, wanted, limits) \in Seq(Operation(netuids, hotkeys))
<1> DEFINE O == Operation(netuids, hotkeys)
           replenish == ReplenishOps(held.free, held.stakes, wanted)
<1>1. Replenishing(held.stakes, replenish)
  BY ReplenishOpsFit
<1> HIDE DEF replenish
<1>2. replenish \in Seq(O)
  <2>1. CASE replenish = <<>>
    BY <2>1
  <2>2. CASE replenish # <<>>
    <3>1. PICK s \in DOMAIN held.stakes, alpha \in Nat, tao \in Nat :
            replenish = <<UnstakePartial(held.stakes[s], alpha, tao)>>
      BY <1>1, <2>2 DEF Replenishing
    <3>2. held.stakes[s] \in Position(netuids, hotkeys)
      <4>1. held.stakes[s] \in Priced(netuids, hotkeys)
        OBVIOUS
      <4> QED BY <4>1, PricedIsTyped
    <3>3. UnstakePartial(held.stakes[s], alpha, tao) \in O
      BY <3>2, UnstakesTyped
    <3> HIDE DEF O
    <3> QED BY <3>1, <3>3
  <2> QED BY <2>1, <2>2
<1>3. PlanAfter(replenish, held, wanted, limits) \in Seq(O)
  BY <1>1, <1>2, PlanAfterTyped
<1>4. Plan(held, wanted, limits)
        = IF wanted = <<>> THEN <<>> ELSE PlanAfter(replenish, held, wanted, limits)
  BY DEF Plan, replenish
<1>5. <<>> \in Seq(O)
  OBVIOUS
<1> QED BY <1>3, <1>4, <1>5

-----------------------------------------------------------------------------
(* What the bot sees: the prices of a world and the positions of the wallet. *)

Keys == ToSet(Hotkeys)

LEMMA WorldKnown ==
  ASSUME NEW w \in DOMAIN World
  PROVE  /\ NetuidsOf(w) \in SUBSET Nat /\ IsFiniteSet(NetuidsOf(w)) /\ 0 \in NetuidsOf(w)
         /\ IsFiniteSet(World[w].subnets)
         /\ \A s \in World[w].subnets : s \in SubnetState /\ s.netuid \in NetuidsOf(w)
         /\ \A v \in DOMAIN World : NetuidsOf(v) = NetuidsOf(w)
<1>1. IsWorld(w) /\ \A v \in DOMAIN World : NetuidsOf(v) = NetuidsOf(w)
  BY PortfolioAssumption DEF PortfolioAssumption
<1>2. IsFiniteSet(World[w].subnets) /\ 0 \in NetuidsOf(w)
      /\ \A s \in World[w].subnets : s \in SubnetState
  BY <1>1 DEF IsWorld
<1>3. IsFiniteSet(NetuidsOf(w))
  <2> DEFINE S == World[w].subnets
             f == [s \in S |-> s.netuid]
             T == {f[s] : s \in S}
  <2>1. f \in [S -> T]
    OBVIOUS
  <2>2. f \in Surjection(S, T)
    BY <2>1 DEF Surjection
  <2> HIDE DEF f
  <2>3. IsFiniteSet(T)
    BY <1>2, <2>2, FS_Surjection
  <2>4. T = NetuidsOf(w)
    BY DEF NetuidsOf, f
  <2> QED BY <2>3, <2>4
<1>4. \A s \in World[w].subnets : s.netuid \in NetuidsOf(w)
  BY DEF NetuidsOf
<1>5. \A s \in World[w].subnets : s.netuid \in Nat
  BY <1>2 DEF SubnetState
<1>6. NetuidsOf(w) \in SUBSET Nat
  BY <1>5 DEF NetuidsOf
<1> QED BY <1>1, <1>2, <1>3, <1>4, <1>6

LEMMA PricesNat ==
  ASSUME NEW w \in DOMAIN World
  PROVE  /\ Prices(w) \in [NetuidsOf(w) -> Nat]
         /\ Prices(w)[0] = TAO
<1>1. TAO \in Nat \ {0}
  BY Config
<1>2. ASSUME NEW n \in NetuidsOf(w) PROVE Price(w, n) \in Nat
  <2> DEFINE s == CHOOSE s \in World[w].subnets : s.netuid = n
  <2>1. s \in World[w].subnets
    BY DEF NetuidsOf
  <2> HIDE DEF s
  <2>2. s.taoIn \in Nat /\ s.alphaIn \in Nat
    BY <2>1, WorldKnown DEF SubnetState
  <2>3. s.alphaIn > 0 => (s.taoIn * TAO) \div s.alphaIn \in Nat
    <3> DEFINE x == s.taoIn * TAO
               y == s.alphaIn
    <3>1. x \in Nat /\ y \in Nat
      BY <1>1, <2>2
    <3> HIDE DEF x, y
    <3>2. y > 0 => x \div y \in Nat
      BY <3>1, Division
    <3> QED BY <3>2 DEF x, y
  <2>4. Price(w, n) = IF n = 0 THEN TAO
                      ELSE IF s.alphaIn > 0 THEN (s.taoIn * TAO) \div s.alphaIn ELSE 0
    BY DEF Price, s
  <2> QED BY <1>1, <2>3, <2>4
<1>3. Prices(w) = [n \in NetuidsOf(w) |-> Price(w, n)]
  BY DEF Prices, NetuidsOf
<1>4. 0 \in NetuidsOf(w)
  BY WorldKnown
<1>5. Price(w, 0) = TAO
  BY DEF Price
<1> QED BY <1>2, <1>3, <1>4, <1>5

LEMMA HotkeysDistinct ==
  /\ DOMAIN Hotkeys = 1..Len(Hotkeys) /\ Len(Hotkeys) \in Nat
  /\ \A i \in DOMAIN Hotkeys : Hotkeys[i] \in Keys
  /\ \A i, j \in DOMAIN Hotkeys : Hotkeys[i] = Hotkeys[j] => i = j
  /\ \A h \in Keys : \E i \in DOMAIN Hotkeys : Hotkeys[i] = h
  /\ None \notin Keys /\ Fallback \in Keys \cup {None}
<1>1. Hotkeys \in Seq(Keys)
  BY PortfolioAssumption DEF PortfolioAssumption, Keys
<1>2. Keys = {Hotkeys[i] : i \in DOMAIN Hotkeys}
  BY DEF Keys, ToSet
<1>3. \A i, j \in DOMAIN Hotkeys : Hotkeys[i] = Hotkeys[j] => i = j
  BY PortfolioAssumption DEF PortfolioAssumption
<1>4. None \notin Keys /\ Fallback \in Keys \cup {None}
  BY PortfolioAssumption DEF PortfolioAssumption, Keys
<1> QED BY <1>1, <1>2, <1>3, <1>4

\* The position of a holding.
PositionAt(price, x) ==
  [netuid |-> x[1], hotkey |-> Hotkeys[x[2]], stake |-> stake[x[1]][Hotkeys[x[2]]],
   alphaPrice |-> price[x[1]], taoValue |-> AlphaToTao(stake[x[1]][Hotkeys[x[2]]], price[x[1]])]

LEMMA HoldingsListed ==
  ASSUME NEW netuids \in SUBSET Nat, IsFiniteSet(netuids), DOMAIN stake = netuids, NEW price
  PROVE  \E order : /\ Lists(Holdings, order)
                    /\ StakesAt(price) = [i \in DOMAIN order |-> PositionAt(price, order[i])]
<1> DEFINE Ahead == [x \in Holdings |->
                      {y \in Holdings : y[1] < x[1] \/ (y[1] = x[1] /\ y[2] < x[2])}]
           order == InOrder(Holdings, Ahead)
<1>1. \A x \in Holdings : x[1] \in Nat /\ x[2] \in Nat
  BY HotkeysDistinct DEF Holdings
<1>2. IsFiniteSet(Holdings)
  <2>1. IsFiniteSet(DOMAIN Hotkeys)
    BY HotkeysDistinct, FS_Interval
  <2>2. IsFiniteSet(netuids \X DOMAIN Hotkeys)
    BY <2>1, FS_Product
  <2>3. Holdings \subseteq netuids \X DOMAIN Hotkeys
    BY DEF Holdings
  <2> QED BY <2>2, <2>3, FS_Subset
<1>3. StrictOrder(Holdings, Ahead)
  <2> DEFINE Before(y, x) == y[1] < x[1] \/ (y[1] = x[1] /\ y[2] < x[2])
  <2>1. \A x, y \in Holdings : y \in Ahead[x] <=> Before(y, x)
    OBVIOUS
  <2>2. ASSUME NEW x \in Holdings, Before(x, x) PROVE FALSE
    BY <1>1, <2>2
  <2>3. ASSUME NEW x \in Holdings, NEW y \in Holdings, NEW z \in Holdings,
               Before(y, x), Before(z, y)
        PROVE  Before(z, x)
    <3>1. x[1] \in Nat /\ x[2] \in Nat /\ y[1] \in Nat /\ y[2] \in Nat /\ z[1] \in Nat /\ z[2] \in Nat
      BY <1>1
    <3> QED BY <2>3, <3>1
  <2> HIDE DEF Ahead, Before
  <2> QED BY <2>1, <2>2, <2>3 DEF StrictOrder
<1>4. Lists(Holdings, order)
  <2> HIDE DEF Ahead
  <2> QED BY <1>2, <1>3, InOrderLists
<1>5. StakesAt(price) = [i \in DOMAIN order |-> PositionAt(price, order[i])]
  BY DEF StakesAt, PositionAt
<1> HIDE DEF order
<1> QED BY <1>4, <1>5

LEMMA StakesTyped ==
  ASSUME NEW netuids \in SUBSET Nat, IsFiniteSet(netuids), stake \in [netuids -> [Keys -> Nat]],
         NEW price \in [netuids -> Nat]
  PROVE  StakesAt(price) \in Seq(Priced(netuids, Keys)) /\ Distinct(StakesAt(price))
<1>1. PICK order : /\ Lists(Holdings, order)
                   /\ StakesAt(price) = [i \in DOMAIN order |-> PositionAt(price, order[i])]
  BY HoldingsListed
<1> DEFINE s == StakesAt(price)
           n == Len(order)
<1>2. /\ order \in Seq(Holdings) /\ n \in Nat /\ DOMAIN order = 1..n
      /\ \A i, j \in 1..n : order[i] = order[j] => i = j
  <2>1. order \in Seq(Holdings) /\ \A i, j \in 1..n : order[i] = order[j] => i = j
    BY <1>1 DEF Lists
  <2> QED BY <2>1
<1>3. \A x \in Holdings : /\ x[1] \in netuids /\ x[2] \in DOMAIN Hotkeys /\ x = <<x[1], x[2]>>
                          /\ Hotkeys[x[2]] \in Keys /\ stake[x[1]][Hotkeys[x[2]]] \in Nat
  <2> SUFFICES ASSUME NEW x \in Holdings
               PROVE  /\ x[1] \in netuids /\ x[2] \in DOMAIN Hotkeys /\ x = <<x[1], x[2]>>
                      /\ Hotkeys[x[2]] \in Keys /\ stake[x[1]][Hotkeys[x[2]]] \in Nat
    OBVIOUS
  <2>1. x[1] \in netuids /\ x[2] \in DOMAIN Hotkeys /\ x = <<x[1], x[2]>>
    BY DEF Holdings
  <2>2. Hotkeys[x[2]] \in Keys
    BY <2>1, HotkeysDistinct
  <2> QED BY <2>1, <2>2
<1>4. \A x \in Holdings : PositionAt(price, x) \in Priced(netuids, Keys)
  <2> SUFFICES ASSUME NEW x \in Holdings PROVE PositionAt(price, x) \in Priced(netuids, Keys)
    OBVIOUS
  <2> DEFINE st == stake[x[1]][Hotkeys[x[2]]]
             pr == price[x[1]]
             p == PositionAt(price, x)
  <2>1. st \in Nat /\ pr \in Nat /\ x[1] \in netuids /\ Hotkeys[x[2]] \in Keys
    BY <1>3
  <2>2. p = [netuid |-> x[1], hotkey |-> Hotkeys[x[2]], stake |-> st, alphaPrice |-> pr,
             taoValue |-> AlphaToTao(st, pr)]
    BY DEF PositionAt
  <2> HIDE DEF st, pr, p
  <2>3. st * pr \in Nat /\ TAO \in Nat \ {0}
    BY <2>1, Config
  <2>4. AlphaToTao(st, pr) \in Nat /\ AlphaToTao(st, pr) * TAO <= st * pr
    <3> DEFINE y == st * pr
    <3>1. y \in Nat
      BY <2>3
    <3> HIDE DEF y
    <3>2. y \div TAO \in Nat /\ (y \div TAO) * TAO <= y
      BY <2>3, <3>1, Division
    <3> QED BY <3>2 DEF AlphaToTao, y
  <2>5. p \in Position(netuids, Keys)
    BY <2>1, <2>2, <2>4 DEF Position
  <2>6. p.taoValue * TAO <= p.stake * p.alphaPrice
    BY <2>2, <2>4
  <2>7. p \in Priced(netuids, Keys)
    BY <2>5, <2>6 DEF Priced
  <2> QED BY <2>7 DEF p
<1>5. \A i \in 1..n : order[i] \in Holdings
  BY <1>2
<1>6. DOMAIN s = 1..n /\ \A i \in 1..n : s[i] = PositionAt(price, order[i])
  BY <1>1, <1>2
<1>7. s \in Seq(Priced(netuids, Keys))
  <2> DEFINE E == Priced(netuids, Keys)
  <2>1. \A i \in 1..n : s[i] \in E
    BY <1>4, <1>5, <1>6
  <2>2. s = [i \in 1..n |-> s[i]]
    BY <1>1, <1>2
  <2> HIDE DEF E, s, n
  <2>3. s \in [1..n -> E]
    BY <2>1, <2>2
  <2>4. s \in Seq(E)
    BY <1>2, <2>3
  <2> QED BY <2>4 DEF E
<1>8. Distinct(s)
  <2> SUFFICES ASSUME NEW i \in 1..n, NEW j \in 1..n, s[i].netuid = s[j].netuid,
                      s[i].hotkey = s[j].hotkey
               PROVE  i = j
    BY <1>6 DEF Distinct
  <2>1. order[i][1] = order[j][1] /\ Hotkeys[order[i][2]] = Hotkeys[order[j][2]]
    BY <1>6 DEF PositionAt
  <2>2. order[i][2] = order[j][2]
    BY <1>3, <1>5, <2>1, HotkeysDistinct
  <2>3. order[i] = order[j]
    BY <1>3, <1>5, <2>1, <2>2
  <2> QED BY <1>2, <2>3
<1> QED BY <1>7, <1>8

LEMMA TotalNat ==
  ASSUME NEW netuids \in SUBSET Nat, IsFiniteSet(netuids), stake \in [netuids -> [Keys -> Nat]],
         Prices(world) \in [netuids -> Nat], free \in Nat, reserved \in Nat
  PROVE  TotalTaoValue \in Nat
<1>1. Stakes \in Seq(Priced(netuids, Keys))
  BY StakesTyped DEF Stakes
<1>2. TotalTaoValue = free + reserved + TaoValues(Stakes)
  BY DEF TotalTaoValue, TaoValues, SumOf
<1>3. TaoValues(Stakes) \in Nat
  BY <1>1, TaoValuesNat
<1> QED BY <1>2, <1>3

LEMMA TargetsTyped ==
  ASSUME world \in DOMAIN World, stake \in [NetuidsOf(world) -> [Keys -> Nat]],
         strategy \in Strategies
  PROVE  GetStrategyTargets \in Seq(Targeted(NetuidsOf(world), Keys))
<1> DEFINE chain == World[world]
           netuids == NetuidsOf(world)
           resolved == [n \in DOMAIN chain.metagraph |->
                         ResolveValidator(Stakes, n, chain.metagraph[n], Fallback)]
           T == Seq(Targeted(netuids, Keys))
<1>1. /\ netuids \in SUBSET Nat /\ IsFiniteSet(netuids) /\ 0 \in netuids
      /\ IsFiniteSet(chain.subnets)
      /\ \A s \in chain.subnets : s \in SubnetState /\ s.netuid \in netuids
  BY WorldKnown
<1>2. /\ DOMAIN chain.metagraph = netuids
      /\ \A n \in netuids :
           /\ IsFiniteSet(chain.metagraph[n])
           /\ \A v \in chain.metagraph[n] : v \in ValidatorsOf(Keys)
           /\ chain.samples[n] \in Seq(Nat)
      /\ chain.leader \in [netuids -> Nat]
  <2>1. IsWorld(world)
    BY PortfolioAssumption DEF PortfolioAssumption
  <2> QED BY <2>1 DEF IsWorld, Keys
<1>3. Fallback \in Keys \cup {None}
  BY HotkeysDistinct
<1>4. Stakes \in Seq(Position(netuids, Keys))
  <2>1. Prices(world) \in [netuids -> Nat]
    BY PricesNat
  <2>2. Stakes \in Seq(Priced(netuids, Keys))
    BY <1>1, <2>1, StakesTyped DEF Stakes
  <2> DEFINE A == Priced(netuids, Keys)
             B == Position(netuids, Keys)
  <2>3. A \subseteq B
    BY DEF Priced
  <2>4. Stakes \in Seq(A)
    BY <2>2
  <2> HIDE DEF A, B
  <2>5. Stakes \in Seq(B)
    BY <2>3, <2>4
  <2> QED BY <2>5 DEF B
<1> HIDE DEF netuids
<1>5. Known(netuids, Keys, resolved)
  <2>1. \A n \in netuids : ResolveValidator(Stakes, n, chain.metagraph[n], Fallback) \in Keys \cup {None}
    BY <1>2, <1>3, <1>4, ResolvedIsKnown
  <2>2. resolved \in [netuids -> Keys \cup {None}]
    BY <1>2, <2>1
  <2> HIDE DEF resolved
  <2> QED BY <1>1, <2>2 DEF Known
<1>6. GetStrategyTargets =
        CASE strategy = "root-emission" -> RootEmissionTargets(chain.subnets, Stakes, resolved)
          [] strategy = "sma-stoploss" ->
               SmaTargets(chain.subnets, Stakes, chain.samples, chain.stoppedOut, resolved)
          [] strategy = "copy-trade" -> CopyTradeTargets(chain.leader, TotalTaoValue, resolved)
          [] strategy = "coward" -> CowardTargets(Stakes, chain.metagraph[0], Fallback)
  BY DEF GetStrategyTargets
<1> HIDE DEF resolved
<1>7. RootEmissionTargets(chain.subnets, Stakes, resolved) \in T
  BY <1>1, <1>5, RootEmissionTyped
<1>8. SmaTargets(chain.subnets, Stakes, chain.samples, chain.stoppedOut, resolved) \in T
  <2>1. \A s \in chain.subnets : /\ s \in SubnetState /\ s.netuid \in netuids
                                 /\ chain.samples[s.netuid] \in Seq(Nat)
    BY <1>1, <1>2
  <2> QED BY <1>1, <1>5, <2>1, SmaTyped
<1>9. CopyTradeTargets(chain.leader, TotalTaoValue, resolved) \in T
  BY <1>2, <1>5, CopyTradeTyped
<1>10. CowardTargets(Stakes, chain.metagraph[0], Fallback) \in T
  BY <1>1, <1>2, <1>3, <1>4, CowardTyped
<1>11. strategy \in {"root-emission", "sma-stoploss", "copy-trade", "coward"}
  BY PortfolioAssumption DEF PortfolioAssumption
<1> HIDE DEF T
<1>12. GetStrategyTargets \in T
  <2>1. CASE strategy = "root-emission"
    BY <1>6, <1>7, <2>1
  <2>2. CASE strategy = "sma-stoploss"
    BY <1>6, <1>8, <2>2
  <2>3. CASE strategy = "copy-trade"
    BY <1>6, <1>9, <2>3
  <2>4. CASE strategy = "coward"
    BY <1>6, <1>10, <2>4
  <2> QED BY <1>11, <2>1, <2>2, <2>3, <2>4
<1> QED BY <1>12 DEF T, netuids

-----------------------------------------------------------------------------
(* Limits.                                                                 *)

\* Every trade of a batch is limited as of these prices.
Limited(batch, price) ==
  \A i \in DOMAIN batch : batch[i].kind # "move" => batch[i].limit = LimitPrice(batch[i], price)

LEMMA BufferedInt ==
  ASSUME NEW m \in Nat
  PROVE  BufferUp(m) \in Int /\ BufferDown(m) \in Int /\ BufferDown(m) <= m
<1>1. SlippagePercent \in Nat
  BY Config
<1> DEFINE x == m * SlippagePercent
<1>2. x \in Nat
  BY <1>1
<1> HIDE DEF x
<1>3. x \div 100 \in Nat
  BY <1>2, Division
<1>4. Percent(m, SlippagePercent) \in Nat
  BY <1>3 DEF Percent, x
<1> QED BY <1>4 DEF BufferUp, BufferDown

LEMMA Kinds ==
  ASSUME NEW netuids, NEW hotkeys, NEW op \in Operation(netuids, hotkeys)
  PROVE  /\ op.kind \in {"move", "swap", "unstake", "unstake_partial", "stake"}
         /\ op.kind = "move" => op \in MoveOps(netuids, hotkeys)
         /\ op.kind = "swap" => op \in SwapOps(netuids, hotkeys)
         /\ op.kind \in {"unstake", "unstake_partial"} => op \in UnstakeOps(netuids, hotkeys)
         /\ op.kind = "stake" => op \in StakeOps(netuids, hotkeys)
<1>1. op \in MoveOps(netuids, hotkeys) => op.kind = "move"
  BY DEF MoveOps
<1>2. op \in SwapOps(netuids, hotkeys) => op.kind = "swap"
  BY DEF SwapOps
<1>3. op \in UnstakeOps(netuids, hotkeys) => op.kind \in {"unstake", "unstake_partial"}
  BY DEF UnstakeOps
<1>4. op \in StakeOps(netuids, hotkeys) => op.kind = "stake"
  BY DEF StakeOps
<1> QED BY <1>1, <1>2, <1>3, <1>4 DEF Operation

\* A quotient as the limits use it: nothing is divided by 0.
LEMMA AverageNat ==
  ASSUME NEW a \in Nat, NEW b \in Nat, b # 0
  PROVE  (a * TAO) \div b \in Nat /\ ((a * TAO) \div b) * b <= a * TAO
<1> DEFINE x == a * TAO
<1>1. x \in Nat /\ b \in Nat \ {0}
  BY Config
<1> HIDE DEF x
<1>2. x \div b \in Nat /\ (x \div b) * b <= x
  BY <1>1, Division
<1> QED BY <1>2 DEF x

LEMMA NothingForNothing ==
  ASSUME NEW price \in Nat
  PROVE  AlphaToTao(0, price) = 0
<1>1. 0 * price = 0
  OBVIOUS
<1>2. TAO \in Nat \ {0}
  BY Config
<1>3. 0 \div TAO = 0
  BY <1>2
<1> QED BY <1>1, <1>3 DEF AlphaToTao

LEMMA LimitInt ==
  ASSUME NEW netuids, NEW hotkeys, NEW price \in [netuids -> Nat],
         NEW op \in Operation(netuids, hotkeys), op.kind # "move"
  PROVE  LimitPrice(op, price) \in Int
<1> DEFINE a == TaoToAlpha(op.tao, price[op.netuid])
           t == AlphaToTao(op.alpha, price[op.netuid])
           d == TaoToAlpha(t, price[op.destination])
<1>1. LimitPrice(op, price) =
        CASE op.kind = "stake" -> IF a = 0 THEN 0 ELSE BufferUp((op.tao * TAO) \div a)
          [] op.kind \in {"unstake", "unstake_partial"} ->
               IF t = 0 THEN 0 ELSE BufferDown((t * TAO) \div op.alpha)
          [] op.kind = "swap" ->
               IF t = 0 \/ d = 0 THEN 0 ELSE BufferDown((d * TAO) \div op.alpha)
  BY DEF LimitPrice
<1>2. CASE op.kind = "stake"
  <2>1. op.tao \in Nat /\ op.netuid \in netuids
    BY <1>2, Kinds DEF StakeOps
  <2>2. price[op.netuid] \in Nat
    BY <2>1
  <2>3. a \in Nat
    BY <2>1, <2>2, ConversionsNat
  <2>4. a # 0 => BufferUp((op.tao * TAO) \div a) \in Int
    BY <2>1, <2>3, AverageNat, BufferedInt
  <2> HIDE DEF a, t, d
  <2> QED BY <1>1, <1>2, <2>4
<1>3. CASE op.kind \in {"unstake", "unstake_partial"}
  <2>1. op.alpha \in Nat /\ op.netuid \in netuids
    BY <1>3, Kinds DEF UnstakeOps
  <2>2. price[op.netuid] \in Nat
    BY <2>1
  <2>3. t \in Nat
    BY <2>1, <2>2, ConversionsNat
  <2>4. t # 0 => op.alpha # 0
    BY <2>2, NothingForNothing
  <2> HIDE DEF a, t, d
  <2>5. t # 0 => BufferDown((t * TAO) \div op.alpha) \in Int
    BY <2>1, <2>3, <2>4, AverageNat, BufferedInt
  <2> QED BY <1>1, <1>3, <2>5
<1>4. CASE op.kind = "swap"
  <2>1. op.alpha \in Nat /\ op.netuid \in netuids /\ op.destination \in netuids
    BY <1>4, Kinds DEF SwapOps
  <2>2. price[op.netuid] \in Nat /\ price[op.destination] \in Nat
    BY <2>1
  <2>3. t \in Nat
    BY <2>1, <2>2, ConversionsNat
  <2>4. t # 0 => op.alpha # 0
    BY <2>2, NothingForNothing
  <2>5. d \in Nat
    BY <2>2, <2>3, ConversionsNat
  <2> HIDE DEF a, t, d
  <2>6. t # 0 => BufferDown((d * TAO) \div op.alpha) \in Int
    BY <2>1, <2>4, <2>5, AverageNat, BufferedInt
  <2> QED BY <1>1, <1>4, <2>6
<1> QED BY <1>2, <1>3, <1>4, Kinds

\* A limit is all that the simulation changes.
LEMMA LimitOnly ==
  ASSUME NEW netuids, NEW hotkeys, NEW op \in Operation(netuids, hotkeys), op.kind # "move",
         NEW limit \in Int
  PROVE  /\ [op EXCEPT !.limit = limit] \in Operation(netuids, hotkeys)
         /\ [op EXCEPT !.limit = limit].limit = limit
         /\ [op EXCEPT !.limit = limit].kind = op.kind
         /\ [op EXCEPT !.limit = limit].netuid = op.netuid
         /\ [op EXCEPT !.limit = limit].hotkey = op.hotkey
         /\ [op EXCEPT !.limit = limit].alpha = op.alpha
         /\ [op EXCEPT !.limit = limit].tao = op.tao
         /\ [op EXCEPT !.limit = limit].origin = op.origin
         /\ [op EXCEPT !.limit = limit].destination = op.destination
<1> DEFINE new == [op EXCEPT !.limit = limit]
<1>1. op \in SwapOps(netuids, hotkeys) \/ op \in UnstakeOps(netuids, hotkeys)
      \/ op \in StakeOps(netuids, hotkeys)
  BY Kinds
<1>2. "limit" \in DOMAIN op
  BY <1>1 DEF SwapOps, UnstakeOps, StakeOps
<1>3. op \in SwapOps(netuids, hotkeys) => new \in SwapOps(netuids, hotkeys)
  BY DEF SwapOps
<1>4. op \in UnstakeOps(netuids, hotkeys) => new \in UnstakeOps(netuids, hotkeys)
  BY DEF UnstakeOps
<1>5. op \in StakeOps(netuids, hotkeys) => new \in StakeOps(netuids, hotkeys)
  BY DEF StakeOps
<1>6. new.limit = limit
  BY <1>2
<1> QED BY <1>1, <1>3, <1>4, <1>5, <1>6 DEF Operation

LEMMA SameLimit ==
  ASSUME NEW netuids, NEW hotkeys, NEW op \in Operation(netuids, hotkeys), op.kind # "move",
         NEW limit \in Int, NEW price
  PROVE  LimitPrice([op EXCEPT !.limit = limit], price) = LimitPrice(op, price)
<1> DEFINE new == [op EXCEPT !.limit = limit]
<1>1. /\ new.kind = op.kind /\ new.netuid = op.netuid /\ new.alpha = op.alpha
      /\ new.tao = op.tao /\ new.destination = op.destination
  BY LimitOnly
<1> HIDE DEF new
<1>2. LimitPrice(new, price) = LimitPrice(op, price)
  BY <1>1 DEF LimitPrice
<1> QED BY <1>2 DEF new

\* What is submitted: the plan, simulated when the process uses limits.
Submitted(plan, price, limits) == IF limits THEN Simulated(plan, price) ELSE plan

LEMMA SubmittedTyped ==
  ASSUME NEW netuids, NEW hotkeys, NEW price \in [netuids -> Nat],
         NEW plan \in Seq(Operation(netuids, hotkeys)), NEW limits \in BOOLEAN
  PROVE  /\ Submitted(plan, price, limits) \in Seq(Operation(netuids, hotkeys))
         /\ Len(Submitted(plan, price, limits)) = Len(plan)
         /\ limits => Limited(Submitted(plan, price, limits), price)
         /\ \A i \in DOMAIN plan :
              LET new == Submitted(plan, price, limits)[i]
              IN /\ new.kind = plan[i].kind
                 /\ plan[i].kind = "move" => new = plan[i]
                 /\ plan[i].kind = "swap" =>
                      /\ new.netuid = plan[i].netuid /\ new.hotkey = plan[i].hotkey
                      /\ new.origin = plan[i].origin /\ new.destination = plan[i].destination
                      /\ new.alpha = plan[i].alpha
<1> DEFINE O == Operation(netuids, hotkeys)
           s == Simulated(plan, price)
           Limit(i) == LimitPrice(plan[i], price)
           n == Len(plan)
<1>1. n \in Nat /\ DOMAIN plan = 1..n /\ \A i \in 1..n : plan[i] \in O
  OBVIOUS
<1>2. s = [i \in 1..n |-> IF plan[i].kind = "move" THEN plan[i]
                          ELSE [plan[i] EXCEPT !.limit = Limit(i)]]
  BY <1>1 DEF Simulated
<1>3. ASSUME NEW i \in 1..n, plan[i].kind # "move"
      PROVE  /\ Limit(i) \in Int
             /\ [plan[i] EXCEPT !.limit = Limit(i)] \in O
             /\ LimitPrice([plan[i] EXCEPT !.limit = Limit(i)], price) = Limit(i)
  <2>1. Limit(i) \in Int
    BY <1>1, <1>3, LimitInt
  <2> DEFINE x == Limit(i)
             op == plan[i]
  <2>2. x \in Int /\ op \in Operation(netuids, hotkeys) /\ op.kind # "move"
    BY <1>1, <1>3, <2>1
  <2>3. Limit(i) = LimitPrice(op, price)
    OBVIOUS
  <2> HIDE DEF x, op
  <2>4. [op EXCEPT !.limit = x] \in Operation(netuids, hotkeys)
    BY <2>2, LimitOnly
  <2>5. LimitPrice([op EXCEPT !.limit = x], price) = LimitPrice(op, price)
    BY <2>2, SameLimit
  <2> QED BY <2>1, <2>3, <2>4, <2>5 DEF x, op
<1> HIDE DEF s, Limit, n
<1>4. s \in Seq(O) /\ Len(s) = n /\ DOMAIN s = 1..n
  <2> HIDE DEF O
  <2>1. \A i \in 1..n : s[i] \in O
    BY <1>1, <1>2, <1>3
  <2>2. s = [i \in 1..n |-> s[i]]
    BY <1>2
  <2>3. s \in [1..n -> O]
    BY <2>1, <2>2
  <2> QED BY <1>1, <2>3
<1>5. ASSUME NEW i \in 1..n, plan[i].kind # "move"
      PROVE  /\ s[i].kind = plan[i].kind /\ s[i].netuid = plan[i].netuid
             /\ s[i].hotkey = plan[i].hotkey /\ s[i].alpha = plan[i].alpha
             /\ s[i].origin = plan[i].origin /\ s[i].destination = plan[i].destination
             /\ s[i].limit = LimitPrice(s[i], price)
  <2> DEFINE x == Limit(i)
             op == plan[i]
  <2>1. x \in Int /\ op \in Operation(netuids, hotkeys) /\ op.kind # "move"
    BY <1>1, <1>3, <1>5
  <2>2. s[i] = [op EXCEPT !.limit = x]
    BY <1>2, <1>5
  <2>3. LimitPrice(s[i], price) = x
    BY <1>3, <1>5, <2>2
  <2> HIDE DEF x, op
  <2>4. s[i].kind = op.kind /\ s[i].netuid = op.netuid /\ s[i].hotkey = op.hotkey
        /\ s[i].alpha = op.alpha /\ s[i].origin = op.origin /\ s[i].destination = op.destination
        /\ s[i].limit = x
    BY <2>1, <2>2, LimitOnly
  <2> QED BY <2>3, <2>4 DEF op
<1>6. Limited(s, price)
  <2> SUFFICES ASSUME NEW i \in 1..n, s[i].kind # "move" PROVE s[i].limit = LimitPrice(s[i], price)
    BY <1>4 DEF Limited
  <2>1. plan[i].kind # "move"
    BY <1>2
  <2> QED BY <1>5, <2>1
<1>7. \A i \in 1..n : plan[i].kind = "move" => s[i] = plan[i]
  BY <1>2
<1>8. CASE limits
  <2>1. Submitted(plan, price, limits) = s
    BY <1>8 DEF Submitted, s
  <2>2. Submitted(plan, price, limits) \in Seq(O) /\ Len(Submitted(plan, price, limits)) = n
    BY <1>4, <2>1
  <2>3. \A i \in 1..n :
              LET new == s[i]
              IN /\ new.kind = plan[i].kind
                 /\ plan[i].kind = "move" => new = plan[i]
                 /\ plan[i].kind = "swap" =>
                      /\ new.netuid = plan[i].netuid /\ new.hotkey = plan[i].hotkey
                      /\ new.origin = plan[i].origin /\ new.destination = plan[i].destination
                      /\ new.alpha = plan[i].alpha
    BY <1>5, <1>7
  <2> QED BY <1>1, <1>6, <2>1, <2>2, <2>3 DEF n
<1>9. CASE ~limits
  BY <1>1, <1>9 DEF Submitted
<1> QED BY <1>8, <1>9

-----------------------------------------------------------------------------
(* The ledger.                                                             *)

Ledgers(netuids, hotkeys) == [free : Nat, stake : [netuids -> [hotkeys -> Nat]]]

Added(stakes, n, h, alpha) == [stakes EXCEPT ![n][h] = @ + alpha]

LEMMA AddStakeIs ==
  ASSUME NEW f, NEW s, NEW n, NEW h, NEW alpha
  PROVE  AddStake([free |-> f, stake |-> s], n, h, alpha) = [free |-> f, stake |-> Added(s, n, h, alpha)]
BY DEF AddStake, Added

LEMMA AddedIs ==
  ASSUME NEW netuids, NEW hotkeys, NEW s \in [netuids -> [hotkeys -> Int]],
         NEW n \in netuids, NEW h \in hotkeys, NEW alpha \in Int
  PROVE  /\ Added(s, n, h, alpha) \in [netuids -> [hotkeys -> Int]]
         /\ Added(s, n, h, alpha)[n][h] = s[n][h] + alpha
         /\ \A m \in netuids, k \in hotkeys :
              <<m, k>> # <<n, h>> => Added(s, n, h, alpha)[m][k] = s[m][k]
BY DEF Added

\* A ledger after alpha has moved from one cell to another, or has grown there.
LEMMA TransferIs ==
  ASSUME NEW netuids, NEW hotkeys, NEW s \in [netuids -> [hotkeys -> Nat]],
         NEW n \in netuids, NEW h \in hotkeys, NEW alpha \in Nat, alpha <= s[n][h],
         NEW m \in netuids, NEW k \in hotkeys, NEW beta \in Nat
  PROVE  Added(Added(s, n, h, -alpha), m, k, beta) \in [netuids -> [hotkeys -> Nat]]
<1> DEFINE one == Added(s, n, h, -alpha)
           two == Added(one, m, k, beta)
<1>1. s \in [netuids -> [hotkeys -> Int]] /\ -alpha \in Int /\ beta \in Int
  OBVIOUS
<1>2. /\ one \in [netuids -> [hotkeys -> Int]] /\ one[n][h] = s[n][h] + -alpha
      /\ \A i \in netuids, j \in hotkeys : <<i, j>> # <<n, h>> => one[i][j] = s[i][j]
  BY <1>1, AddedIs
<1> HIDE DEF one
<1>3. /\ two \in [netuids -> [hotkeys -> Int]] /\ two[m][k] = one[m][k] + beta
      /\ \A i \in netuids, j \in hotkeys : <<i, j>> # <<m, k>> => two[i][j] = one[i][j]
  <2>1. one \in [netuids -> [hotkeys -> Int]] /\ beta \in Int
    BY <1>1, <1>2
  <2>2. two \in [netuids -> [hotkeys -> Int]]
    BY <2>1, AddedIs
  <2>3. two[m][k] = one[m][k] + beta
    BY <2>1 DEF Added
  <2>4. \A i \in netuids, j \in hotkeys : <<i, j>> # <<m, k>> => two[i][j] = one[i][j]
    BY <2>1 DEF Added
  <2> QED BY <2>2, <2>3, <2>4
<1> HIDE DEF two
<1>4. \A i \in netuids, j \in hotkeys : s[i][j] \in Nat
  OBVIOUS
<1>5. \A i \in netuids, j \in hotkeys : one[i][j] \in Nat
  <2>1. one[n][h] \in Nat
    BY <1>2, <1>4
  <2> QED BY <1>2, <1>4, <2>1
<1>6. \A i \in netuids, j \in hotkeys : two[i][j] \in Nat
  <2>1. two[m][k] \in Nat
    BY <1>3, <1>5
  <2> QED BY <1>3, <1>5, <2>1
<1>7. two \in [netuids -> [hotkeys -> Nat]]
  BY <1>3, <1>6
<1> QED BY <1>7 DEF one, two

\* What settling comes to for each kind of operation.
LEMMA SettleIs ==
  ASSUME NEW f, NEW s, NEW op, NEW price,
         NEW ledger, ledger = [free |-> f, stake |-> s]
  PROVE  /\ op.kind = "stake" =>
              Settle(ledger, op, price) =
                [free |-> f - op.tao,
                 stake |-> Added(s, op.netuid, op.hotkey, TaoToAlpha(op.tao, price[op.netuid]))]
         /\ op.kind = "move" =>
              LET alpha == IF op.alpha = Sweep THEN s[op.netuid][op.hotkey] ELSE op.alpha
              IN Settle(ledger, op, price) =
                   [free |-> f,
                    stake |-> Added(Added(s, op.netuid, op.hotkey, -alpha),
                                    op.netuid, op.destination, alpha)]
         /\ op.kind = "swap" =>
              LET alpha == IF op.alpha = Sweep THEN s[op.netuid][op.origin] ELSE op.alpha
                  tao == AlphaToTao(alpha, price[op.netuid])
              IN Settle(ledger, op, price) =
                   [free |-> f,
                    stake |-> Added(Added(s, op.netuid, op.origin, -alpha),
                                    op.destination, op.hotkey,
                                    TaoToAlpha(tao, price[op.destination]))]
         /\ op.kind \in {"unstake", "unstake_partial"} =>
              LET alpha == IF op.kind = "unstake" \/ op.alpha = Sweep
                           THEN s[op.netuid][op.hotkey] ELSE op.alpha
              IN Settle(ledger, op, price) =
                   [free |-> f + AlphaToTao(alpha, price[op.netuid]),
                    stake |-> Added(s, op.netuid, op.hotkey, -alpha)]
<1> DEFINE hotkey == IF op.kind = "swap" THEN op.origin ELSE op.hotkey
           alpha == IF op.kind = "unstake" \/ op.alpha = Sweep THEN s[op.netuid][hotkey] ELSE op.alpha
           taken == Takes(ledger, op)
           less == AddStake(ledger, op.netuid, taken.hotkey, -taken.alpha)
           tao == AlphaToTao(taken.alpha, price[op.netuid])
<1>1. taken.hotkey = hotkey /\ taken.alpha = alpha
  BY DEF Takes
<1>2. less = [free |-> f, stake |-> Added(s, op.netuid, hotkey, -alpha)]
  BY <1>1, AddStakeIs
<1>3. Settle(ledger, op, price) =
        CASE op.kind = "stake" ->
              [AddStake(ledger, op.netuid, op.hotkey, TaoToAlpha(op.tao, price[op.netuid]))
                 EXCEPT !.free = @ - op.tao]
          [] op.kind = "move" -> AddStake(less, op.netuid, op.destination, taken.alpha)
          [] op.kind = "swap" ->
               AddStake(less, op.destination, op.hotkey, TaoToAlpha(tao, price[op.destination]))
          [] op.kind \in {"unstake", "unstake_partial"} -> [less EXCEPT !.free = @ + tao]
  BY DEF Settle
<1>4. \A x, y : [[free |-> f, stake |-> x] EXCEPT !.free = y] = [free |-> y, stake |-> x]
  OBVIOUS
<1> HIDE DEF taken, less
<1>5. CASE op.kind = "stake"
  <2> DEFINE z == Added(s, op.netuid, op.hotkey, TaoToAlpha(op.tao, price[op.netuid]))
             l == AddStake(ledger, op.netuid, op.hotkey, TaoToAlpha(op.tao, price[op.netuid]))
  <2>1. l = [free |-> f, stake |-> z]
    BY AddStakeIs
  <2>2. Settle(ledger, op, price) = [l EXCEPT !.free = @ - op.tao]
    BY <1>3, <1>5
  <2> HIDE DEF z, l
  <2>3. Settle(ledger, op, price) = [l EXCEPT !.free = f - op.tao]
    BY <2>1, <2>2
  <2>4. Settle(ledger, op, price) = [free |-> f - op.tao, stake |-> z]
    BY <1>4, <2>1, <2>3
  <2> QED BY <1>5, <2>4 DEF z
<1>6. CASE op.kind = "move"
  <2>1. Settle(ledger, op, price) = AddStake(less, op.netuid, op.destination, alpha)
    BY <1>1, <1>3, <1>6
  <2> DEFINE z == Added(s, op.netuid, hotkey, -alpha)
  <2>2. AddStake([free |-> f, stake |-> z], op.netuid, op.destination, alpha)
          = [free |-> f, stake |-> Added(z, op.netuid, op.destination, alpha)]
    BY AddStakeIs
  <2>3. hotkey = op.hotkey /\ alpha = IF op.alpha = Sweep THEN s[op.netuid][op.hotkey] ELSE op.alpha
    BY <1>6
  <2> HIDE DEF alpha, hotkey
  <2> QED BY <1>2, <1>6, <2>1, <2>2, <2>3
<1>7. CASE op.kind = "swap"
  <2> DEFINE z == Added(s, op.netuid, hotkey, -alpha)
             out == TaoToAlpha(AlphaToTao(alpha, price[op.netuid]), price[op.destination])
  <2>1. Settle(ledger, op, price) = AddStake(less, op.destination, op.hotkey, out)
    BY <1>1, <1>3, <1>7
  <2>2. AddStake([free |-> f, stake |-> z], op.destination, op.hotkey, out)
          = [free |-> f, stake |-> Added(z, op.destination, op.hotkey, out)]
    BY AddStakeIs
  <2>3. hotkey = op.origin /\ alpha = IF op.alpha = Sweep THEN s[op.netuid][op.origin] ELSE op.alpha
    BY <1>7
  <2> HIDE DEF alpha, hotkey
  <2> QED BY <1>2, <1>7, <2>1, <2>2, <2>3
<1>8. CASE op.kind \in {"unstake", "unstake_partial"}
  <2> DEFINE z == Added(s, op.netuid, hotkey, -alpha)
             got == AlphaToTao(alpha, price[op.netuid])
  <2>1. Settle(ledger, op, price) = [less EXCEPT !.free = @ + got]
    BY <1>1, <1>3, <1>8
  <2>2. hotkey = op.hotkey
    BY <1>8
  <2> HIDE DEF alpha, hotkey, got
  <2>3. Settle(ledger, op, price) = [less EXCEPT !.free = f + got]
    BY <1>2, <2>1
  <2>4. Settle(ledger, op, price) = [free |-> f + got, stake |-> z]
    BY <1>2, <1>4, <2>3
  <2> QED BY <1>8, <2>2, <2>4 DEF got, alpha
<1> QED BY <1>5, <1>6, <1>7, <1>8

LEMMA SettleTyped ==
  ASSUME NEW netuids, NEW hotkeys, NEW ledger \in Ledgers(netuids, hotkeys),
         NEW op \in Operation(netuids, hotkeys), NEW price \in [netuids -> Nat], NEW limited,
         Accepted(ledger, op, price, limited)
  PROVE  Settle(ledger, op, price) \in Ledgers(netuids, hotkeys)
<1> DEFINE f == ledger.free
           s == ledger.stake
           result == Settle(ledger, op, price)
<1>1. f \in Nat /\ s \in [netuids -> [hotkeys -> Nat]] /\ ledger = [free |-> f, stake |-> s]
  BY DEF Ledgers
<1>2. op.kind # "stake" => /\ Takes(ledger, op).alpha > 0
                           /\ Takes(ledger, op).alpha <= s[op.netuid][Takes(ledger, op).hotkey]
  BY DEF Accepted
<1>3. op.kind = "stake" => op.tao <= f
  BY DEF Accepted
<1> HIDE DEF f, s, result
<1>4. CASE op.kind = "stake"
  <2> DEFINE bought == TaoToAlpha(op.tao, price[op.netuid])
  <2>1. op.tao \in Nat /\ op.netuid \in netuids /\ op.hotkey \in hotkeys
    BY <1>4, Kinds DEF StakeOps
  <2>2. price[op.netuid] \in Nat
    BY <2>1
  <2>3. bought \in Nat
    BY <2>1, <2>2, ConversionsNat
  <2>4. result = [free |-> f - op.tao, stake |-> Added(s, op.netuid, op.hotkey, bought)]
    BY <1>1, <1>4, SettleIs DEF result
  <2> HIDE DEF bought
  <2>5. Added(s, op.netuid, op.hotkey, bought) \in [netuids -> [hotkeys -> Nat]]
    BY <1>1, <2>1, <2>3 DEF Added
  <2>6. f - op.tao \in Nat
    BY <1>1, <1>3, <1>4, <2>1
  <2> QED BY <2>4, <2>5, <2>6 DEF Ledgers, result
<1>5. CASE op.kind = "move"
  <2> DEFINE alpha == IF op.alpha = Sweep THEN s[op.netuid][op.hotkey] ELSE op.alpha
  <2>1. /\ op.netuid \in netuids /\ op.hotkey \in hotkeys /\ op.destination \in hotkeys
        /\ op.alpha \in Nat \cup {Sweep}
    BY <1>5, Kinds DEF MoveOps
  <2>2. Takes(ledger, op).alpha = alpha /\ Takes(ledger, op).hotkey = op.hotkey
    BY <1>5 DEF Takes, s
  <2>3. alpha \in Nat /\ alpha <= s[op.netuid][op.hotkey]
    <3>1. s[op.netuid][op.hotkey] \in Nat
      BY <1>1, <2>1
    <3>2. alpha \in Nat
      BY <2>1, <3>1
    <3> QED BY <1>2, <1>5, <2>2, <3>2
  <2>4. result = [free |-> f, stake |-> Added(Added(s, op.netuid, op.hotkey, -alpha),
                                              op.netuid, op.destination, alpha)]
    BY <1>1, <1>5, SettleIs DEF result
  <2> HIDE DEF alpha
  <2>5. Added(Added(s, op.netuid, op.hotkey, -alpha), op.netuid, op.destination, alpha)
          \in [netuids -> [hotkeys -> Nat]]
    BY <1>1, <2>1, <2>3, TransferIs
  <2> QED BY <1>1, <2>4, <2>5 DEF Ledgers, result
<1>6. CASE op.kind = "swap"
  <2> DEFINE alpha == IF op.alpha = Sweep THEN s[op.netuid][op.origin] ELSE op.alpha
             tao == AlphaToTao(alpha, price[op.netuid])
             got == TaoToAlpha(tao, price[op.destination])
  <2>1. /\ op.netuid \in netuids /\ op.hotkey \in hotkeys /\ op.origin \in hotkeys
        /\ op.destination \in netuids /\ op.alpha \in Nat
    BY <1>6, Kinds DEF SwapOps
  <2>2. Takes(ledger, op).alpha = alpha /\ Takes(ledger, op).hotkey = op.origin
    BY <1>6 DEF Takes, s
  <2>3. alpha \in Nat /\ alpha <= s[op.netuid][op.origin]
    <3>1. s[op.netuid][op.origin] \in Nat
      BY <1>1, <2>1
    <3>2. alpha \in Nat
      BY <2>1, <3>1
    <3> QED BY <1>2, <1>6, <2>2, <3>2
  <2>4. result = [free |-> f, stake |-> Added(Added(s, op.netuid, op.origin, -alpha),
                                              op.destination, op.hotkey, got)]
    BY <1>1, <1>6, SettleIs DEF result
  <2> HIDE DEF alpha
  <2>5. price[op.netuid] \in Nat /\ price[op.destination] \in Nat
    BY <2>1
  <2>6. got \in Nat
    BY <2>3, <2>5, ConversionsNat
  <2> HIDE DEF got
  <2>7. Added(Added(s, op.netuid, op.origin, -alpha), op.destination, op.hotkey, got)
          \in [netuids -> [hotkeys -> Nat]]
    BY <1>1, <2>1, <2>3, <2>6, TransferIs
  <2> QED BY <1>1, <2>4, <2>7 DEF Ledgers, result
<1>7. CASE op.kind \in {"unstake", "unstake_partial"}
  <2> DEFINE alpha == IF op.kind = "unstake" \/ op.alpha = Sweep
                      THEN s[op.netuid][op.hotkey] ELSE op.alpha
             got == AlphaToTao(alpha, price[op.netuid])
  <2>1. op.netuid \in netuids /\ op.hotkey \in hotkeys /\ op.alpha \in Nat
    BY <1>7, Kinds DEF UnstakeOps
  <2>2. Takes(ledger, op).alpha = alpha /\ Takes(ledger, op).hotkey = op.hotkey
    BY <1>7 DEF Takes, s
  <2>3. alpha \in Nat /\ alpha <= s[op.netuid][op.hotkey] /\ s[op.netuid][op.hotkey] \in Nat
    <3>1. s[op.netuid][op.hotkey] \in Nat
      BY <1>1, <2>1
    <3>2. alpha \in Nat
      BY <2>1, <3>1
    <3> QED BY <1>2, <1>7, <2>2, <3>1, <3>2
  <2>4. result = [free |-> f + got, stake |-> Added(s, op.netuid, op.hotkey, -alpha)]
    BY <1>1, <1>7, SettleIs DEF result
  <2> HIDE DEF alpha
  <2>5. price[op.netuid] \in Nat
    BY <2>1
  <2>6. got \in Nat
    BY <2>3, <2>5, ConversionsNat
  <2> HIDE DEF got
  <2>7. Added(s, op.netuid, op.hotkey, -alpha) \in [netuids -> [hotkeys -> Nat]]
    BY <1>1, <2>1, <2>3 DEF Added
  <2>8. f + got \in Nat
    BY <1>1, <2>6
  <2> QED BY <2>4, <2>7, <2>8 DEF Ledgers, result
<1> QED BY <1>4, <1>5, <1>6, <1>7, Kinds

-----------------------------------------------------------------------------
(* The batch, operation by operation.                                      *)

BatchStates(netuids, hotkeys) == [ledger : Ledgers(netuids, hotkeys), ok : Seq(BOOLEAN)]

BatchStep(batch, price, limited, lost, state, i) ==
  IF i \in lost \/ ~Accepted(state.ledger, batch[i], price, limited)
  THEN [state EXCEPT !.ok = Append(@, FALSE)]
  ELSE [ledger |-> Settle(state.ledger, batch[i], price), ok |-> Append(state.ok, TRUE)]

LEMMA BatchStepTyped ==
  ASSUME NEW netuids, NEW hotkeys, NEW batch, NEW i, batch[i] \in Operation(netuids, hotkeys),
         NEW price \in [netuids -> Nat], NEW limited, NEW lost,
         NEW state \in BatchStates(netuids, hotkeys)
  PROVE  BatchStep(batch, price, limited, lost, state, i) \in BatchStates(netuids, hotkeys)
<1> DEFINE l == state.ledger
           ok == state.ok
<1>1. l \in Ledgers(netuids, hotkeys) /\ ok \in Seq(BOOLEAN) /\ state = [ledger |-> l, ok |-> ok]
  BY DEF BatchStates
<1> HIDE DEF l, ok
<1>2. Append(ok, FALSE) \in Seq(BOOLEAN) /\ Append(ok, TRUE) \in Seq(BOOLEAN)
  BY <1>1
<1>3. CASE i \in lost \/ ~Accepted(state.ledger, batch[i], price, limited)
  <2>1. BatchStep(batch, price, limited, lost, state, i) = [state EXCEPT !.ok = Append(@, FALSE)]
    BY <1>3 DEF BatchStep
  <2>2. \A x, y, z : [[ledger |-> x, ok |-> y] EXCEPT !.ok = z] = [ledger |-> x, ok |-> z]
    OBVIOUS
  <2>3. [state EXCEPT !.ok = Append(@, FALSE)] = [ledger |-> l, ok |-> Append(ok, FALSE)]
    BY <1>1, <2>2
  <2> QED BY <1>1, <1>2, <2>1, <2>3 DEF BatchStates
<1>4. CASE ~(i \in lost \/ ~Accepted(state.ledger, batch[i], price, limited))
  <2>1. BatchStep(batch, price, limited, lost, state, i)
          = [ledger |-> Settle(state.ledger, batch[i], price), ok |-> Append(ok, TRUE)]
    BY <1>4 DEF BatchStep, ok
  <2>2. Settle(state.ledger, batch[i], price) \in Ledgers(netuids, hotkeys)
    BY <1>1, <1>4, SettleTyped DEF l
  <2> QED BY <1>2, <2>1, <2>2 DEF BatchStates
<1> QED BY <1>3, <1>4

RunsBy(batch, price, limited, lost, start, seq, g) ==
  g = [s \in SUBSET DOMAIN seq |->
         IF s = {} THEN start
         ELSE BatchStep(batch, price, limited, lost, g[s \ {Max(s)}], seq[Max(s)])]

\* acc[k] is the state after the first k operations of the batch.
BatchRun(batch, price, limited, lost, ledger, acc) ==
  /\ acc[0] = [ledger |-> ledger, ok |-> <<>>]
  /\ \A k \in Nat : k + 1 <= Len(batch) =>
       acc[k + 1] = BatchStep(batch, price, limited, lost, acc[k], k + 1)

\* The states of a ledger in between account for what becomes of it.
RunsThrough(netuids, hotkeys, batch, price, limited, lost, ledger) ==
  \E acc \in [0..Len(batch) -> BatchStates(netuids, hotkeys)] :
    /\ BatchRun(batch, price, limited, lost, ledger, acc)
    /\ Batch(ledger, batch, price, limited, lost) = acc[Len(batch)]

LEMMA BatchSteps ==
  ASSUME NEW netuids, NEW hotkeys, NEW batch \in Seq(Operation(netuids, hotkeys)),
         NEW price \in [netuids -> Nat], NEW limited, NEW lost,
         NEW ledger \in Ledgers(netuids, hotkeys)
  PROVE  RunsThrough(netuids, hotkeys, batch, price, limited, lost, ledger)
<1> DEFINE D == BatchStates(netuids, hotkeys)
           n == Len(batch)
           start == [ledger |-> ledger, ok |-> <<>>]
           seq == [i \in DOMAIN batch |-> i]
           Op(q, i) == BatchStep(batch, price, limited, lost, q, i)
           f == CHOOSE g : RunsBy(batch, price, limited, lost, start, seq, g)
           G == [i \in 1..n |-> [q \in D |-> Op(q, i)]]
<1>1. Batch(ledger, batch, price, limited, lost) = f[DOMAIN seq]
  BY DEF Batch, FoldLeft, MapThenFoldSet, RunsBy, BatchStep
<1>2. DOMAIN seq = 1..n /\ n \in Nat /\ \A i \in 1..n : seq[i] = i
  OBVIOUS
<1>3. start \in D
  <2>1. <<>> \in Seq(BOOLEAN)
    OBVIOUS
  <2> QED BY <2>1 DEF BatchStates
<1>4. ASSUME NEW q \in D, NEW i \in 1..n PROVE Op(q, i) \in D
  <2>1. batch[i] \in Operation(netuids, hotkeys)
    BY <1>2
  <2> QED BY <2>1, BatchStepTyped
<1> HIDE DEF n, seq, start, D, Op
<1>5. G \in [1..n -> [D -> D]]
  BY <1>4
<1>6. PICK h \in [SUBSET (1..n) -> D] : PassesBy(n, start, G, h)
  <2> HIDE DEF G
  <2> QED BY <1>2, <1>3, <1>5, PassExists
<1>7. \A s \in SUBSET (1..n) : s # {} => Max(s) \in 1..n
  BY <1>2, MaxOfPart
<1>8. RunsBy(batch, price, limited, lost, start, seq, h)
  <2>1. ASSUME NEW s \in SUBSET (1..n), s # {}
        PROVE  h[s] = Op(h[s \ {Max(s)}], seq[Max(s)])
    <3>1. Max(s) \in 1..n /\ seq[Max(s)] = Max(s) /\ h[s \ {Max(s)}] \in D
      BY <1>2, <1>7, <2>1
    <3>2. h[s] = G[Max(s)][h[s \ {Max(s)}]]
      BY <1>6, <2>1 DEF PassesBy
    <3> QED BY <3>1, <3>2
  <2>2. h[{}] = start
    BY <1>6 DEF PassesBy
  <2>3. h = [s \in SUBSET (1..n) |-> h[s]]
    OBVIOUS
  <2> HIDE DEF G
  <2> QED BY <1>2, <2>1, <2>2, <2>3 DEF RunsBy, Op
<1>9. RunsBy(batch, price, limited, lost, start, seq, f)
  BY <1>8
<1> HIDE DEF f
<1>10. f[{}] = start
  BY <1>2, <1>9 DEF RunsBy
<1>11. \A s \in SUBSET (1..n) : s # {} /\ f[s \ {Max(s)}] \in D =>
          f[s] = G[Max(s)][f[s \ {Max(s)}]]
  <2> SUFFICES ASSUME NEW s \in SUBSET (1..n), s # {}, f[s \ {Max(s)}] \in D
               PROVE  f[s] = G[Max(s)][f[s \ {Max(s)}]]
    OBVIOUS
  <2>1. Max(s) \in 1..n /\ seq[Max(s)] = Max(s)
    BY <1>2, <1>7
  <2>2. f[s] = Op(f[s \ {Max(s)}], seq[Max(s)])
    BY <1>2, <1>9 DEF RunsBy, Op
  <2> QED BY <2>1, <2>2
<1> HIDE DEF G
<1>17. Continues(n, D, start, G, f)
  BY <1>10, <1>11 DEF Continues
<1>18. n \in Nat
  BY <1>2
<1>19. \E acc \in [0..n -> D] : Passes(n, start, G, acc) /\ f[1..n] = acc[n]
  BY <1>3, <1>5, <1>17, <1>18, Pass, SMTT(60)
<1>12. PICK acc \in [0..n -> D] : Passes(n, start, G, acc) /\ f[1..n] = acc[n]
  BY <1>19
<1>13. ASSUME NEW k \in Nat, k + 1 <= n PROVE acc[k + 1] = Op(acc[k], k + 1)
  <2>1. k \in 0..n /\ k + 1 \in 1..n
    BY <1>2, <1>13
  <2>2. acc[k + 1] = G[k + 1][acc[k]]
    BY <1>12, <1>13 DEF Passes
  <2>3. acc[k] \in D
    BY <2>1
  <2> QED BY <2>1, <2>2, <2>3 DEF G
<1>14. acc[0] = start
  BY <1>12 DEF Passes
<1>15. BatchRun(batch, price, limited, lost, ledger, acc)
  BY <1>13, <1>14 DEF BatchRun, Op, n, start
<1>16. Batch(ledger, batch, price, limited, lost) = acc[n]
  BY <1>1, <1>2, <1>12
<1> QED BY <1>15, <1>16 DEF n, D, RunsThrough

-----------------------------------------------------------------------------
(* What the operations of the bunker script do to the ledger.              *)

\* A state that an accepted operation leaves behind.
LEMMA Carried ==
  ASSUME NEW batch, NEW price, NEW limited, NEW lost, NEW state, NEW i, i \notin lost,
         Accepted(state.ledger, batch[i], price, limited)
  PROVE  BatchStep(batch, price, limited, lost, state, i).ledger = Settle(state.ledger, batch[i], price)
BY DEF BatchStep

\* All of a cell is moved to the cell of another hotkey.
MovedAll(netuids, hotkeys, s, t, n, h, k) ==
  /\ t[n][h] = 0
  /\ t[n][k] = s[n][k] + s[n][h]
  /\ \A m \in netuids, j \in hotkeys :
       <<m, j>> # <<n, h>> /\ <<m, j>> # <<n, k>> => t[m][j] = s[m][j]

\* What a move and a swap of a given amount leave of the wallet.
LEMMA MoveSettles ==
  ASSUME NEW f, NEW s, NEW op, NEW price, NEW n, NEW h, NEW k, NEW alpha,
         op.kind = "move", op.netuid = n, op.hotkey = h, op.destination = k,
         alpha = IF op.alpha = Sweep THEN s[n][h] ELSE op.alpha
  PROVE  Settle([free |-> f, stake |-> s], op, price)
           = [free |-> f, stake |-> Added(Added(s, n, h, -alpha), n, k, alpha)]
<1> DEFINE ledger == [free |-> f, stake |-> s]
           took == IF op.alpha = Sweep THEN s[op.netuid][op.hotkey] ELSE op.alpha
<1>1. op.kind = "move" =>
        Settle(ledger, op, price)
          = [free |-> f, stake |-> Added(Added(s, op.netuid, op.hotkey, -took),
                                         op.netuid, op.destination, took)]
  BY SettleIs
<1>2. took = alpha
  OBVIOUS
<1> HIDE DEF took
<1> QED BY <1>1, <1>2

LEMMA SwapSettles ==
  ASSUME NEW f, NEW s, NEW op, NEW price, NEW n, NEW h, NEW m, NEW k, NEW alpha,
         op.kind = "swap", op.netuid = n, op.origin = h, op.destination = m, op.hotkey = k,
         alpha = IF op.alpha = Sweep THEN s[n][h] ELSE op.alpha
  PROVE  Settle([free |-> f, stake |-> s], op, price)
           = [free |-> f, stake |-> Added(Added(s, n, h, -alpha), m, k,
                                          TaoToAlpha(AlphaToTao(alpha, price[n]), price[m]))]
<1> DEFINE ledger == [free |-> f, stake |-> s]
           took == IF op.alpha = Sweep THEN s[op.netuid][op.origin] ELSE op.alpha
<1>1. op.kind = "swap" =>
        Settle(ledger, op, price)
          = [free |-> f, stake |-> Added(Added(s, op.netuid, op.origin, -took), op.destination, op.hotkey,
                              TaoToAlpha(AlphaToTao(took, price[op.netuid]), price[op.destination]))]
  BY SettleIs
<1>2. took = alpha
  OBVIOUS
<1> HIDE DEF took
<1> QED BY <1>1, <1>2

LEMMA MoveStep ==
  ASSUME NEW netuids, NEW hotkeys, NEW batch, NEW price, NEW limited, NEW lost,
         NEW state \in BatchStates(netuids, hotkeys), NEW i, i \notin lost,
         batch[i] \in MoveOps(netuids, hotkeys), batch[i].alpha = Sweep,
         batch[i].hotkey # batch[i].destination,
         state.ledger.stake[batch[i].netuid][batch[i].hotkey] > 0
  PROVE  MovedAll(netuids, hotkeys, state.ledger.stake,
                  BatchStep(batch, price, limited, lost, state, i).ledger.stake,
                  batch[i].netuid, batch[i].hotkey, batch[i].destination)
<1> SUFFICES ASSUME NEW n, n = batch[i].netuid, NEW h, h = batch[i].hotkey,
                    NEW k, k = batch[i].destination, h # k,
                    NEW s, s = state.ledger.stake, s[n][h] > 0
             PROVE  MovedAll(netuids, hotkeys, s,
                             BatchStep(batch, price, limited, lost, state, i).ledger.stake, n, h, k)
  OBVIOUS
<1> DEFINE op == batch[i]
           alpha == s[n][h]
           f == state.ledger.free
           t == BatchStep(batch, price, limited, lost, state, i).ledger.stake
<1>1. s \in [netuids -> [hotkeys -> Nat]] /\ state.ledger = [free |-> f, stake |-> s]
  BY DEF BatchStates, Ledgers
<1>2. op.kind = "move" /\ n \in netuids /\ h \in hotkeys /\ k \in hotkeys
  BY DEF MoveOps
<1>3. Takes(state.ledger, op).alpha = alpha /\ Takes(state.ledger, op).hotkey = h
  BY <1>2 DEF Takes
<1>4. alpha \in Nat
  BY <1>1, <1>2
<1>5. Accepted(state.ledger, op, price, limited)
  BY <1>2, <1>3, <1>4 DEF Accepted, WithinLimit
<1>6. BatchStep(batch, price, limited, lost, state, i).ledger = Settle(state.ledger, op, price)
  BY <1>5, Carried
<1>7. Settle(state.ledger, op, price) = [free |-> f, stake |-> Added(Added(s, n, h, -alpha), n, k, alpha)]
  <2>1. op.netuid = n /\ op.hotkey = h /\ op.destination = k
        /\ alpha = IF op.alpha = Sweep THEN s[n][h] ELSE op.alpha
    OBVIOUS
  <2> HIDE DEF f, op, alpha
  <2> QED BY <1>1, <1>2, <2>1, MoveSettles
<1>8. t = Added(Added(s, n, h, -alpha), n, k, alpha)
  BY <1>6, <1>7
<1> HIDE DEF t, op, f, alpha
<1> DEFINE one == Added(s, n, h, -alpha)
<1>9. /\ one \in [netuids -> [hotkeys -> Int]] /\ one[n][h] = 0
      /\ \A m \in netuids, j \in hotkeys : <<m, j>> # <<n, h>> => one[m][j] = s[m][j]
  <2>1. one \in [netuids -> [hotkeys -> Int]]
    BY <1>1, <1>2, <1>4 DEF Added
  <2>2. one[n][h] = s[n][h] + -alpha
    BY <1>1, <1>2, <1>4 DEF Added
  <2>3. \A m \in netuids, j \in hotkeys : <<m, j>> # <<n, h>> => one[m][j] = s[m][j]
    BY <1>1, <1>2, <1>4 DEF Added
  <2>4. s[n][h] + -alpha = 0
    BY <1>4 DEF alpha
  <2> QED BY <2>1, <2>2, <2>3, <2>4
<1> HIDE DEF one
<1>10. t = Added(one, n, k, alpha)
  BY <1>8 DEF one
<1>11. t[n][k] = one[n][k] + alpha
  BY <1>2, <1>4, <1>9, <1>10 DEF Added
<1>12. \A m \in netuids, j \in hotkeys : <<m, j>> # <<n, k>> => t[m][j] = one[m][j]
  BY <1>2, <1>4, <1>9, <1>10 DEF Added
<1>13. one[n][k] = s[n][k]
  BY <1>2, <1>9
<1>14. t[n][h] = 0
  BY <1>2, <1>9, <1>12
<1>15. t[n][k] = s[n][k] + s[n][h]
  BY <1>11, <1>13 DEF alpha
<1>16. \A m \in netuids, j \in hotkeys :
         <<m, j>> # <<n, h>> /\ <<m, j>> # <<n, k>> => t[m][j] = s[m][j]
  BY <1>9, <1>12
<1>17. MovedAll(netuids, hotkeys, s, t, n, h, k)
  BY <1>14, <1>15, <1>16 DEF MovedAll
<1> QED BY <1>17 DEF t

\* Alpha is taken from a cell, and only the cell on root is given anything.
SwappedAway(netuids, hotkeys, s, t, n, h, alpha, hotkey) ==
  /\ t[n][h] = s[n][h] - alpha
  /\ \A m \in netuids, j \in hotkeys :
       <<m, j>> # <<n, h>> /\ <<m, j>> # <<0, hotkey>> => t[m][j] = s[m][j]

LEMMA SwapStep ==
  ASSUME NEW netuids, NEW hotkeys, NEW batch, NEW price \in [netuids -> Nat], NEW limited, NEW lost,
         NEW state \in BatchStates(netuids, hotkeys), NEW i, i \notin lost,
         batch[i] \in SwapOps(netuids, hotkeys),
         WithinLimit(batch[i], price, limited),
         batch[i].netuid # 0, batch[i].destination = 0, batch[i].alpha > 0,
         batch[i].alpha <= state.ledger.stake[batch[i].netuid][batch[i].origin]
  PROVE  SwappedAway(netuids, hotkeys, state.ledger.stake,
                     BatchStep(batch, price, limited, lost, state, i).ledger.stake,
                     batch[i].netuid, batch[i].origin, batch[i].alpha, batch[i].hotkey)
<1> SUFFICES ASSUME NEW n, n = batch[i].netuid, NEW h, h = batch[i].origin,
                    NEW m, m = batch[i].destination, NEW k, k = batch[i].hotkey, n # m, m = 0,
                    NEW alpha, alpha = batch[i].alpha, alpha > 0,
                    NEW s, s = state.ledger.stake, alpha <= s[n][h]
             PROVE  SwappedAway(netuids, hotkeys, s,
                                BatchStep(batch, price, limited, lost, state, i).ledger.stake, n, h, alpha, k)
  OBVIOUS
<1> DEFINE op == batch[i]
           f == state.ledger.free
           got == TaoToAlpha(AlphaToTao(alpha, price[n]), price[m])
           t == BatchStep(batch, price, limited, lost, state, i).ledger.stake
<1>1. s \in [netuids -> [hotkeys -> Nat]] /\ state.ledger = [free |-> f, stake |-> s]
  BY DEF BatchStates, Ledgers
<1>2. /\ op.kind = "swap" /\ n \in netuids /\ h \in hotkeys /\ m \in netuids /\ k \in hotkeys
      /\ alpha \in Nat /\ op.alpha # Sweep
  <2>1. op.kind = "swap" /\ n \in netuids /\ h \in hotkeys /\ m \in netuids /\ k \in hotkeys
        /\ alpha \in Nat
    BY DEF SwapOps
  <2> QED BY <2>1 DEF Sweep
<1>3. Takes(state.ledger, op).alpha = alpha /\ Takes(state.ledger, op).hotkey = h
  BY <1>2 DEF Takes
<1>4. Accepted(state.ledger, op, price, limited)
  BY <1>2, <1>3 DEF Accepted
<1>5. BatchStep(batch, price, limited, lost, state, i).ledger = Settle(state.ledger, op, price)
  BY <1>4, Carried
<1>6. got \in Nat
  <2>1. price[n] \in Nat /\ price[m] \in Nat
    BY <1>2
  <2> QED BY <1>2, <2>1, ConversionsNat
<1>7. Settle(state.ledger, op, price) = [free |-> f, stake |-> Added(Added(s, n, h, -alpha), m, k, got)]
  <2>1. op.netuid = n /\ op.origin = h /\ op.destination = m /\ op.hotkey = k
        /\ alpha = IF op.alpha = Sweep THEN s[n][h] ELSE op.alpha
    BY <1>2
  <2> HIDE DEF f, op
  <2> QED BY <1>1, <1>2, <2>1, SwapSettles
<1>8. t = Added(Added(s, n, h, -alpha), m, k, got)
  BY <1>5, <1>7
<1> HIDE DEF t, op, f, got
<1> DEFINE one == Added(s, n, h, -alpha)
<1>9. /\ one \in [netuids -> [hotkeys -> Int]] /\ one[n][h] = s[n][h] - alpha
      /\ \A a \in netuids, b \in hotkeys : <<a, b>> # <<n, h>> => one[a][b] = s[a][b]
  <2>1. one \in [netuids -> [hotkeys -> Int]]
    BY <1>1, <1>2 DEF Added
  <2>2. one[n][h] = s[n][h] + -alpha
    BY <1>1, <1>2 DEF Added
  <2>3. \A a \in netuids, b \in hotkeys : <<a, b>> # <<n, h>> => one[a][b] = s[a][b]
    BY <1>1, <1>2 DEF Added
  <2>4. s[n][h] + -alpha = s[n][h] - alpha
    <3>1. s[n][h] \in Nat
      BY <1>1, <1>2
    <3> QED BY <1>2, <3>1
  <2> QED BY <2>1, <2>2, <2>3, <2>4
<1> HIDE DEF one
<1>10. t = Added(one, m, k, got)
  BY <1>8 DEF one
<1>11. \A a \in netuids, b \in hotkeys : <<a, b>> # <<m, k>> => t[a][b] = one[a][b]
  BY <1>2, <1>6, <1>9, <1>10 DEF Added
<1>12. t[n][h] = one[n][h]
  BY <1>2, <1>11
<1>13. t[n][h] = s[n][h] - alpha
  BY <1>9, <1>12
<1>14. \A a \in netuids, b \in hotkeys :
         <<a, b>> # <<n, h>> /\ <<a, b>> # <<0, k>> => t[a][b] = s[a][b]
  <2>1. m = 0
    OBVIOUS
  <2> QED BY <1>9, <1>11, <2>1
<1>15. SwappedAway(netuids, hotkeys, s, t, n, h, alpha, k)
  BY <1>13, <1>14 DEF SwappedAway
<1> QED BY <1>15 DEF t

\* A swap to root is within the limit that its own simulation gave.
LEMMA ToRootWithinLimit ==
  ASSUME NEW netuids, NEW hotkeys, NEW price \in [netuids -> Nat], price[0] = TAO,
         NEW op \in SwapOps(netuids, hotkeys), op.destination = 0, op.alpha > 0,
         NEW limited, limited => op.limit = LimitPrice(op, price)
  PROVE  WithinLimit(op, price, limited)
<1> DEFINE p == price[op.netuid]
           t == AlphaToTao(op.alpha, p)
           d == TaoToAlpha(t, TAO)
           m == (d * TAO) \div op.alpha
           alpha == op.alpha
<1>1. op.kind = "swap" /\ op.netuid \in netuids /\ alpha \in Nat /\ op.limit \in Int
  BY DEF SwapOps
<1>2. p \in Nat /\ TAO \in Nat \ {0}
  BY <1>1, Config
<1>3. alpha # 0
  BY <1>1
<1>4. SUFFICES ASSUME limited PROVE p * TAO >= op.limit * TAO
  BY <1>1, <1>2 DEF WithinLimit
<1>5. op.limit = IF t = 0 \/ d = 0 THEN 0 ELSE BufferDown(m)
  <2> HIDE DEF t, d, m
  <2>1. op.limit = LimitPrice(op, price)
    BY <1>4
  <2> QED BY <1>1, <2>1 DEF LimitPrice, t, d, m
<1>6. t \in Nat
  BY <1>1, <1>2, ConversionsNat
<1>7. d \in Nat
  BY <1>2, <1>6, ConversionsNat
<1>8. t * TAO <= alpha * p
  <2> DEFINE x == alpha * p
  <2>1. x \in Nat
    BY <1>1, <1>2
  <2> HIDE DEF x, p, alpha
  <2>2. t = x \div TAO
    BY DEF t, x, AlphaToTao, alpha
  <2>3. (x \div TAO) * TAO <= x
    BY <1>2, <2>1, Division
  <2> QED BY <2>2, <2>3 DEF x
<1> HIDE DEF t
<1>9. d = t
  <2> DEFINE x == t * TAO
  <2>1. x \in Nat
    BY <1>2, <1>6
  <2>2. d = x \div TAO
    BY <1>2 DEF TaoToAlpha
  <2>3. x \div TAO = t
    BY <1>2, <1>6
  <2> QED BY <2>2, <2>3
<1> HIDE DEF d
<1>10. m \in Nat /\ m * alpha <= d * TAO
  BY <1>1, <1>3, <1>7, AverageNat
<1> HIDE DEF m, p, alpha
<1>11. m <= p
  <2>1. m * alpha <= p * alpha
    <3>1. m * alpha \in Int /\ t * TAO \in Int /\ alpha * p \in Int /\ alpha * p = p * alpha
      BY <1>1, <1>2, <1>6, <1>10
    <3> QED BY <1>8, <1>9, <1>10, <3>1
  <2>2. alpha \in Nat \ {0}
    BY <1>1, <1>3
  <2> QED BY <1>2, <1>10, <2>1, <2>2, Cancel
<1>12. op.limit <= p
  <2>1. BufferDown(m) \in Int /\ BufferDown(m) <= m
    BY <1>10, BufferedInt
  <2> QED BY <1>2, <1>5, <1>10, <1>11, <2>1
<1> DEFINE l == op.limit
<1>13. l \in Int /\ l <= p
  BY <1>1, <1>12
<1> HIDE DEF l
<1>14. l * TAO <= p * TAO
  BY <1>2, <1>13, Times
<1>15. l * TAO \in Int /\ p * TAO \in Int
  BY <1>2, <1>13
<1>16. p * TAO >= l * TAO
  BY <1>14, <1>15
<1> QED BY <1>16 DEF l

\* Where the groups of a joined sequence begin.
LEMMA FlattenPlaces ==
  ASSUME NEW D, NEW seqs \in Seq(Seq(D))
  PROVE  /\ FlattenSeq(seqs) \in Seq(D)
         /\ \E at \in [0..Len(seqs) -> Nat] :
              /\ at[0] = 0 /\ at[Len(seqs)] = Len(FlattenSeq(seqs))
              /\ \A k \in Nat : k + 1 <= Len(seqs) =>
                   /\ at[k + 1] = at[k] + Len(seqs[k + 1])
                   /\ \A j \in 1..Len(seqs[k + 1]) :
                        /\ at[k] + j \in 1..Len(FlattenSeq(seqs))
                        /\ FlattenSeq(seqs)[at[k] + j] = seqs[k + 1][j]
<1> DEFINE n == Len(seqs)
           flat == FlattenSeq(seqs)
<1>1. PICK joined \in [0..n -> Seq(D)] :
        /\ joined[0] = <<>>
        /\ \A k \in Nat : k + 1 <= n => joined[k + 1] = joined[k] \o seqs[k + 1]
        /\ flat = joined[n]
  BY FlattenSteps
<1>2. n \in Nat /\ \A k \in 1..n : seqs[k] \in Seq(D)
  OBVIOUS
<1> HIDE DEF n, flat
<1> DEFINE at == [k \in 0..n |-> Len(joined[k])]
           Extends(s, t) == Len(s) <= Len(t) /\ \A i \in 1..Len(s) : t[i] = s[i]
           R == {l \in Nat : l <= n => \A k \in 0..l : Extends(joined[k], joined[l])}
<1>3. \A k \in 0..n : joined[k] \in Seq(D) /\ Len(joined[k]) \in Nat
  <2>1. \A s \in Seq(D) : Len(s) \in Nat
    OBVIOUS
  <2>2. \A k \in 0..n : joined[k] \in Seq(D)
    OBVIOUS
  <2> QED BY <2>1, <2>2
<1>4. ASSUME NEW k \in Nat, k + 1 <= n
      PROVE  /\ Len(joined[k + 1]) = Len(joined[k]) + Len(seqs[k + 1])
             /\ Extends(joined[k], joined[k + 1])
             /\ \A j \in 1..Len(seqs[k + 1]) : joined[k + 1][Len(joined[k]) + j] = seqs[k + 1][j]
  <2> DEFINE s == joined[k]
             t == seqs[k + 1]
  <2>1. s \in Seq(D) /\ t \in Seq(D) /\ joined[k + 1] = s \o t
    <3>1. k \in 0..n /\ k + 1 \in 1..n
      BY <1>2, <1>4
    <3> QED BY <1>1, <1>2, <1>3, <1>4, <3>1
  <2> HIDE DEF s, t
  <2>2. Len(s \o t) = Len(s) + Len(t) /\ Len(s) \in Nat /\ Len(t) \in Nat
    BY <2>1
  <2>3. \A i \in 1..Len(s) : (s \o t)[i] = s[i]
    BY <2>1
  <2>4. \A j \in 1..Len(t) : (s \o t)[Len(s) + j] = t[j]
    BY <2>1
  <2>5. Extends(s, s \o t)
    BY <2>2, <2>3
  <2> QED BY <2>1, <2>2, <2>4, <2>5 DEF s, t
<1>5. Nat \subseteq R
  <2>1. 0 \in R
    <3>1. \A s \in Seq(D) : Extends(s, s)
      OBVIOUS
    <3>2. 0 <= n => joined[0] \in Seq(D)
      BY <1>2, <1>3
    <3> HIDE DEF Extends
    <3> QED BY <3>1, <3>2
  <2>2. ASSUME NEW l \in Nat, l \in R PROVE l + 1 \in R
    <3> SUFFICES ASSUME l + 1 <= n, NEW k \in 0..l + 1
                 PROVE  Extends(joined[k], joined[l + 1])
      OBVIOUS
    <3>1. l <= n /\ l \in 0..n /\ l + 1 \in 0..n /\ k \in 0..n
      BY <1>2
    <3>2. CASE k = l + 1
      BY <1>3, <3>1, <3>2
    <3>3. CASE k # l + 1
      <4>1. k \in 0..l
        BY <3>3
      <4>2. Extends(joined[k], joined[l])
        BY <2>2, <3>1, <4>1
      <4>3. Extends(joined[l], joined[l + 1])
        BY <1>4
      <4>4. Len(joined[k]) \in Nat /\ Len(joined[l]) \in Nat /\ Len(joined[l + 1]) \in Nat
        BY <1>3, <3>1
      <4>5. Len(joined[k]) <= Len(joined[l + 1])
        BY <4>2, <4>3, <4>4
      <4>6. \A i \in 1..Len(joined[k]) : joined[l + 1][i] = joined[k][i]
        <5> SUFFICES ASSUME NEW i \in 1..Len(joined[k]) PROVE joined[l + 1][i] = joined[k][i]
          OBVIOUS
        <5>1. i \in 1..Len(joined[l])
          BY <4>2, <4>4
        <5> QED BY <4>2, <4>3, <5>1
      <4> QED BY <4>5, <4>6
    <3> QED BY <3>2, <3>3
  <2> HIDE DEF R
  <2> QED BY <2>1, <2>2, Induction
<1>6. \A k \in 0..n : Extends(joined[k], flat)
  <2>1. n \in R
    BY <1>2, <1>5
  <2> HIDE DEF Extends
  <2> QED BY <1>1, <2>1
<1>7. flat \in Seq(D)
  <2>1. n \in 0..n
    BY <1>2
  <2> QED BY <1>1, <2>1
<1>8. at \in [0..n -> Nat] /\ at[0] = 0 /\ at[n] = Len(flat)
  <2>1. 0 \in 0..n /\ n \in 0..n /\ Len(joined[0]) = 0
    BY <1>1, <1>2
  <2> QED BY <1>1, <1>3, <2>1
<1>9. ASSUME NEW k \in Nat, k + 1 <= n
      PROVE  /\ at[k + 1] = at[k] + Len(seqs[k + 1])
             /\ \A j \in 1..Len(seqs[k + 1]) :
                  at[k] + j \in 1..Len(flat) /\ flat[at[k] + j] = seqs[k + 1][j]
  <2>1. k \in 0..n /\ k + 1 \in 0..n /\ k + 1 \in 1..n
    BY <1>2, <1>9
  <2>2. at[k] = Len(joined[k]) /\ at[k + 1] = Len(joined[k + 1])
    BY <2>1
  <2>3. Len(joined[k + 1]) = Len(joined[k]) + Len(seqs[k + 1])
    BY <1>4, <1>9
  <2>4. Extends(joined[k + 1], flat)
    BY <1>6, <2>1
  <2>5. Len(joined[k]) \in Nat /\ Len(flat) \in Nat /\ Len(seqs[k + 1]) \in Nat
    BY <1>2, <1>3, <1>7, <2>1
  <2> SUFFICES ASSUME NEW j \in 1..Len(seqs[k + 1])
               PROVE  Len(joined[k]) + j \in 1..Len(flat)
                      /\ flat[Len(joined[k]) + j] = seqs[k + 1][j]
    BY <2>2, <2>3
  <2>6. Len(joined[k]) + j \in 1..Len(joined[k + 1]) /\ Len(joined[k]) + j \in 1..Len(flat)
    <3> DEFINE x == Len(joined[k])
               y == Len(seqs[k + 1])
               z == Len(joined[k + 1])
               u == Len(flat)
    <3>1. x \in Nat /\ y \in Nat /\ u \in Nat /\ z = x + y /\ j \in 1..y
      BY <2>3, <2>5
    <3>2. z <= u
      BY <2>4
    <3> HIDE DEF x, y, z, u
    <3>3. x + j \in 1..z /\ x + j \in 1..u
      BY <3>1, <3>2
    <3> QED BY <3>3 DEF x, z, u
  <2>8. flat[Len(joined[k]) + j] = joined[k + 1][Len(joined[k]) + j]
    BY <2>4, <2>6
  <2>9. joined[k + 1][Len(joined[k]) + j] = seqs[k + 1][j]
    BY <1>4, <1>9
  <2> QED BY <2>6, <2>8, <2>9
<1> HIDE DEF at
<1> QED BY <1>7, <1>8, <1>9 DEF n, flat

-----------------------------------------------------------------------------
(* The bunker script's plan, group by group.                               *)

\* The cells of done are empty and the others as they were, the one on root to
\* which everything goes apart.
Emptied(netuids, hotkeys, initial, hotkey, done, s) ==
  \A n \in netuids, h \in hotkeys :
    <<n, h>> # <<0, hotkey>> => s[n][h] = IF <<n, h>> \in done THEN 0 ELSE initial[n][h]

RootOf(hotkey) == [netuid |-> 0, hotkey |-> hotkey]

\* What the script does to clear a position that is not there already.
Clears(p, hotkey, limits, group) ==
  \/ /\ p.netuid = 0 /\ p.hotkey # hotkey
     /\ group = <<Head(SwapTo(p, RootOf(hotkey), p.stake, p.taoValue, Sweep, TRUE))>>
  \/ /\ p.netuid # 0
     /\ group = SwapTo(p, RootOf(hotkey), p.stake, p.taoValue, Sweep, limits)

MoveOf(p, hotkey) ==
  [kind |-> "move", netuid |-> p.netuid, hotkey |-> p.hotkey, destination |-> hotkey, alpha |-> Sweep]

\* A swap of a position to root, from the hotkey where its alpha is.
SwapsFrom(p, hotkey, origin, op) ==
  /\ op.kind = "swap" /\ op.netuid = p.netuid /\ op.hotkey = hotkey
  /\ op.origin = origin /\ op.destination = 0 /\ op.alpha = p.stake

LEMMA ClearsIs ==
  ASSUME NEW p, NEW hotkey, NEW limits \in BOOLEAN, NEW group, Clears(p, hotkey, limits, group)
  PROVE  \/ /\ p.netuid = 0 /\ p.hotkey # hotkey
            /\ group = <<MoveOf(p, hotkey)>>
         \/ /\ p.netuid # 0 /\ ~(limits /\ p.hotkey # hotkey)
            /\ Len(group) = 1 /\ SwapsFrom(p, hotkey, p.hotkey, group[1])
         \/ /\ p.netuid # 0 /\ limits /\ p.hotkey # hotkey
            /\ Len(group) = 2 /\ group[1] = MoveOf(p, hotkey)
            /\ SwapsFrom(p, hotkey, hotkey, group[2])
<1> DEFINE t == RootOf(hotkey)
           move == MoveOf(p, hotkey)
           swap(l) == [kind |-> "swap", netuid |-> p.netuid, hotkey |-> hotkey,
                       origin |-> IF l THEN hotkey ELSE p.hotkey,
                       destination |-> 0, alpha |-> p.stake, tao |-> p.taoValue, limit |-> 0]
<1>1. \A l \in BOOLEAN : SwapTo(p, t, p.stake, p.taoValue, Sweep, l)
        = IF l /\ hotkey # p.hotkey THEN <<move, swap(l)>> ELSE <<swap(l)>>
  BY DEF SwapTo, RootOf, MoveOf
<1>2. \A l \in BOOLEAN : SwapsFrom(p, hotkey, IF l THEN hotkey ELSE p.hotkey, swap(l))
  BY DEF SwapsFrom
<1> HIDE DEF move, swap, t
<1>3. CASE p.netuid = 0 /\ p.hotkey # hotkey
           /\ group = <<Head(SwapTo(p, t, p.stake, p.taoValue, Sweep, TRUE))>>
  <2>1. SwapTo(p, t, p.stake, p.taoValue, Sweep, TRUE) = <<move, swap(TRUE)>>
    BY <1>1, <1>3
  <2>2. Head(SwapTo(p, t, p.stake, p.taoValue, Sweep, TRUE)) = move
    <3>1. \A x, y : Head(<<x, y>>) = x
      OBVIOUS
    <3> QED BY <2>1, <3>1
  <2> QED BY <1>3, <2>2 DEF move
<1>4. CASE p.netuid # 0 /\ group = SwapTo(p, t, p.stake, p.taoValue, Sweep, limits)
  <2>1. CASE limits /\ p.hotkey # hotkey
    <3>1. group = <<move, swap(TRUE)>>
      BY <1>1, <1>4, <2>1
    <3>2. Len(group) = 2 /\ group[1] = move /\ group[2] = swap(TRUE)
      BY <3>1
    <3>3. SwapsFrom(p, hotkey, hotkey, swap(TRUE))
      BY <1>2
    <3> QED BY <1>4, <2>1, <3>2, <3>3 DEF move
  <2>2. CASE ~(limits /\ p.hotkey # hotkey)
    <3>1. group = <<swap(limits)>>
      BY <1>1, <1>4, <2>2
    <3>2. Len(group) = 1 /\ group[1] = swap(limits)
      BY <3>1
    <3>3. SwapsFrom(p, hotkey, p.hotkey, swap(limits))
      BY <1>2, <2>2
    <3> QED BY <1>4, <2>2, <3>2, <3>3
  <2> QED BY <2>1, <2>2
<1> QED BY <1>3, <1>4 DEF Clears, t

\* A group is in the plan after its first k operations.
Placed(plan, k, group) ==
  \A j \in 1..Len(group) : k + j \in 1..Len(plan) /\ plan[k + j] = group[j]

\* The run of a plan that is carried out at the prices it was made at.
Planning(netuids, hotkeys, price, plan, limits) ==
  /\ 0 \in netuids /\ price \in [netuids -> Nat] /\ price[0] = TAO
  /\ plan \in Seq(Operation(netuids, hotkeys)) /\ limits \in BOOLEAN

Carrying(netuids, hotkeys, price, plan, limits, acc) ==
  /\ Planning(netuids, hotkeys, price, plan, limits)
  /\ acc \in [0..Len(plan) -> BatchStates(netuids, hotkeys)]
  /\ \A k \in Nat : k + 1 <= Len(plan) =>
       acc[k + 1] = BatchStep(Submitted(plan, price, limits), price, limits, {}, acc[k], k + 1)

StakeAfter(acc, k) == acc[k].ledger.stake

LEMMA CarryingStep ==
  ASSUME NEW netuids, NEW hotkeys, NEW price, NEW plan, NEW limits, NEW acc,
         Carrying(netuids, hotkeys, price, plan, limits, acc),
         NEW k \in Nat, k + 1 \in 1..Len(plan)
  PROVE  /\ acc[k] \in BatchStates(netuids, hotkeys)
         /\ StakeAfter(acc, k) \in [netuids -> [hotkeys -> Nat]]
         /\ acc[k + 1] = BatchStep(Submitted(plan, price, limits), price, limits, {}, acc[k], k + 1)
<1>1. Len(plan) \in Nat
  BY DEF Carrying, Planning
<1>2. k \in 0..Len(plan) /\ k + 1 <= Len(plan)
  BY <1>1
<1>3. acc[k] \in BatchStates(netuids, hotkeys)
  BY <1>2 DEF Carrying
<1>4. StakeAfter(acc, k) \in [netuids -> [hotkeys -> Nat]]
  BY <1>3 DEF StakeAfter, BatchStates, Ledgers
<1>5. acc[k + 1] = BatchStep(Submitted(plan, price, limits), price, limits, {}, acc[k], k + 1)
  BY <1>2 DEF Carrying
<1> QED BY <1>3, <1>4, <1>5

\* What is submitted, operation by operation.
LEMMA SubmittedTypes ==
  ASSUME NEW netuids, NEW hotkeys, NEW price, NEW plan, NEW limits,
         Planning(netuids, hotkeys, price, plan, limits)
  PROVE  /\ Submitted(plan, price, limits) \in Seq(Operation(netuids, hotkeys))
         /\ Len(Submitted(plan, price, limits)) = Len(plan)
         /\ limits => Limited(Submitted(plan, price, limits), price)
<1>1. price \in [netuids -> Nat] /\ plan \in Seq(Operation(netuids, hotkeys)) /\ limits \in BOOLEAN
  BY DEF Planning
<1>2. Submitted(plan, price, limits) \in Seq(Operation(netuids, hotkeys))
  BY <1>1, SubmittedTyped
<1>3. Len(Submitted(plan, price, limits)) = Len(plan)
  BY <1>1, SubmittedTyped
<1>4. limits => Limited(Submitted(plan, price, limits), price)
  BY <1>1, SubmittedTyped
<1> QED BY <1>2, <1>3, <1>4

LEMMA SubmittedKinds ==
  ASSUME NEW netuids, NEW hotkeys, NEW price, NEW plan, NEW limits,
         Planning(netuids, hotkeys, price, plan, limits), NEW i \in DOMAIN plan
  PROVE  LET new == Submitted(plan, price, limits)[i]
         IN /\ new.kind = plan[i].kind
            /\ plan[i].kind = "move" => new = plan[i]
            /\ plan[i].kind = "swap" =>
                 /\ new.netuid = plan[i].netuid /\ new.hotkey = plan[i].hotkey
                 /\ new.origin = plan[i].origin /\ new.destination = plan[i].destination
                 /\ new.alpha = plan[i].alpha
<1>1. price \in [netuids -> Nat] /\ plan \in Seq(Operation(netuids, hotkeys)) /\ limits \in BOOLEAN
  BY DEF Planning
<1>2. \A j \in DOMAIN plan :
              LET new == Submitted(plan, price, limits)[j]
              IN /\ new.kind = plan[j].kind
                 /\ plan[j].kind = "move" => new = plan[j]
                 /\ plan[j].kind = "swap" =>
                      /\ new.netuid = plan[j].netuid /\ new.hotkey = plan[j].hotkey
                      /\ new.origin = plan[j].origin /\ new.destination = plan[j].destination
                      /\ new.alpha = plan[j].alpha
  BY <1>1, SubmittedTyped
<1> QED BY <1>2

\* The moves and the swaps of the script as they are submitted: the chain carries
\* them out.
LEMMA SubmittedMove ==
  ASSUME NEW netuids, NEW hotkeys, NEW price, NEW plan, NEW limits,
         Planning(netuids, hotkeys, price, plan, limits), NEW i \in DOMAIN plan,
         NEW p, NEW hotkey, plan[i] = MoveOf(p, hotkey)
  PROVE  LET op == Submitted(plan, price, limits)[i]
         IN /\ op \in MoveOps(netuids, hotkeys) /\ op.alpha = Sweep
            /\ op.netuid = p.netuid /\ op.hotkey = p.hotkey /\ op.destination = hotkey
<1>1. plan[i].kind = "move"
  BY DEF MoveOf
<1>2. Submitted(plan, price, limits)[i] = plan[i]
  BY <1>1, SubmittedKinds
<1>3. plan[i] \in Operation(netuids, hotkeys)
  BY DEF Planning
<1>4. plan[i] \in MoveOps(netuids, hotkeys)
  BY <1>1, <1>3, Kinds
<1>5. plan[i].alpha = Sweep /\ plan[i].netuid = p.netuid /\ plan[i].hotkey = p.hotkey
      /\ plan[i].destination = hotkey
  BY DEF MoveOf
<1> QED BY <1>2, <1>4, <1>5

LEMMA SubmittedSwap ==
  ASSUME NEW netuids, NEW hotkeys, NEW price, NEW plan, NEW limits,
         Planning(netuids, hotkeys, price, plan, limits),
         NEW i \in DOMAIN plan, NEW p, p.stake > 0, NEW hotkey, NEW origin,
         SwapsFrom(p, hotkey, origin, plan[i])
  PROVE  LET op == Submitted(plan, price, limits)[i]
         IN /\ op \in SwapOps(netuids, hotkeys)
            /\ SwapsFrom(p, hotkey, origin, op)
            /\ WithinLimit(op, price, limits)
<1> DEFINE batch == Submitted(plan, price, limits)
           op == batch[i]
<1>1. plan[i].kind = "swap"
  BY DEF SwapsFrom
<1>2. /\ batch \in Seq(Operation(netuids, hotkeys)) /\ Len(batch) = Len(plan)
      /\ limits => Limited(batch, price)
  BY SubmittedTypes
<1>3. /\ op.kind = plan[i].kind /\ op.netuid = plan[i].netuid /\ op.hotkey = plan[i].hotkey
      /\ op.origin = plan[i].origin /\ op.destination = plan[i].destination
      /\ op.alpha = plan[i].alpha
  BY <1>1, SubmittedKinds
<1>4. i \in DOMAIN batch
  <2>1. plan \in Seq(Operation(netuids, hotkeys))
    BY DEF Planning
  <2> HIDE DEF batch
  <2> QED BY <1>2, <2>1
<1> HIDE DEF batch
<1>5. op \in Operation(netuids, hotkeys)
  BY <1>2, <1>4
<1>6. op \in SwapOps(netuids, hotkeys)
  BY <1>1, <1>3, <1>5, Kinds
<1>7. limits => op.limit = LimitPrice(op, price)
  BY <1>1, <1>2, <1>3, <1>4 DEF Limited
<1>8. op.destination = 0 /\ op.alpha > 0 /\ SwapsFrom(p, hotkey, origin, op)
  BY <1>3 DEF SwapsFrom
<1> HIDE DEF op
<1>9. WithinLimit(op, price, limits)
  <2>1. price \in [netuids -> Nat] /\ price[0] = TAO
    BY DEF Planning
  <2> QED BY <1>6, <1>7, <1>8, <2>1, ToRootWithinLimit
<1> QED BY <1>6, <1>8, <1>9 DEF op, batch

\* A move takes all there is to another hotkey.
LEMMA MoveRun ==
  ASSUME NEW netuids, NEW hotkeys, NEW price, NEW plan, NEW limits, NEW acc,
         Carrying(netuids, hotkeys, price, plan, limits, acc),
         NEW k \in Nat, k + 1 \in 1..Len(plan),
         NEW p, NEW hotkey, p.hotkey # hotkey, plan[k + 1] = MoveOf(p, hotkey),
         StakeAfter(acc, k)[p.netuid][p.hotkey] > 0
  PROVE  MovedAll(netuids, hotkeys, StakeAfter(acc, k), StakeAfter(acc, k + 1),
                  p.netuid, p.hotkey, hotkey)
<1> DEFINE batch == Submitted(plan, price, limits)
           state == acc[k]
           i == k + 1
           n == p.netuid
           h == p.hotkey
           s == state.ledger.stake
           t == BatchStep(batch, price, limits, {}, state, i).ledger.stake
<1>1. Planning(netuids, hotkeys, price, plan, limits) /\ i \in DOMAIN plan
  <2>1. plan \in Seq(Operation(netuids, hotkeys))
    BY DEF Carrying, Planning
  <2> QED BY <2>1 DEF Carrying
<1>2. /\ batch[i] \in MoveOps(netuids, hotkeys) /\ batch[i].alpha = Sweep
      /\ n = batch[i].netuid /\ h = batch[i].hotkey /\ hotkey = batch[i].destination
  BY <1>1, SubmittedMove
<1>3. state \in BatchStates(netuids, hotkeys) /\ acc[i] = BatchStep(batch, price, limits, {}, state, i)
  BY CarryingStep
<1>4. StakeAfter(acc, k) = s /\ StakeAfter(acc, k + 1) = t
  BY <1>3 DEF StakeAfter
<1>5. s[n][h] > 0 /\ i \notin {} /\ h # hotkey
  BY <1>4
<1> HIDE DEF batch, state, i, n, h
<1>6. s = state.ledger.stake
  OBVIOUS
<1> HIDE DEF s
<1>7. MovedAll(netuids, hotkeys, s, t, n, h, hotkey)
  BY <1>2, <1>3, <1>5, <1>6, MoveStep
<1> QED BY <1>4, <1>7 DEF n, h

\* A swap to root takes the alpha of a position from where it is.
LEMMA SwapRun ==
  ASSUME NEW netuids, NEW hotkeys, NEW price, NEW plan, NEW limits, NEW acc,
         Carrying(netuids, hotkeys, price, plan, limits, acc),
         NEW k \in Nat, k + 1 \in 1..Len(plan),
         NEW p, p.netuid # 0, p.stake > 0, NEW hotkey, NEW origin,
         SwapsFrom(p, hotkey, origin, plan[k + 1]),
         p.stake <= StakeAfter(acc, k)[p.netuid][origin]
  PROVE  SwappedAway(netuids, hotkeys, StakeAfter(acc, k), StakeAfter(acc, k + 1),
                     p.netuid, origin, p.stake, hotkey)
<1> DEFINE batch == Submitted(plan, price, limits)
           state == acc[k]
           i == k + 1
           n == p.netuid
           alpha == p.stake
           s == state.ledger.stake
           t == BatchStep(batch, price, limits, {}, state, i).ledger.stake
<1>1. Planning(netuids, hotkeys, price, plan, limits) /\ i \in DOMAIN plan
  <2>1. plan \in Seq(Operation(netuids, hotkeys))
    BY DEF Carrying, Planning
  <2> QED BY <2>1 DEF Carrying
<1>2. /\ batch[i] \in SwapOps(netuids, hotkeys) /\ SwapsFrom(p, hotkey, origin, batch[i])
      /\ WithinLimit(batch[i], price, limits)
  BY <1>1, SubmittedSwap
<1>3. /\ n = batch[i].netuid /\ origin = batch[i].origin /\ 0 = batch[i].destination
      /\ hotkey = batch[i].hotkey /\ alpha = batch[i].alpha
  BY <1>2 DEF SwapsFrom
<1>4. state \in BatchStates(netuids, hotkeys) /\ acc[i] = BatchStep(batch, price, limits, {}, state, i)
  BY CarryingStep
<1>5. StakeAfter(acc, k) = s /\ StakeAfter(acc, k + 1) = t
  BY <1>4 DEF StakeAfter
<1>6. alpha > 0 /\ alpha <= s[n][origin] /\ i \notin {} /\ n # 0
  BY <1>5
<1>7. price \in [netuids -> Nat]
  BY <1>1 DEF Planning
<1> HIDE DEF batch, state, i, n, alpha
<1>8. SwappedAway(netuids, hotkeys, state.ledger.stake,
                  BatchStep(batch, price, limits, {}, state, i).ledger.stake,
                  batch[i].netuid, batch[i].origin, batch[i].alpha, batch[i].hotkey)
  <2>1. batch[i].netuid # 0 /\ batch[i].destination = 0 /\ batch[i].alpha > 0
        /\ batch[i].alpha <= state.ledger.stake[batch[i].netuid][batch[i].origin]
    BY <1>3, <1>6
  <2>2. WithinLimit(batch[i], price, limits) /\ batch[i] \in SwapOps(netuids, hotkeys)
    BY <1>2
  <2>3. state \in BatchStates(netuids, hotkeys) /\ i \notin {}
    BY <1>4
  <2> HIDE DEF s, t
  <2> QED BY <1>7, <2>1, <2>2, <2>3, SwapStep
<1>9. SwappedAway(netuids, hotkeys, s, t, n, origin, alpha, hotkey)
  BY <1>3, <1>8
<1> HIDE DEF s, t
<1> QED BY <1>5, <1>9 DEF n, alpha

LEMMA EmptiedMore ==
  ASSUME NEW netuids, NEW hotkeys, NEW initial, NEW hotkey, NEW done, NEW n, NEW h, NEW s, NEW t,
         Emptied(netuids, hotkeys, initial, hotkey, done, s), t[n][h] = 0,
         \A a \in netuids, b \in hotkeys :
           <<a, b>> # <<n, h>> /\ <<a, b>> # <<0, hotkey>> => t[a][b] = s[a][b]
  PROVE  Emptied(netuids, hotkeys, initial, hotkey, done \cup {<<n, h>>}, t)
<1> SUFFICES ASSUME NEW a \in netuids, NEW b \in hotkeys, <<a, b>> # <<0, hotkey>>
             PROVE  t[a][b] = IF <<a, b>> \in done \cup {<<n, h>>} THEN 0 ELSE initial[a][b]
  BY DEF Emptied
<1>1. s[a][b] = IF <<a, b>> \in done THEN 0 ELSE initial[a][b]
  BY DEF Emptied
<1>2. CASE <<a, b>> = <<n, h>>
  <2>1. a = n /\ b = h
    BY <1>2
  <2> QED BY <1>2, <2>1
<1>3. CASE <<a, b>> # <<n, h>>
  <2>1. t[a][b] = s[a][b]
    BY <1>3
  <2> QED BY <1>1, <1>3, <2>1
<1> QED BY <1>2, <1>3

\* A group empties the cell of its position.
LEMMA GroupStep ==
  ASSUME NEW netuids, NEW hotkeys, NEW price, NEW plan, NEW limits, NEW acc,
         Carrying(netuids, hotkeys, price, plan, limits, acc),
         NEW hotkey \in hotkeys,
         NEW initial \in [netuids -> [hotkeys -> Nat]],
         NEW p \in Position(netuids, hotkeys),
         p.stake = initial[p.netuid][p.hotkey], p.stake > 0,
         NEW group, Clears(p, hotkey, limits, group), NEW k \in Nat, Placed(plan, k, group),
         NEW done, <<p.netuid, p.hotkey>> \notin done,
         Emptied(netuids, hotkeys, initial, hotkey, done, StakeAfter(acc, k))
  PROVE  Emptied(netuids, hotkeys, initial, hotkey, done \cup {<<p.netuid, p.hotkey>>},
                 StakeAfter(acc, k + Len(group)))
<1> DEFINE s == StakeAfter(acc, k)
           one == StakeAfter(acc, k + 1)
           two == StakeAfter(acc, k + 2)
           more == done \cup {<<p.netuid, p.hotkey>>}
<1>1. PICK n, h, st : n = p.netuid /\ h = p.hotkey /\ st = p.stake
  OBVIOUS
<1>2. n \in netuids /\ h \in hotkeys /\ st \in Nat /\ st > 0 /\ initial[n][h] = st
  BY <1>1 DEF Position
<1>3. limits \in BOOLEAN
  BY DEF Carrying, Planning
<1>4. \/ /\ n = 0 /\ h # hotkey
         /\ group = <<MoveOf(p, hotkey)>>
      \/ /\ n # 0 /\ ~(limits /\ h # hotkey)
         /\ Len(group) = 1 /\ SwapsFrom(p, hotkey, h, group[1])
      \/ /\ n # 0 /\ limits /\ h # hotkey
         /\ Len(group) = 2 /\ group[1] = MoveOf(p, hotkey)
         /\ SwapsFrom(p, hotkey, hotkey, group[2])
  <2>1. \/ /\ p.netuid = 0 /\ p.hotkey # hotkey
            /\ group = <<MoveOf(p, hotkey)>>
        \/ /\ p.netuid # 0 /\ ~(limits /\ p.hotkey # hotkey)
           /\ Len(group) = 1 /\ SwapsFrom(p, hotkey, p.hotkey, group[1])
        \/ /\ p.netuid # 0 /\ limits /\ p.hotkey # hotkey
           /\ Len(group) = 2 /\ group[1] = MoveOf(p, hotkey)
           /\ SwapsFrom(p, hotkey, hotkey, group[2])
    BY <1>3, ClearsIs
  <2> QED BY <1>1, <2>1
<1>5. n # 0 \/ h # hotkey
  BY <1>4
<1>6. s[n][h] = st
  <2>1. <<n, h>> # <<0, hotkey>> /\ <<n, h>> \notin done
    BY <1>1, <1>5
  <2>2. s[n][h] = IF <<n, h>> \in done THEN 0 ELSE initial[n][h]
    BY <1>2, <2>1 DEF Emptied
  <2> QED BY <1>2, <2>1, <2>2
<1>7. s[n][h] > 0 /\ k + 1 \in Nat /\ (k + 1) + 1 = k + 2
  BY <1>2, <1>6
<1>8. CASE n = 0 /\ h # hotkey /\ group = <<MoveOf(p, hotkey)>>
  <2>1. Len(group) = 1 /\ group[1] = MoveOf(p, hotkey)
    BY <1>8
  <2>2. k + 1 \in 1..Len(plan) /\ plan[k + 1] = MoveOf(p, hotkey)
    BY <2>1 DEF Placed
  <2>3. MovedAll(netuids, hotkeys, s, one, p.netuid, p.hotkey, hotkey)
    <3>1. p.hotkey # hotkey /\ StakeAfter(acc, k)[p.netuid][p.hotkey] > 0
      BY <1>1, <1>7, <1>8
    <3> QED BY <2>2, <3>1, MoveRun
  <2> HIDE DEF s, one
  <2>4. /\ one[n][h] = 0
        /\ \A a \in netuids, b \in hotkeys :
             <<a, b>> # <<n, h>> /\ <<a, b>> # <<0, hotkey>> => one[a][b] = s[a][b]
    BY <1>1, <1>8, <2>3 DEF MovedAll
  <2>5. Emptied(netuids, hotkeys, initial, hotkey, done, s)
    BY DEF s
  <2>6. Emptied(netuids, hotkeys, initial, hotkey, done \cup {<<n, h>>}, one)
    BY <2>4, <2>5, EmptiedMore
  <2> QED BY <1>1, <2>1, <2>6 DEF one
<1>9. CASE /\ n # 0 /\ ~(limits /\ h # hotkey)
           /\ Len(group) = 1 /\ SwapsFrom(p, hotkey, h, group[1])
  <2>1. 1 \in 1..Len(group)
    BY <1>9
  <2>2. k + 1 \in 1..Len(plan) /\ SwapsFrom(p, hotkey, h, plan[k + 1])
    BY <1>9, <2>1 DEF Placed
  <2>3. p.netuid # 0 /\ p.stake <= s[p.netuid][h]
    BY <1>1, <1>2, <1>6, <1>9
  <2>4. SwappedAway(netuids, hotkeys, s, one, p.netuid, h, p.stake, hotkey)
    BY <2>2, <2>3, SwapRun
  <2> HIDE DEF s, one
  <2>5. /\ one[n][h] = 0
        /\ \A a \in netuids, b \in hotkeys :
             <<a, b>> # <<n, h>> /\ <<a, b>> # <<0, hotkey>> => one[a][b] = s[a][b]
    BY <1>1, <1>2, <1>6, <2>4 DEF SwappedAway
  <2>6. Emptied(netuids, hotkeys, initial, hotkey, done, s)
    BY DEF s
  <2>7. Emptied(netuids, hotkeys, initial, hotkey, done \cup {<<n, h>>}, one)
    BY <2>5, <2>6, EmptiedMore
  <2> QED BY <1>1, <1>9, <2>7 DEF one
<1>10. CASE /\ n # 0 /\ limits /\ h # hotkey
            /\ Len(group) = 2 /\ group[1] = MoveOf(p, hotkey)
            /\ SwapsFrom(p, hotkey, hotkey, group[2])
  <2>1. 1 \in 1..Len(group) /\ 2 \in 1..Len(group)
    BY <1>10
  <2>2. k + 1 \in 1..Len(plan) /\ plan[k + 1] = MoveOf(p, hotkey)
    BY <1>10, <2>1 DEF Placed
  <2>3. k + 2 \in 1..Len(plan) /\ SwapsFrom(p, hotkey, hotkey, plan[k + 2])
    BY <1>10, <2>1 DEF Placed
  <2>4. MovedAll(netuids, hotkeys, s, one, p.netuid, p.hotkey, hotkey)
    <3>1. p.hotkey # hotkey /\ StakeAfter(acc, k)[p.netuid][p.hotkey] > 0
      BY <1>1, <1>7, <1>10
    <3> QED BY <2>2, <3>1, MoveRun
  <2>5. s \in [netuids -> [hotkeys -> Nat]]
    BY <2>2, CarryingStep
  <2> HIDE DEF s
  <2>6. s[n][hotkey] \in Nat /\ one[n][hotkey] = s[n][hotkey] + st
    BY <1>1, <1>2, <1>6, <2>4, <2>5 DEF MovedAll
  <2>7. p.netuid # 0 /\ p.stake <= one[p.netuid][hotkey]
    BY <1>1, <1>2, <1>10, <2>6
  <2>8. SwappedAway(netuids, hotkeys, one, two, p.netuid, hotkey, p.stake, hotkey)
    <3> DEFINE i == k + 1
    <3>1. i \in Nat /\ i + 1 = k + 2 /\ one = StakeAfter(acc, i) /\ two = StakeAfter(acc, i + 1)
      BY <1>7
    <3> HIDE DEF i, one, two
    <3>2. i + 1 \in 1..Len(plan) /\ SwapsFrom(p, hotkey, hotkey, plan[i + 1])
      BY <2>3, <3>1
    <3>3. p.stake <= StakeAfter(acc, i)[p.netuid][hotkey]
      BY <2>7, <3>1
    <3>4. SwappedAway(netuids, hotkeys, StakeAfter(acc, i), StakeAfter(acc, i + 1),
                      p.netuid, hotkey, p.stake, hotkey)
      BY <2>7, <3>1, <3>2, <3>3, SwapRun
    <3> QED BY <3>1, <3>4
  <2> HIDE DEF one, two
  <2>9. two[n][hotkey] = s[n][hotkey]
    BY <1>1, <1>2, <2>6, <2>8 DEF SwappedAway
  <2>10. two[n][h] = 0
    <3>1. <<n, h>> # <<n, hotkey>> /\ <<n, h>> # <<0, hotkey>>
      BY <1>10
    <3> QED BY <1>1, <1>2, <2>4, <2>8, <3>1 DEF MovedAll, SwappedAway
  <2>11. \A a \in netuids, b \in hotkeys :
           <<a, b>> # <<n, h>> /\ <<a, b>> # <<0, hotkey>> => two[a][b] = s[a][b]
    <3> SUFFICES ASSUME NEW a \in netuids, NEW b \in hotkeys,
                        <<a, b>> # <<n, h>>, <<a, b>> # <<0, hotkey>>
                 PROVE  two[a][b] = s[a][b]
      OBVIOUS
    <3>1. CASE <<a, b>> = <<n, hotkey>>
      <4>1. a = n /\ b = hotkey
        BY <3>1
      <4> QED BY <2>9, <4>1
    <3>2. CASE <<a, b>> # <<n, hotkey>>
      <4>1. one[a][b] = s[a][b]
        BY <1>1, <2>4, <3>2 DEF MovedAll
      <4>2. two[a][b] = one[a][b]
        BY <1>1, <2>8, <3>2 DEF SwappedAway
      <4> QED BY <4>1, <4>2
    <3> QED BY <3>1, <3>2
  <2>12. Emptied(netuids, hotkeys, initial, hotkey, done, s)
    BY DEF s
  <2>13. Emptied(netuids, hotkeys, initial, hotkey, done \cup {<<n, h>>}, two)
    BY <2>10, <2>11, <2>12, EmptiedMore
  <2> QED BY <1>1, <1>10, <2>13 DEF two
<1> QED BY <1>4, <1>8, <1>9, <1>10

CellOf(p) == <<p.netuid, p.hotkey>>

\* The groups of a phase follow each other in the plan.
Grouped(plan, offset, at, groups) ==
  /\ at \in [0..Len(groups) -> Nat]
  /\ \A k \in Nat : k + 1 <= Len(groups) =>
       /\ at[k + 1] = at[k] + Len(groups[k + 1])
       /\ Placed(plan, offset + at[k], groups[k + 1])

\* Each position of a phase is left alone or cleared.
ClearedBy(positions, hotkey, limits, groups) ==
  /\ Len(groups) = Len(positions)
  /\ \A i \in DOMAIN positions :
       groups[i] = <<>> \/ Clears(positions[i], hotkey, limits, groups[i])

\* The positions that a ledger has.
HeldIn(netuids, hotkeys, initial, positions) ==
  /\ positions \in Seq(Position(netuids, hotkeys)) /\ Distinct(positions)
  /\ \A i \in DOMAIN positions :
       /\ positions[i].stake = initial[positions[i].netuid][positions[i].hotkey]
       /\ positions[i].stake > 0

\* The cells that the first k groups empty.
CellsDone(positions, groups, k) ==
  {CellOf(positions[i]) : i \in {j \in 1..k : groups[j] # <<>>}}

LEMMA CellsMore ==
  ASSUME NEW positions, NEW groups, NEW k \in Nat
  PROVE  CellsDone(positions, groups, k + 1) =
           IF groups[k + 1] = <<>> THEN CellsDone(positions, groups, k)
           ELSE CellsDone(positions, groups, k) \cup {CellOf(positions[k + 1])}
<1> DEFINE Busy(l) == {j \in 1..l : groups[j] # <<>>}
<1>1. Busy(k + 1) = IF groups[k + 1] = <<>> THEN Busy(k) ELSE Busy(k) \cup {k + 1}
  OBVIOUS
<1>2. \A l \in Nat : CellsDone(positions, groups, l) = {CellOf(positions[i]) : i \in Busy(l)}
  BY DEF CellsDone
<1> HIDE DEF Busy
<1>3. k + 1 \in Nat
  OBVIOUS
<1> QED BY <1>1, <1>2, <1>3

LEMMA PhaseEmpties ==
  ASSUME NEW netuids, NEW hotkeys, NEW price, NEW plan, NEW limits, NEW acc,
         Carrying(netuids, hotkeys, price, plan, limits, acc),
         NEW hotkey \in hotkeys,
         NEW initial \in [netuids -> [hotkeys -> Nat]],
         NEW positions, HeldIn(netuids, hotkeys, initial, positions),
         NEW groups, ClearedBy(positions, hotkey, limits, groups),
         NEW offset \in Nat, NEW at, Grouped(plan, offset, at, groups),
         NEW before,
         \A i \in DOMAIN positions : groups[i] # <<>> => CellOf(positions[i]) \notin before,
         Emptied(netuids, hotkeys, initial, hotkey, before, StakeAfter(acc, offset + at[0]))
  PROVE  Emptied(netuids, hotkeys, initial, hotkey,
                 before \cup CellsDone(positions, groups, Len(positions)),
                 StakeAfter(acc, offset + at[Len(positions)]))
<1> DEFINE n == Len(positions)
           Done(k) == before \cup CellsDone(positions, groups, k)
           R == {k \in Nat : k <= n =>
                   Emptied(netuids, hotkeys, initial, hotkey, Done(k), StakeAfter(acc, offset + at[k]))}
<1>1. n \in Nat /\ DOMAIN positions = 1..n /\ \A i \in 1..n : positions[i] \in Position(netuids, hotkeys)
  BY DEF HeldIn
<1>2. Len(groups) = n
  BY DEF ClearedBy
<1> HIDE DEF n
<1>3. 0 \in R
  <2>1. CellsDone(positions, groups, 0) = {}
    BY DEF CellsDone
  <2>2. Done(0) = before
    BY <2>1
  <2> HIDE DEF Done
  <2> QED BY <2>2
<1>4. ASSUME NEW k \in Nat, k \in R PROVE k + 1 \in R
  <2> DEFINE i == k + 1
             group == groups[i]
             p == positions[i]
             here == offset + at[k]
  <2> SUFFICES ASSUME i <= n
               PROVE  Emptied(netuids, hotkeys, initial, hotkey, Done(i), StakeAfter(acc, offset + at[i]))
    OBVIOUS
  <2>1. i \in 1..n /\ i \in Nat /\ k \in 0..n /\ k <= n
    BY <1>1
  <2>2. Emptied(netuids, hotkeys, initial, hotkey, Done(k), StakeAfter(acc, here))
    BY <1>4, <2>1
  <2>3. at[i] = at[k] + Len(group) /\ Placed(plan, here, group) /\ at[k] \in Nat
    BY <1>2, <2>1 DEF Grouped
  <2>4. CellsDone(positions, groups, i) =
          IF group = <<>> THEN CellsDone(positions, groups, k)
          ELSE CellsDone(positions, groups, k) \cup {CellOf(p)}
    BY CellsMore
  <2>5. CASE group = <<>>
    <3>1. at[i] = at[k]
      <4>1. Len(group) = 0
        BY <2>5
      <4> QED BY <2>3, <4>1
    <3>2. Done(i) = Done(k)
      BY <2>4, <2>5
    <3> HIDE DEF Done
    <3> QED BY <2>2, <3>1, <3>2
  <2>6. CASE group # <<>>
    <3>1. Clears(p, hotkey, limits, group)
      BY <1>1, <2>1, <2>6 DEF ClearedBy
    <3>2. p \in Position(netuids, hotkeys) /\ p.stake = initial[p.netuid][p.hotkey] /\ p.stake > 0
      BY <1>1, <2>1 DEF HeldIn
    <3>3. CellOf(p) \notin before
      BY <1>1, <2>1, <2>6
    <3>4. CellOf(p) \notin CellsDone(positions, groups, k)
      <4> SUFFICES ASSUME NEW j \in 1..k, CellOf(positions[j]) = CellOf(p) PROVE FALSE
        BY DEF CellsDone
      <4>1. j \in 1..n /\ j # i
        BY <1>1, <2>1
      <4>2. positions[j].netuid = p.netuid /\ positions[j].hotkey = p.hotkey
        BY DEF CellOf
      <4>3. Distinct(positions)
        BY DEF HeldIn
      <4> QED BY <1>1, <2>1, <4>1, <4>2, <4>3 DEF Distinct
    <3>5. CellOf(p) = <<p.netuid, p.hotkey>>
      BY DEF CellOf
    <3>6. <<p.netuid, p.hotkey>> \notin Done(k)
      BY <3>3, <3>4, <3>5
    <3>7. Done(i) = Done(k) \cup {<<p.netuid, p.hotkey>>}
      BY <2>4, <2>6, <3>5
    <3>8. here \in Nat
      BY <2>3
    <3> DEFINE d == Done(k)
    <3> HIDE DEF Done, here, i, group, p
    <3>9. Emptied(netuids, hotkeys, initial, hotkey, d, StakeAfter(acc, here))
      BY <2>2 DEF d
    <3>10. <<p.netuid, p.hotkey>> \notin d
      BY <3>6 DEF d
    <3> HIDE DEF d
    <3>11. Emptied(netuids, hotkeys, initial, hotkey, d \cup {<<p.netuid, p.hotkey>>},
                   StakeAfter(acc, here + Len(group)))
      BY <2>3, <3>1, <3>2, <3>8, <3>9, <3>10, GroupStep
    <3>12. offset + at[i] = here + Len(group)
      <4>1. Len(group) \in Nat
        BY <3>1, ClearsIs DEF Clears
      <4> QED BY <2>3, <4>1 DEF here
    <3> QED BY <3>7, <3>11, <3>12 DEF d
  <2> QED BY <2>5, <2>6
<1>5. Nat \subseteq R
  <2> HIDE DEF R
  <2> QED BY <1>3, <1>4, Induction
<1>6. Emptied(netuids, hotkeys, initial, hotkey, Done(n), StakeAfter(acc, offset + at[n]))
  <2>1. n <= n
    BY <1>1
  <2>2. n \in R
    <3> HIDE DEF R
    <3> QED BY <1>1, <1>5
  <2> HIDE DEF Done
  <2> QED BY <2>1, <2>2
<1> QED BY <1>6 DEF n

Consolidations(positions, hotkey) ==
  [i \in DOMAIN positions |-> Consolidate(positions[i], RootOf(hotkey))]

Leavings(positions, hotkey) ==
  [i \in DOMAIN positions |-> Leave(positions[i], RootOf(hotkey))]

LEMMA BunkerIs ==
  ASSUME NEW positions, NEW hotkey
  PROVE  BunkerOperations(positions, hotkey) =
           FlattenSeq(Consolidations(positions, hotkey)) \o FlattenSeq(Leavings(positions, hotkey))
BY DEF BunkerOperations, Consolidations, Leavings, RootOf

LEMMA ConsolidateTyped ==
  ASSUME NEW netuids, 0 \in netuids, NEW hotkeys, NEW hotkey \in hotkeys,
         NEW p \in Position(netuids, hotkeys)
  PROVE  Consolidate(p, RootOf(hotkey)) \in Seq(Operation(netuids, hotkeys))
<1>1. <<>> \in Seq(Operation(netuids, hotkeys))
  OBVIOUS
<1>2. CASE p.netuid = 0 /\ p.hotkey # hotkey
  <2> DEFINE g == <<Head(SwapTo(p, RootOf(hotkey), p.stake, p.taoValue, Sweep, TRUE))>>
  <2>1. Consolidate(p, RootOf(hotkey)) = g
    BY <1>2 DEF Consolidate, RootOf
  <2>2. Clears(p, hotkey, TRUE, g)
    BY <1>2 DEF Clears
  <2> HIDE DEF g
  <2>3. g = <<MoveOf(p, hotkey)>>
    BY <1>2, <2>2, ClearsIs
  <2>4. MoveOf(p, hotkey) \in MoveOps(netuids, hotkeys)
    BY DEF MoveOf, MoveOps, Position
  <2>5. MoveOf(p, hotkey) \in Operation(netuids, hotkeys)
    BY <2>4 DEF Operation
  <2>6. \A x \in Operation(netuids, hotkeys) : <<x>> \in Seq(Operation(netuids, hotkeys))
    OBVIOUS
  <2> QED BY <2>1, <2>3, <2>5, <2>6
<1>3. CASE ~(p.netuid = 0 /\ p.hotkey # hotkey)
  BY <1>1, <1>3 DEF Consolidate, RootOf
<1> QED BY <1>2, <1>3

LEMMA LeaveTyped ==
  ASSUME NEW netuids, 0 \in netuids, NEW hotkeys, NEW hotkey \in hotkeys,
         NEW p \in Position(netuids, hotkeys), useLimits \in BOOLEAN
  PROVE  Leave(p, RootOf(hotkey)) \in Seq(Operation(netuids, hotkeys))
<1> DEFINE root == RootOf(hotkey)
<1>1. <<>> \in Seq(Operation(netuids, hotkeys))
  OBVIOUS
<1>2. root.netuid \in netuids /\ root.hotkey \in hotkeys
  BY DEF RootOf
<1>3. /\ p.netuid \in netuids /\ p.hotkey \in hotkeys /\ p.stake \in Nat /\ p.taoValue \in Int
      /\ Sweep \in Nat \cup {Sweep}
  BY DEF Position
<1> HIDE DEF root
<1>4. SwapTo(p, root, p.stake, p.taoValue, Sweep, useLimits) \in Seq(Operation(netuids, hotkeys))
  BY <1>2, <1>3, SwapToTyped
<1>5. Leave(p, root) \in Seq(Operation(netuids, hotkeys))
  BY <1>1, <1>4 DEF Leave
<1> QED BY <1>5 DEF root

LEMMA GroupsTyped ==
  ASSUME NEW netuids, 0 \in netuids, NEW hotkeys, NEW hotkey \in hotkeys,
         NEW positions \in Seq(Position(netuids, hotkeys)), useLimits \in BOOLEAN
  PROVE  /\ Consolidations(positions, hotkey) \in Seq(Seq(Operation(netuids, hotkeys)))
         /\ Len(Consolidations(positions, hotkey)) = Len(positions)
         /\ Leavings(positions, hotkey) \in Seq(Seq(Operation(netuids, hotkeys)))
         /\ Len(Leavings(positions, hotkey)) = Len(positions)
<1> DEFINE n == Len(positions)
           O == Seq(Operation(netuids, hotkeys))
           C == Consolidations(positions, hotkey)
           L == Leavings(positions, hotkey)
<1>1. n \in Nat /\ DOMAIN positions = 1..n /\ \A i \in 1..n : positions[i] \in Position(netuids, hotkeys)
  OBVIOUS
<1>2. C = [i \in 1..n |-> C[i]] /\ L = [i \in 1..n |-> L[i]]
  BY <1>1 DEF Consolidations, Leavings
<1>3. \A i \in 1..n : C[i] = Consolidate(positions[i], RootOf(hotkey))
                      /\ L[i] = Leave(positions[i], RootOf(hotkey))
  BY <1>1 DEF Consolidations, Leavings
<1>4. \A i \in 1..n : C[i] \in O
  BY <1>1, <1>3, ConsolidateTyped
<1>5. \A i \in 1..n : L[i] \in O
  BY <1>1, <1>3, LeaveTyped
<1> HIDE DEF n, O, C, L
<1>6. C \in [1..n -> O] /\ L \in [1..n -> O]
  BY <1>2, <1>4, <1>5
<1>7. \A s \in [1..n -> O] : s \in Seq(O) /\ Len(s) = n
  BY <1>1
<1> QED BY <1>6, <1>7 DEF n, O, C, L

LEMMA BunkerTyped ==
  ASSUME NEW netuids, 0 \in netuids, NEW hotkeys, NEW hotkey \in hotkeys,
         NEW positions \in Seq(Position(netuids, hotkeys)), useLimits \in BOOLEAN
  PROVE  BunkerOperations(positions, hotkey) \in Seq(Operation(netuids, hotkeys))
<1> DEFINE O == Operation(netuids, hotkeys)
           C == Consolidations(positions, hotkey)
           L == Leavings(positions, hotkey)
<1>1. C \in Seq(Seq(O)) /\ L \in Seq(Seq(O))
  BY GroupsTyped
<1> HIDE DEF C, L, O
<1>2. FlattenSeq(C) \in Seq(O)
  BY <1>1, FlattenPlaces
<1>3. FlattenSeq(L) \in Seq(O)
  BY <1>1, FlattenPlaces
<1>4. FlattenSeq(C) \o FlattenSeq(L) \in Seq(O)
  BY <1>2, <1>3
<1> QED BY <1>4, BunkerIs DEF C, L, O

LEMMA GroupsClear ==
  ASSUME NEW netuids, NEW hotkeys, NEW hotkey,
         NEW positions \in Seq(Position(netuids, hotkeys)), useLimits \in BOOLEAN
  PROVE  /\ ClearedBy(positions, hotkey, useLimits, Consolidations(positions, hotkey))
         /\ ClearedBy(positions, hotkey, useLimits, Leavings(positions, hotkey))
         /\ \A i \in DOMAIN positions :
              LET p == positions[i]
              IN /\ (Consolidations(positions, hotkey)[i] # <<>>) <=> (p.netuid = 0 /\ p.hotkey # hotkey)
                 /\ (Leavings(positions, hotkey)[i] # <<>>)
                      <=> (p.netuid # 0 /\ (p.taoValue = 0 \/ p.taoValue >= BunkerMin))
<1> DEFINE C == Consolidations(positions, hotkey)
           L == Leavings(positions, hotkey)
           Moved(p) == <<Head(SwapTo(p, RootOf(hotkey), p.stake, p.taoValue, Sweep, TRUE))>>
           Swapped(p) == SwapTo(p, RootOf(hotkey), p.stake, p.taoValue, Sweep, useLimits)
<1>1. Len(C) = Len(positions) /\ Len(L) = Len(positions)
  BY DEF Consolidations, Leavings
<1>2. \A i \in DOMAIN positions :
        /\ C[i] = IF positions[i].netuid = 0 /\ positions[i].hotkey # hotkey
                  THEN Moved(positions[i]) ELSE <<>>
        /\ L[i] = IF positions[i].netuid # 0
                     /\ (positions[i].taoValue = 0 \/ positions[i].taoValue >= BunkerMin)
                  THEN Swapped(positions[i]) ELSE <<>>
  BY DEF Consolidations, Leavings, Consolidate, Leave, RootOf
<1>3. \A p : Moved(p) # <<>>
  <2>1. \A x : <<x>> # <<>>
    OBVIOUS
  <2> QED BY <2>1
<1>4. \A p : Swapped(p) # <<>>
  <2>1. \A x, y : <<x, y>> # <<>> /\ <<x>> # <<>>
    OBVIOUS
  <2> QED BY <2>1 DEF SwapTo
<1>5. \A i \in DOMAIN positions :
        C[i] = <<>> \/ Clears(positions[i], hotkey, useLimits, C[i])
  BY <1>2 DEF Clears
<1>6. \A i \in DOMAIN positions :
        L[i] = <<>> \/ Clears(positions[i], hotkey, useLimits, L[i])
  BY <1>2 DEF Clears
<1> HIDE DEF C, L, Moved, Swapped
<1>7. \A i \in DOMAIN positions :
         LET p == positions[i]
         IN /\ (C[i] # <<>>) <=> (p.netuid = 0 /\ p.hotkey # hotkey)
            /\ (L[i] # <<>>) <=> (p.netuid # 0 /\ (p.taoValue = 0 \/ p.taoValue >= BunkerMin))
  BY <1>2, <1>3, <1>4
<1> QED BY <1>1, <1>5, <1>6, <1>7 DEF ClearedBy, C, L

\* A part of a sequence that is joined to others is where its groups say.
LEMMA PartsPlaced ==
  ASSUME NEW D, NEW groups \in Seq(Seq(D)), NEW before \in Seq(D), NEW after \in Seq(D)
  PROVE  \E at \in [0..Len(groups) -> Nat] :
           /\ at[0] = 0 /\ at[Len(groups)] = Len(FlattenSeq(groups))
           /\ Grouped(before \o FlattenSeq(groups) \o after, Len(before), at, groups)
<1> DEFINE flat == FlattenSeq(groups)
           plan == before \o flat \o after
           n == Len(groups)
<1>1. /\ flat \in Seq(D)
      /\ \E at \in [0..n -> Nat] :
              /\ at[0] = 0 /\ at[n] = Len(flat)
              /\ \A k \in Nat : k + 1 <= n =>
                   /\ at[k + 1] = at[k] + Len(groups[k + 1])
                   /\ \A j \in 1..Len(groups[k + 1]) :
                        /\ at[k] + j \in 1..Len(flat)
                        /\ flat[at[k] + j] = groups[k + 1][j]
  BY FlattenPlaces
<1>2. PICK at \in [0..n -> Nat] :
              /\ at[0] = 0 /\ at[n] = Len(flat)
              /\ \A k \in Nat : k + 1 <= n =>
                   /\ at[k + 1] = at[k] + Len(groups[k + 1])
                   /\ \A j \in 1..Len(groups[k + 1]) :
                        /\ at[k] + j \in 1..Len(flat)
                        /\ flat[at[k] + j] = groups[k + 1][j]
  BY <1>1
<1>3. n \in Nat /\ \A k \in 1..n : Len(groups[k]) \in Nat
  <2>1. \A k \in 1..n : groups[k] \in Seq(D)
    OBVIOUS
  <2>2. \A s \in Seq(D) : Len(s) \in Nat
    OBVIOUS
  <2> QED BY <2>1, <2>2
<1> HIDE DEF flat, n
<1> DEFINE a == Len(before)
           b == Len(flat)
<1>4. a \in Nat /\ b \in Nat /\ Len(after) \in Nat
  BY <1>1
<1>5. /\ Len(plan) = a + b + Len(after)
      /\ \A i \in 1..b : plan[a + i] = flat[i]
  <2>1. before \o flat \in Seq(D) /\ Len(before \o flat) = a + b
    BY <1>1
  <2>2. \A i \in 1..b : (before \o flat)[a + i] = flat[i]
    BY <1>1
  <2> DEFINE x == before \o flat
  <2> HIDE DEF x
  <2>3. x \in Seq(D) /\ Len(x) = a + b
    BY <2>1 DEF x
  <2>4. Len(x \o after) = Len(x) + Len(after)
    <3>1. \A s, t \in Seq(D) : Len(s \o t) = Len(s) + Len(t)
      OBVIOUS
    <3> QED BY <2>3, <3>1
  <2>6. \A i \in 1..Len(x) : (x \o after)[i] = x[i]
    BY <2>3
  <2>5. \A i \in 1..b : a + i \in 1..Len(x)
    BY <1>4, <2>3
  <2> QED BY <2>2, <2>3, <2>4, <2>5, <2>6 DEF x
<1> HIDE DEF plan, a, b
<1>6. ASSUME NEW k \in Nat, k + 1 <= n
      PROVE  /\ at[k + 1] = at[k] + Len(groups[k + 1])
             /\ Placed(plan, a + at[k], groups[k + 1])
  <2>1. at[k + 1] = at[k] + Len(groups[k + 1])
    BY <1>2, <1>6
  <2>2. at[k] \in Nat
    <3>1. k \in 0..n
      BY <1>3, <1>6
    <3> QED BY <1>2, <3>1
  <2>3. ASSUME NEW j \in 1..Len(groups[k + 1])
        PROVE  (a + at[k]) + j \in 1..Len(plan) /\ plan[(a + at[k]) + j] = groups[k + 1][j]
    <3>1. at[k] + j \in 1..b /\ flat[at[k] + j] = groups[k + 1][j]
      BY <1>2, <1>6, <2>3 DEF b
    <3>2. k + 1 \in 1..n
      BY <1>3, <1>6
    <3>3. j \in Nat
      BY <1>3, <3>2
    <3>4. (a + at[k]) + j = a + (at[k] + j)
      BY <1>4, <2>2, <3>3
    <3>5. a + (at[k] + j) \in 1..Len(plan)
      <4> DEFINE m == at[k] + j
                 c == Len(after)
      <4>1. m \in 1..b /\ a \in Nat /\ b \in Nat /\ c \in Nat /\ Len(plan) = a + b + c
        BY <1>4, <1>5, <3>1
      <4> HIDE DEF m, c
      <4>2. m \in Nat /\ 1 <= m /\ m <= b
        BY <4>1
      <4>3. a + m \in 1..(a + b + c)
        BY <4>1, <4>2
      <4> QED BY <4>1, <4>3 DEF m
    <3> QED BY <1>5, <3>1, <3>4, <3>5
  <2> QED BY <2>1, <2>3 DEF Placed
<1>7. Grouped(plan, a, at, groups)
  BY <1>2, <1>6 DEF Grouped, n
<1>8. at[0] = 0 /\ at[n] = Len(flat)
  BY <1>2
<1> QED BY <1>7, <1>8 DEF plan, a, n, flat

\* What the script's plan comes to.
LEMMA BunkerRun ==
  ASSUME NEW netuids, NEW hotkeys, NEW price, NEW plan, NEW acc,
         Carrying(netuids, hotkeys, price, plan, useLimits, acc),
         NEW hotkey \in hotkeys,
         NEW initial \in [netuids -> [hotkeys -> Nat]], initial = StakeAfter(acc, 0),
         NEW positions, HeldIn(netuids, hotkeys, initial, positions),
         plan = BunkerOperations(positions, hotkey)
  PROVE  Emptied(netuids, hotkeys, initial, hotkey,
                 CellsDone(positions, Consolidations(positions, hotkey), Len(positions))
                   \cup CellsDone(positions, Leavings(positions, hotkey), Len(positions)),
                 StakeAfter(acc, Len(plan)))
<1> DEFINE O == Operation(netuids, hotkeys)
           C == Consolidations(positions, hotkey)
           L == Leavings(positions, hotkey)
           n == Len(positions)
           Moved == CellsDone(positions, C, n)
           Left == CellsDone(positions, L, n)
           a == Len(FlattenSeq(C))
           b == Len(FlattenSeq(L))
<1>1. useLimits \in BOOLEAN /\ 0 \in netuids
  BY DEF Carrying, Planning
<1>2. positions \in Seq(Position(netuids, hotkeys)) /\ n \in Nat /\ DOMAIN positions = 1..n
  BY DEF HeldIn
<1>3. C \in Seq(Seq(O)) /\ L \in Seq(Seq(O)) /\ Len(C) = n /\ Len(L) = n
  BY <1>1, <1>2, GroupsTyped
<1>4. /\ ClearedBy(positions, hotkey, useLimits, C) /\ ClearedBy(positions, hotkey, useLimits, L)
      /\ \A i \in DOMAIN positions :
           LET p == positions[i]
           IN /\ (C[i] # <<>>) <=> (p.netuid = 0 /\ p.hotkey # hotkey)
              /\ (L[i] # <<>>) <=> (p.netuid # 0 /\ (p.taoValue = 0 \/ p.taoValue >= BunkerMin))
  BY <1>1, <1>2, GroupsClear
<1>5. plan = FlattenSeq(C) \o FlattenSeq(L)
  BY BunkerIs
<1> HIDE DEF O, C, L, n
<1>6. FlattenSeq(C) \in Seq(O)
  BY <1>3, FlattenPlaces
<1>7. FlattenSeq(L) \in Seq(O)
  BY <1>3, FlattenPlaces
<1>8. a \in Nat /\ b \in Nat /\ Len(plan) = a + b
  BY <1>5, <1>6, <1>7
<1>9. <<>> \in Seq(O) /\ Len(<<>>) = 0
  OBVIOUS
<1>10. \E at \in [0..n -> Nat] : at[0] = 0 /\ at[n] = a /\ Grouped(plan, 0, at, C)
  <2>1. \E at \in [0..Len(C) -> Nat] :
           /\ at[0] = 0 /\ at[Len(C)] = Len(FlattenSeq(C))
           /\ Grouped(<<>> \o FlattenSeq(C) \o FlattenSeq(L), Len(<<>>), at, C)
    BY <1>3, <1>7, <1>9, PartsPlaced
  <2>2. <<>> \o FlattenSeq(C) = FlattenSeq(C)
    BY <1>6
  <2>3. <<>> \o FlattenSeq(C) \o FlattenSeq(L) = plan
    BY <1>5, <2>2
  <2> QED BY <1>3, <1>9, <2>1, <2>3
<1>11. \E at \in [0..n -> Nat] : at[0] = 0 /\ at[n] = b /\ Grouped(plan, a, at, L)
  <2>1. \E at \in [0..Len(L) -> Nat] :
           /\ at[0] = 0 /\ at[Len(L)] = Len(FlattenSeq(L))
           /\ Grouped(FlattenSeq(C) \o FlattenSeq(L) \o <<>>, Len(FlattenSeq(C)), at, L)
    BY <1>3, <1>6, <1>9, PartsPlaced
  <2>2. plan \in Seq(O)
    BY <1>5, <1>6, <1>7
  <2>3. plan \o <<>> = plan
    BY <2>2
  <2>4. FlattenSeq(C) \o FlattenSeq(L) \o <<>> = plan
    BY <1>5, <2>3
  <2> QED BY <1>3, <2>1, <2>4
<1>12. PICK atC \in [0..n -> Nat] : atC[0] = 0 /\ atC[n] = a /\ Grouped(plan, 0, atC, C)
  BY <1>10
<1>13. PICK atL \in [0..n -> Nat] : atL[0] = 0 /\ atL[n] = b /\ Grouped(plan, a, atL, L)
  BY <1>11
<1> HIDE DEF a, b
<1>14. 0 + atC[0] = 0 /\ 0 + atC[n] = a /\ a + atL[0] = a /\ a + atL[n] = Len(plan)
  BY <1>8, <1>12, <1>13
<1>15. Emptied(netuids, hotkeys, initial, hotkey, {} \cup Moved, StakeAfter(acc, a))
  <2>1. Emptied(netuids, hotkeys, initial, hotkey, {}, StakeAfter(acc, 0 + atC[0]))
    BY <1>14 DEF Emptied
  <2>2. \A i \in DOMAIN positions : C[i] # <<>> => CellOf(positions[i]) \notin {}
    OBVIOUS
  <2>3. 0 \in Nat
    OBVIOUS
  <2>4. Emptied(netuids, hotkeys, initial, hotkey, {} \cup CellsDone(positions, C, Len(positions)),
                StakeAfter(acc, 0 + atC[Len(positions)]))
    BY <1>4, <1>12, <2>1, <2>2, <2>3, PhaseEmpties
  <2> QED BY <1>14, <2>4 DEF n
<1>16. \A i \in DOMAIN positions : L[i] # <<>> => CellOf(positions[i]) \notin Moved
  <2> SUFFICES ASSUME NEW i \in 1..n, L[i] # <<>>, NEW j \in 1..n, C[j] # <<>>,
                      CellOf(positions[i]) = CellOf(positions[j])
               PROVE  FALSE
    BY <1>2 DEF CellsDone
  <2>1. positions[i].netuid = positions[j].netuid
    BY DEF CellOf
  <2> QED BY <1>2, <1>4, <2>1
<1>17. Emptied(netuids, hotkeys, initial, hotkey, Moved \cup Left, StakeAfter(acc, Len(plan)))
  <2>1. Emptied(netuids, hotkeys, initial, hotkey, Moved, StakeAfter(acc, a + atL[0]))
    <3>1. {} \cup Moved = Moved
      OBVIOUS
    <3> QED BY <1>14, <1>15, <3>1
  <2> DEFINE before == Moved
  <2>2. /\ \A i \in DOMAIN positions : L[i] # <<>> => CellOf(positions[i]) \notin before
        /\ Emptied(netuids, hotkeys, initial, hotkey, before, StakeAfter(acc, a + atL[0]))
    BY <1>16, <2>1
  <2> HIDE DEF before
  <2>3. Emptied(netuids, hotkeys, initial, hotkey, before \cup CellsDone(positions, L, Len(positions)),
                StakeAfter(acc, a + atL[Len(positions)]))
    BY <1>4, <1>8, <1>13, <2>2, PhaseEmpties
  <2> QED BY <1>14, <2>3 DEF before, n
<1> QED BY <1>17 DEF C, L, n

\* Every position that is worth alpha is listed.
Listed(netuids, hotkeys, initial, price, positions) ==
  \A n \in netuids, h \in hotkeys : initial[n][h] > 0 =>
    \E i \in DOMAIN positions :
      /\ positions[i].netuid = n /\ positions[i].hotkey = h
      /\ positions[i].taoValue = AlphaToTao(initial[n][h], price[n])
      /\ positions[i].taoValue \in Nat

LEMMA StakesHeld ==
  ASSUME NEW netuids \in SUBSET Nat, IsFiniteSet(netuids), stake \in [netuids -> [Keys -> Nat]],
         NEW price \in [netuids -> Nat]
  PROVE  /\ HeldIn(netuids, Keys, stake, StakesAt(price))
         /\ Listed(netuids, Keys, stake, price, StakesAt(price))
<1> DEFINE s == StakesAt(price)
<1>1. s \in Seq(Priced(netuids, Keys)) /\ Distinct(s)
  BY StakesTyped
<1>2. s \in Seq(Position(netuids, Keys))
  <2>1. Priced(netuids, Keys) \subseteq Position(netuids, Keys)
    BY DEF Priced
  <2> DEFINE A == Priced(netuids, Keys)
             B == Position(netuids, Keys)
  <2> HIDE DEF A, B, s
  <2>2. s \in Seq(A) /\ A \subseteq B
    BY <1>1, <2>1 DEF A, B
  <2>3. s \in Seq(B)
    BY <2>2
  <2> QED BY <2>3 DEF B
<1>3. \E order : /\ Lists(Holdings, order)
                 /\ s = [i \in DOMAIN order |-> PositionAt(price, order[i])]
  BY HoldingsListed
<1>4. PICK order : /\ Lists(Holdings, order)
                   /\ s = [i \in DOMAIN order |-> PositionAt(price, order[i])]
  BY <1>3
<1> HIDE DEF s
<1>5. /\ order \in Seq(Holdings)
      /\ \A x \in Holdings : \E i \in 1..Len(order) : order[i] = x
  BY <1>4 DEF Lists
<1>6. DOMAIN order = 1..Len(order) /\ DOMAIN s = DOMAIN order
      /\ \A i \in DOMAIN order : order[i] \in Holdings /\ s[i] = PositionAt(price, order[i])
  BY <1>4, <1>5
<1>7. \A i \in DOMAIN s :
        /\ s[i].stake = stake[s[i].netuid][s[i].hotkey]
        /\ s[i].stake > 0
  <2> SUFFICES ASSUME NEW i \in DOMAIN order
               PROVE  s[i].stake = stake[s[i].netuid][s[i].hotkey] /\ s[i].stake > 0
    BY <1>6
  <2>1. stake[order[i][1]][Hotkeys[order[i][2]]] > 0
    BY <1>6 DEF Holdings
  <2>2. s[i].netuid = order[i][1] /\ s[i].hotkey = Hotkeys[order[i][2]]
        /\ s[i].stake = stake[order[i][1]][Hotkeys[order[i][2]]]
    BY <1>6 DEF PositionAt
  <2> QED BY <2>1, <2>2
<1>8. ASSUME NEW n \in netuids, NEW h \in Keys, stake[n][h] > 0
      PROVE  \E i \in DOMAIN s :
               /\ s[i].netuid = n /\ s[i].hotkey = h
               /\ s[i].taoValue = AlphaToTao(stake[n][h], price[n])
               /\ s[i].taoValue \in Nat
  <2>1. PICK k \in DOMAIN Hotkeys : Hotkeys[k] = h
    BY HotkeysDistinct
  <2>2. <<n, k>> \in Holdings
    <3>1. n \in DOMAIN stake
      OBVIOUS
    <3> QED BY <1>8, <2>1, <3>1 DEF Holdings
  <2>3. PICK i \in DOMAIN order : order[i] = <<n, k>>
    BY <1>5, <1>6, <2>2
  <2>4. s[i] = PositionAt(price, <<n, k>>)
    BY <1>6, <2>3
  <2>5. s[i].netuid = n /\ s[i].hotkey = h /\ s[i].taoValue = AlphaToTao(stake[n][h], price[n])
    BY <2>1, <2>4 DEF PositionAt
  <2>6. stake[n][h] \in Nat /\ price[n] \in Nat
    OBVIOUS
  <2>7. AlphaToTao(stake[n][h], price[n]) \in Nat
    BY <2>6, ConversionsNat
  <2> QED BY <1>6, <2>5, <2>7
<1>9. Listed(netuids, Keys, stake, price, s)
  BY <1>8 DEF Listed
<1> QED BY <1>1, <1>2, <1>7, <1>9 DEF HeldIn, s

\* The cell is the one that everything goes to, or empty, or dust.
DustOnly(s, hotkey, price, n, h) ==
  \/ n = 0 /\ h = hotkey
  \/ s[n][h] = 0
  \/ n # 0 /\ AlphaToTao(s[n][h], price[n]) \in 1..BunkerMin - 1

\* A cell of a ledger that the script has been through holds nothing but dust.
LEMMA EmptiedCell ==
  ASSUME NEW netuids, NEW hotkeys, NEW hotkey, NEW initial \in [netuids -> [hotkeys -> Nat]],
         NEW price, NEW positions, HeldIn(netuids, hotkeys, initial, positions),
         Listed(netuids, hotkeys, initial, price, positions), useLimits \in BOOLEAN,
         NEW final,
         Emptied(netuids, hotkeys, initial, hotkey,
                 CellsDone(positions, Consolidations(positions, hotkey), Len(positions))
                   \cup CellsDone(positions, Leavings(positions, hotkey), Len(positions)), final),
         NEW n \in netuids, NEW h \in hotkeys
  PROVE  DustOnly(final, hotkey, price, n, h)
<1> DEFINE C == Consolidations(positions, hotkey)
           L == Leavings(positions, hotkey)
           Moved == CellsDone(positions, C, Len(positions))
           Left == CellsDone(positions, L, Len(positions))
<1> SUFFICES ASSUME <<n, h>> # <<0, hotkey>>, final[n][h] # 0
             PROVE  n # 0 /\ AlphaToTao(final[n][h], price[n]) \in 1..BunkerMin - 1
  BY DEF DustOnly
<1>1. <<n, h>> \notin Moved \cup Left /\ final[n][h] = initial[n][h]
  BY DEF Emptied
<1>2. positions \in Seq(Position(netuids, hotkeys)) /\ DOMAIN positions = 1..Len(positions)
  BY DEF HeldIn
<1>3. \A i \in DOMAIN positions :
        LET p == positions[i]
        IN /\ (C[i] # <<>>) <=> (p.netuid = 0 /\ p.hotkey # hotkey)
           /\ (L[i] # <<>>) <=> (p.netuid # 0 /\ (p.taoValue = 0 \/ p.taoValue >= BunkerMin))
  BY <1>2, GroupsClear
<1>4. initial[n][h] > 0
  <2>1. initial[n][h] \in Nat
    OBVIOUS
  <2> QED BY <1>1, <2>1
<1>5. PICK i \in DOMAIN positions :
        /\ positions[i].netuid = n /\ positions[i].hotkey = h
        /\ positions[i].taoValue = AlphaToTao(initial[n][h], price[n])
        /\ positions[i].taoValue \in Nat
  BY <1>4 DEF Listed
<1> HIDE DEF C, L
<1>6. CellOf(positions[i]) = <<n, h>>
  BY <1>5 DEF CellOf
<1>7. C[i] = <<>> /\ L[i] = <<>>
  BY <1>1, <1>2, <1>6 DEF CellsDone
<1>8. ~(n = 0 /\ h # hotkey)
  BY <1>3, <1>5, <1>7
<1>9. n # 0
  BY <1>8
<1>10. positions[i].taoValue # 0 /\ ~(positions[i].taoValue >= BunkerMin)
  BY <1>3, <1>5, <1>7, <1>9
<1>11. BunkerMin \in Nat
  BY PortfolioAssumption
<1>12. positions[i].taoValue \in 1..BunkerMin - 1
  <2> DEFINE v == positions[i].taoValue
  <2>1. v \in Nat /\ v # 0 /\ ~(v >= BunkerMin)
    BY <1>5, <1>10
  <2> HIDE DEF v
  <2>2. v \in 1..BunkerMin - 1
    BY <1>11, <2>1
  <2> QED BY <2>2 DEF v
<1> QED BY <1>1, <1>5, <1>9, <1>12

\* What the script's plan leaves when it is carried out at its own prices.
LEMMA BunkerLeaves ==
  ASSUME NEW netuids \in SUBSET Nat, IsFiniteSet(netuids), 0 \in netuids,
         stake \in [netuids -> [Keys -> Nat]], free \in Nat, useLimits \in BOOLEAN,
         NEW price \in [netuids -> Nat], price[0] = TAO, NEW hotkey \in Keys,
         NEW batch, batch = Submitted(BunkerOperations(StakesAt(price), hotkey), price, useLimits),
         NEW n \in netuids, NEW h \in Keys
  PROVE  DustOnly(Batch(Ledger, batch, price, useLimits, {}).ledger.stake, hotkey, price, n, h)
<1> DEFINE positions == StakesAt(price)
           plan == BunkerOperations(positions, hotkey)
           end == Batch(Ledger, batch, price, useLimits, {})
<1>1. HeldIn(netuids, Keys, stake, positions)
  BY StakesHeld
<1>2. Listed(netuids, Keys, stake, price, positions)
  BY StakesHeld
<1>3. positions \in Seq(Position(netuids, Keys))
  BY <1>1 DEF HeldIn
<1>4. batch = Submitted(plan, price, useLimits)
  OBVIOUS
<1> HIDE DEF positions
<1>5. plan \in Seq(Operation(netuids, Keys))
  BY <1>3, BunkerTyped
<1>6. Planning(netuids, Keys, price, plan, useLimits)
  BY <1>5 DEF Planning
<1>7. plan = BunkerOperations(positions, hotkey)
  OBVIOUS
<1> HIDE DEF plan
<1>8. batch \in Seq(Operation(netuids, Keys)) /\ Len(batch) = Len(plan)
  BY <1>4, <1>6, SubmittedTypes
<1>9. Ledger \in Ledgers(netuids, Keys) /\ Ledger.stake = stake
  BY DEF Ledger, Ledgers
<1>10. RunsThrough(netuids, Keys, batch, price, useLimits, {}, Ledger)
  BY <1>8, <1>9, BatchSteps
<1>11. PICK acc \in [0..Len(batch) -> BatchStates(netuids, Keys)] :
         /\ BatchRun(batch, price, useLimits, {}, Ledger, acc)
         /\ end = acc[Len(batch)]
  BY <1>10 DEF RunsThrough
<1> HIDE DEF end
<1>12. Carrying(netuids, Keys, price, plan, useLimits, acc)
  BY <1>4, <1>6, <1>8, <1>11 DEF Carrying, BatchRun
<1>13. stake = StakeAfter(acc, 0)
  <2>1. acc[0] = [ledger |-> Ledger, ok |-> <<>>]
    BY <1>11 DEF BatchRun
  <2> QED BY <1>9, <2>1 DEF StakeAfter
<1>14. Emptied(netuids, Keys, stake, hotkey,
               CellsDone(positions, Consolidations(positions, hotkey), Len(positions))
                 \cup CellsDone(positions, Leavings(positions, hotkey), Len(positions)),
               StakeAfter(acc, Len(plan)))
  BY <1>1, <1>7, <1>12, <1>13, BunkerRun
<1>15. end.ledger.stake = StakeAfter(acc, Len(plan))
  BY <1>8, <1>11 DEF StakeAfter
<1> DEFINE final == StakeAfter(acc, Len(plan))
<1>16. /\ Emptied(netuids, Keys, stake, hotkey,
               CellsDone(positions, Consolidations(positions, hotkey), Len(positions))
                 \cup CellsDone(positions, Leavings(positions, hotkey), Len(positions)), final)
       /\ end.ledger.stake = final
  BY <1>14, <1>15
<1> HIDE DEF final
<1>17. DustOnly(final, hotkey, price, n, h)
  <2> DEFINE initial == stake
  <2>1. initial \in [netuids -> [Keys -> Nat]]
    OBVIOUS
  <2>2. /\ HeldIn(netuids, Keys, initial, positions)
        /\ Listed(netuids, Keys, initial, price, positions)
        /\ Emptied(netuids, Keys, initial, hotkey,
               CellsDone(positions, Consolidations(positions, hotkey), Len(positions))
                 \cup CellsDone(positions, Leavings(positions, hotkey), Len(positions)), final)
    BY <1>1, <1>2, <1>16
  <2> HIDE DEF initial
  <2> QED BY <2>1, <2>2, EmptiedCell
<1> QED BY <1>16, <1>17 DEF end

-----------------------------------------------------------------------------
(* The inductive invariant.                                                *)

\* Stakes are kept for the subnets and hotkeys there are, in whatever world.
StakeTyped == stake \in [NetuidsOf(world) -> [Keys -> Nat]]
\* A plan is made of operations between them, with the limits of its own simulation.
OpsTyped == ops \in Seq(Operation(NetuidsOf(world), Keys))
OpsLimited == (phase = "submitted" /\ useLimits) => Limited(ops, Prices(planned))

\* As long as a plan of the script waits, it is what the script makes of the wallet at the
\* prices it was planned at: no batch comes between.
ScriptPlanned ==
  (phase = "submitted" /\ bunkers > 0) =>
    \E hotkey \in Keys :
      /\ targets[1].hotkey = hotkey
      /\ ops = Submitted(BunkerOperations(StakesAt(Prices(planned)), hotkey), Prices(planned), useLimits)

PortfolioInv == PortfolioTypeOK /\ StakeTyped /\ OpsTyped /\ OpsLimited /\ ScriptPlanned

\* The plan of one who plans at the prices of the world.
SubmittedOf(plan) == Submitted(plan, Prices(world), useLimits)

LEMMA SubmitIs ==
  ASSUME NEW plan, Submit(plan)
  PROVE  /\ ops' = SubmittedOf(plan) /\ planned' = world
         /\ phase' = IF plan = <<>> THEN "idle" ELSE "submitted"
         /\ churn' = IF plan = <<>> THEN churn ELSE Min({churn + 1, SettleCycles + 1})
BY DEF Submit, SubmittedOf, Submitted

LEMMA SubmitTyped ==
  ASSUME PortfolioTypeOK, StakeTyped, NEW plan \in Seq(Operation(NetuidsOf(world), Keys)),
         Submit(plan)
  PROVE  /\ ops' \in Seq(Operation(NetuidsOf(world), Keys))
         /\ phase' = "submitted" => ops' # <<>>
         /\ useLimits => Limited(ops', Prices(world))
         /\ churn' \in 0..SettleCycles + 1
         /\ phase' \in {"idle", "submitted"} /\ planned' = world
<1> DEFINE netuids == NetuidsOf(world)
           price == Prices(world)
<1>1. world \in DOMAIN World /\ useLimits \in BOOLEAN /\ churn \in 0..SettleCycles + 1
  BY DEF PortfolioTypeOK
<1>2. price \in [netuids -> Nat] /\ price[0] = TAO /\ 0 \in netuids
  BY <1>1, PricesNat, WorldKnown
<1>3. Planning(netuids, Keys, price, plan, useLimits)
  BY <1>1, <1>2 DEF Planning
<1>4. ops' = Submitted(plan, price, useLimits)
  BY SubmitIs DEF SubmittedOf
<1> HIDE DEF netuids, price
<1>5. /\ ops' \in Seq(Operation(netuids, Keys)) /\ Len(ops') = Len(plan)
      /\ useLimits => Limited(ops', price)
  BY <1>3, <1>4, SubmittedTypes
<1>6. phase' = "submitted" => ops' # <<>>
  <2> SUFFICES ASSUME plan # <<>> PROVE ops' # <<>>
    BY SubmitIs
  <2>1. Len(plan) # 0
    OBVIOUS
  <2> QED BY <1>5, <2>1
<1>7. churn' \in 0..SettleCycles + 1
  <2> DEFINE c == churn + 1
             d == SettleCycles + 1
  <2>1. SettleCycles \in Nat
    BY PortfolioAssumption
  <2>2. c \in Int /\ d \in Int /\ c >= 0 /\ d >= 0
    BY <1>1, <2>1
  <2>3. churn' = IF plan = <<>> THEN churn ELSE Min({c, d})
    BY SubmitIs
  <2> HIDE DEF c
  <2>4. Min({c, d}) \in {c, d} /\ Min({c, d}) <= d
    <3> HIDE DEF d
    <3> QED BY <2>2, MinOfTwo
  <2>5. Min({c, d}) \in 0..d
    <3> HIDE DEF d
    <3> QED BY <2>2, <2>4
  <2> QED BY <1>1, <2>3, <2>5
<1>8. phase' \in {"idle", "submitted"} /\ planned' = world
  BY SubmitIs
<1> QED BY <1>5, <1>6, <1>7, <1>8 DEF netuids, price

LEMMA PortfolioInitInv ==
  PortfolioInit => PortfolioInv
<1> SUFFICES ASSUME PortfolioInit PROVE PortfolioInv
  OBVIOUS
<1>1. PICK wallet \in Wallets : free = wallet.free /\ reserved = wallet.reserved /\ stake = wallet.stake
  BY DEF PortfolioInit
<1>2. world \in DOMAIN World /\ planned = world /\ strategy \in Strategies /\ useLimits \in BOOLEAN
      /\ ops = <<>> /\ phase = "idle" /\ churn = 0 /\ moves = 0 /\ refused = 0 /\ bunkers = 0
  BY DEF PortfolioInit
<1>3. wallet.free \in Nat /\ wallet.reserved \in Nat
  BY PortfolioAssumption
<1>4. wallet.stake \in [NetuidsOf(world) -> [Keys -> Nat]]
  BY <1>2, PortfolioAssumption DEF Keys
<1>5. StakeTyped
  BY <1>1, <1>4 DEF StakeTyped
<1>6. \A n \in DOMAIN stake : stake[n] \in [ToSet(Hotkeys) -> Nat]
  BY <1>5 DEF StakeTyped, Keys
<1>7. {BunkerMin, SettleCycles, MaxMoves, MaxRefused, MaxBunkers} \subseteq Nat
  BY PortfolioAssumption
<1>8. 0 \in 0..SettleCycles + 1 /\ 0 \in 0..MaxMoves /\ 0 \in 0..MaxRefused /\ 0 \in 0..MaxBunkers
  BY <1>7
<1>9. PortfolioTypeOK
  BY <1>1, <1>2, <1>3, <1>6, <1>8 DEF PortfolioTypeOK
<1>10. OpsTyped
  <2>1. <<>> \in Seq(Operation(NetuidsOf(world), Keys))
    OBVIOUS
  <2> QED BY <1>2, <2>1 DEF OpsTyped
<1>11. OpsLimited /\ ScriptPlanned
  BY <1>2 DEF OpsLimited, ScriptPlanned
<1> QED BY <1>5, <1>9, <1>10, <1>11 DEF PortfolioInv

\* The script's operations change with the wallet, the prices and the limits only.
LEMMA ScriptStands ==
  ASSUME stake' = stake, useLimits' = useLimits, planned' = planned, NEW hotkey
  PROVE  BunkerOperations(StakesAt(Prices(planned)), hotkey)'
           = BunkerOperations(StakesAt(Prices(planned)), hotkey)
<1>1. Prices(planned)' = Prices(planned)
  BY DEF Prices, Price
<1>2. Holdings' = Holdings
  BY DEF Holdings
<1> DEFINE rates == Prices(planned)
           stakes == StakesAt(rates)
<1>3. stakes' = stakes
  <2>1. rates' = rates
    BY <1>1
  <2> HIDE DEF rates
  <2> QED BY <1>2, <2>1 DEF StakesAt
<1> HIDE DEF stakes
<1>4. BunkerOperations(stakes, hotkey)' = BunkerOperations(stakes, hotkey)
  BY <1>3 DEF BunkerOperations, Consolidate, Leave
<1> QED BY <1>4 DEF stakes

LEMMA WorldMovesInv ==
  ASSUME PortfolioInv, NEW w \in DOMAIN World, WorldMoves(w)
  PROVE  PortfolioInv'
<1>1. /\ PortfolioTypeOK /\ StakeTyped /\ OpsTyped /\ OpsLimited /\ ScriptPlanned
  BY DEF PortfolioInv
<1>2. /\ world' = w /\ moves' = moves + 1 /\ moves < MaxMoves /\ churn' = 0
      /\ planned' = (IF phase = "idle" THEN w ELSE planned)
      /\ UNCHANGED <<strategy, useLimits, free, reserved, stake, targets, ops, phase, refused, bunkers>>
  BY DEF WorldMoves, balances
<1>3. world \in DOMAIN World /\ NetuidsOf(w) = NetuidsOf(world)
  <2>1. world \in DOMAIN World
    BY <1>1 DEF PortfolioTypeOK
  <2> QED BY <2>1, WorldKnown
<1>4. StakeTyped' /\ OpsTyped'
  BY <1>1, <1>2, <1>3 DEF StakeTyped, OpsTyped
<1>5. phase = "submitted" => planned' = planned
  BY <1>2
<1>6. OpsLimited'
  BY <1>1, <1>2, <1>5 DEF OpsLimited
<1>7. ScriptPlanned'
  <2> SUFFICES ASSUME phase = "submitted", bunkers > 0
               PROVE  ScriptPlanned'
    BY <1>2 DEF ScriptPlanned
  <2>1. PICK hotkey \in Keys :
          /\ targets[1].hotkey = hotkey
          /\ ops = Submitted(BunkerOperations(StakesAt(Prices(planned)), hotkey), Prices(planned), useLimits)
    BY <1>1 DEF ScriptPlanned
  <2>2. BunkerOperations(StakesAt(Prices(planned)), hotkey)'
          = BunkerOperations(StakesAt(Prices(planned)), hotkey)
    BY <1>2, <1>5, ScriptStands
  <2>3. Prices(planned)' = Prices(planned)
    BY <1>5 DEF Prices, Price
  <2>4. targets' = targets /\ ops' = ops /\ useLimits' = useLimits
    BY <1>2
  <2>5. ops' = Submitted(BunkerOperations(StakesAt(Prices(planned)), hotkey), Prices(planned), useLimits)'
    BY <2>1, <2>2, <2>3, <2>4 DEF Submitted, Simulated
  <2>6. targets'[1].hotkey = hotkey
    BY <2>1, <2>4
  <2> QED BY <2>5, <2>6 DEF ScriptPlanned
<1>8. PortfolioTypeOK'
  <2>1. moves' \in 0..MaxMoves
    <3>1. moves \in 0..MaxMoves /\ MaxMoves \in Nat
      BY <1>1, PortfolioAssumption DEF PortfolioTypeOK
    <3> QED BY <1>2, <3>1
  <2>2. churn' \in 0..SettleCycles + 1
    <3>1. SettleCycles \in Nat
      BY PortfolioAssumption
    <3> QED BY <1>2, <3>1
  <2>3. planned' \in DOMAIN World
    BY <1>1, <1>2 DEF PortfolioTypeOK
  <2> QED BY <1>1, <1>2, <2>1, <2>2, <2>3 DEF PortfolioTypeOK
<1> QED BY <1>4, <1>6, <1>7, <1>8 DEF PortfolioInv

LEMMA ExecuteBatchInv ==
  ASSUME PortfolioInv, NEW lost \in SUBSET DOMAIN ops, ExecuteBatch(lost)
  PROVE  PortfolioInv'
<1> DEFINE netuids == NetuidsOf(world)
           price == Prices(world)
           end == Batch(Ledger, ops, price, useLimits, lost)
<1>1. /\ PortfolioTypeOK /\ StakeTyped /\ OpsTyped
  BY DEF PortfolioInv
<1>2. /\ refused + Cardinality(lost) <= MaxRefused
      /\ free' = end.ledger.free /\ stake' = end.ledger.stake
      /\ churn' = (IF \A i \in DOMAIN ops : end.ok[i] THEN churn ELSE 0)
      /\ phase' = "idle" /\ targets' = <<>> /\ ops' = <<>> /\ planned' = world
      /\ refused' = refused + Cardinality(lost)
      /\ UNCHANGED <<strategy, useLimits, world, reserved, moves, bunkers>>
  BY DEF ExecuteBatch
<1>3. world \in DOMAIN World /\ free \in Nat
  BY <1>1 DEF PortfolioTypeOK
<1>4. price \in [netuids -> Nat]
  BY <1>3, PricesNat
<1>5. ops \in Seq(Operation(netuids, Keys)) /\ stake \in [netuids -> [Keys -> Nat]]
  BY <1>1 DEF OpsTyped, StakeTyped
<1>6. Ledger \in Ledgers(netuids, Keys)
  BY <1>3, <1>5 DEF Ledger, Ledgers
<1> HIDE DEF netuids, price
<1>7. RunsThrough(netuids, Keys, ops, price, useLimits, lost, Ledger)
  BY <1>4, <1>5, <1>6, BatchSteps
<1>8. end \in BatchStates(netuids, Keys)
  <2>1. PICK acc \in [0..Len(ops) -> BatchStates(netuids, Keys)] : end = acc[Len(ops)]
    BY <1>7 DEF RunsThrough
  <2>2. Len(ops) \in 0..Len(ops)
    BY <1>5
  <2> QED BY <2>1, <2>2
<1> HIDE DEF end
<1>9. free' \in Nat /\ stake' \in [netuids -> [Keys -> Nat]]
  BY <1>2, <1>8 DEF BatchStates, Ledgers
<1>10. StakeTyped'
  BY <1>2, <1>9 DEF StakeTyped, netuids
<1>11. OpsTyped' /\ OpsLimited' /\ ScriptPlanned'
  <2>1. <<>> \in Seq(Operation(NetuidsOf(world'), Keys))
    OBVIOUS
  <2> QED BY <1>2, <2>1 DEF OpsTyped, OpsLimited, ScriptPlanned
<1>12. refused' \in 0..MaxRefused
  <2>1. IsFiniteSet(lost)
    <3>1. DOMAIN ops = 1..Len(ops) /\ Len(ops) \in Nat
      BY <1>5
    <3>2. IsFiniteSet(1..Len(ops))
      BY <3>1, FS_Interval
    <3> QED BY <3>1, <3>2, FS_Subset
  <2>2. Cardinality(lost) \in Nat
    BY <2>1, FS_CardinalityType
  <2>3. refused \in 0..MaxRefused /\ MaxRefused \in Nat
    BY <1>1, PortfolioAssumption DEF PortfolioTypeOK
  <2> DEFINE c == Cardinality(lost)
  <2>4. c \in Nat /\ refused + c <= MaxRefused /\ refused' = refused + c
    BY <1>2, <2>2
  <2> HIDE DEF c
  <2> QED BY <2>3, <2>4
<1>13. churn' \in 0..SettleCycles + 1
  <2>1. SettleCycles \in Nat
    BY PortfolioAssumption
  <2>2. churn \in 0..SettleCycles + 1
    BY <1>1 DEF PortfolioTypeOK
  <2>3. churn' = churn \/ churn' = 0
    BY <1>2
  <2> QED BY <2>1, <2>2, <2>3
<1>14. \A n \in DOMAIN stake' : stake'[n] \in [ToSet(Hotkeys) -> Nat]
  BY <1>9 DEF Keys
<1>15. PortfolioTypeOK'
  BY <1>1, <1>2, <1>9, <1>12, <1>13, <1>14 DEF PortfolioTypeOK
<1> QED BY <1>10, <1>11, <1>15 DEF PortfolioInv

\* What the bot and the script leave as it was.
LEMMA SubmitInv ==
  ASSUME PortfolioInv, NEW plan \in Seq(Operation(NetuidsOf(world), Keys)), Submit(plan),
         UNCHANGED <<strategy, useLimits, world, balances, moves, refused>>,
         bunkers' \in 0..MaxBunkers
  PROVE  PortfolioTypeOK' /\ StakeTyped' /\ OpsTyped' /\ OpsLimited'
<1>1. PortfolioTypeOK /\ StakeTyped
  BY DEF PortfolioInv
<1>2. /\ ops' \in Seq(Operation(NetuidsOf(world), Keys))
      /\ phase' = "submitted" => ops' # <<>>
      /\ useLimits => Limited(ops', Prices(world))
      /\ churn' \in 0..SettleCycles + 1
      /\ phase' \in {"idle", "submitted"} /\ planned' = world
  BY <1>1, SubmitTyped
<1>3. UNCHANGED <<strategy, useLimits, world, free, reserved, stake, moves, refused>>
  BY DEF balances
<1>4. StakeTyped' /\ OpsTyped'
  BY <1>1, <1>2, <1>3 DEF StakeTyped, OpsTyped
<1>5. OpsLimited'
  <2>1. Prices(planned)' = Prices(world)
    BY <1>2 DEF Prices, Price
  <2>2. Limited(ops, Prices(planned))' = Limited(ops', Prices(world))
    BY <2>1 DEF Limited
  <2> QED BY <1>2, <1>3, <2>2 DEF OpsLimited
<1>6. PortfolioTypeOK'
  BY <1>1, <1>2, <1>3 DEF PortfolioTypeOK
<1> QED BY <1>4, <1>5, <1>6

LEMMA RebalanceCycleInv ==
  ASSUME PortfolioInv, RebalanceCycle
  PROVE  PortfolioInv'
<1> DEFINE netuids == NetuidsOf(world)
           price == Prices(world)
           plan == Plan(Balances, targets', useLimits)
<1>1. PortfolioTypeOK /\ StakeTyped
  BY DEF PortfolioInv
<1>2. /\ phase = "idle" /\ bunkers = 0 /\ targets' = GetStrategyTargets /\ Submit(plan)
      /\ UNCHANGED <<strategy, useLimits, world, balances, moves, refused, bunkers>>
  BY DEF RebalanceCycle, bounds
<1>3. world \in DOMAIN World /\ free \in Nat /\ reserved \in Nat /\ useLimits \in BOOLEAN
      /\ strategy \in Strategies /\ bunkers \in 0..MaxBunkers
  BY <1>1 DEF PortfolioTypeOK
<1>4. netuids \in SUBSET Nat /\ IsFiniteSet(netuids) /\ 0 \in netuids
  BY <1>3, WorldKnown
<1>5. price \in [netuids -> Nat]
  BY <1>3, PricesNat
<1>6. stake \in [netuids -> [Keys -> Nat]]
  BY <1>1 DEF StakeTyped
<1>7. targets' \in Seq(Targeted(netuids, Keys))
  BY <1>2, <1>3, <1>6, TargetsTyped
<1> HIDE DEF netuids
<1>8. Stakes \in Seq(Priced(netuids, Keys)) /\ Distinct(Stakes)
  BY <1>4, <1>5, <1>6, StakesTyped DEF Stakes
<1>9. TotalTaoValue \in Nat
  BY <1>3, <1>4, <1>5, <1>6, TotalNat
<1> DEFINE b == Balances
           t == targets'
<1>10. /\ b.free \in Nat /\ b.stakes \in Seq(Priced(netuids, Keys)) /\ Distinct(b.stakes)
       /\ b.totalTaoValue \in Int
  BY <1>3, <1>8, <1>9 DEF Balances
<1>11. plan = Plan(b, t, useLimits) /\ t \in Seq(Targeted(netuids, Keys))
  BY <1>7
<1> HIDE DEF b, t, plan
<1>12. plan \in Seq(Operation(netuids, Keys))
  BY <1>3, <1>4, <1>10, <1>11, PlanTyped
<1>13. plan \in Seq(Operation(NetuidsOf(world), Keys)) /\ bunkers' \in 0..MaxBunkers
  BY <1>2, <1>3, <1>12 DEF netuids
<1>14. PortfolioTypeOK' /\ StakeTyped' /\ OpsTyped' /\ OpsLimited'
  BY <1>2, <1>13, SubmitInv
<1>15. ScriptPlanned'
  <2>1. ~(bunkers' > 0)
    BY <1>2
  <2> QED BY <2>1 DEF ScriptPlanned
<1> QED BY <1>14, <1>15 DEF PortfolioInv

LEMMA BunkerInv ==
  ASSUME PortfolioInv, Bunker
  PROVE  PortfolioInv'
<1> DEFINE metagraph == World[world].metagraph[0]
           hotkey == IF Candidates(metagraph) # {} THEN BestValidator(metagraph).hotkey ELSE Fallback
           plan == BunkerOperations(Stakes, hotkey)
           netuids == NetuidsOf(world)
           price == Prices(world)
<1>1. PortfolioTypeOK /\ StakeTyped
  BY DEF PortfolioInv
<1>2. /\ phase = "idle" /\ bunkers < MaxBunkers /\ bunkers' = bunkers + 1
      /\ hotkey # None /\ targets' = <<Target(0, hotkey, <<1, 1>>)>>
      /\ Submit(plan)
      /\ UNCHANGED <<strategy, useLimits, world, balances, moves, refused>>
  BY DEF Bunker
<1>3. world \in DOMAIN World /\ useLimits \in BOOLEAN /\ bunkers \in 0..MaxBunkers
  BY <1>1 DEF PortfolioTypeOK
<1>4. netuids \in SUBSET Nat /\ IsFiniteSet(netuids) /\ 0 \in netuids
  BY <1>3, WorldKnown
<1>5. price \in [netuids -> Nat]
  BY <1>3, PricesNat
<1>6. stake \in [netuids -> [Keys -> Nat]]
  BY <1>1 DEF StakeTyped
<1>7. hotkey \in Keys
  <2>1. IsWorld(world)
    BY <1>3, PortfolioAssumption
  <2>2. IsFiniteSet(metagraph) /\ \A v \in metagraph : v \in ValidatorsOf(Keys)
    BY <1>4, <2>1 DEF IsWorld, Keys
  <2>3. Candidates(metagraph) # {} => BestValidator(metagraph).hotkey \in Keys
    <3> DEFINE m == metagraph
    <3>1. IsFiniteSet(m) /\ \A v \in m : v \in ValidatorsOf(Keys)
      BY <2>2
    <3> HIDE DEF m
    <3>2. Candidates(m) # {} => BestValidator(m).hotkey \in Keys
      BY <3>1, BestExists
    <3> QED BY <3>2 DEF m
  <2>4. Fallback \in Keys \cup {None}
    BY HotkeysDistinct
  <2> QED BY <1>2, <2>3, <2>4
<1> HIDE DEF hotkey, netuids
<1>8. HeldIn(netuids, Keys, stake, Stakes)
  BY <1>4, <1>5, <1>6, StakesHeld DEF Stakes
<1>9. Stakes \in Seq(Position(netuids, Keys))
  BY <1>8 DEF HeldIn
<1>10. plan \in Seq(Operation(netuids, Keys))
  BY <1>3, <1>4, <1>7, <1>9, BunkerTyped
<1>11. plan \in Seq(Operation(NetuidsOf(world), Keys)) /\ bunkers' \in 0..MaxBunkers
  <2>1. MaxBunkers \in Nat
    BY PortfolioAssumption
  <2>2. bunkers' \in 0..MaxBunkers
    BY <1>2, <1>3, <2>1
  <2> QED BY <1>10, <2>2 DEF netuids
<1>12. PortfolioTypeOK' /\ StakeTyped' /\ OpsTyped' /\ OpsLimited'
  <2> HIDE DEF plan
  <2> QED BY <1>2, <1>11, SubmitInv
<1>13. ScriptPlanned'
  <2>1. targets'[1].hotkey = hotkey
    <3>1. \A x : <<x>>[1] = x
      OBVIOUS
    <3>2. Target(0, hotkey, <<1, 1>>).hotkey = hotkey
      BY DEF Target
    <3> QED BY <1>2, <3>1, <3>2
  <2>2. /\ ops' = Submitted(plan, Prices(world), useLimits) /\ planned' = world
    <3> HIDE DEF plan
    <3> QED BY <1>2, SubmitIs DEF SubmittedOf
  <2>3. /\ world' = world /\ useLimits' = useLimits /\ stake' = stake
    BY <1>2 DEF balances
  <2>4. Prices(planned)' = Prices(world)
    BY <2>2 DEF Prices, Price
  <2>5. plan = BunkerOperations(StakesAt(Prices(world)), hotkey)
    BY DEF Stakes
  <2> HIDE DEF plan
  <2>6. \A k \in Keys : BunkerOperations(StakesAt(Prices(planned)), k)'
                          = BunkerOperations(StakesAt(Prices(world)), k)
    BY <2>2, <2>3 DEF BunkerOperations, StakesAt, Holdings, Consolidate, Leave, Prices, Price
  <2>7. \A k \in Keys : Submitted(BunkerOperations(StakesAt(Prices(planned)), k), Prices(planned), useLimits)'
          = Submitted(BunkerOperations(StakesAt(Prices(world)), k), Prices(world), useLimits)
    BY <2>3, <2>4, <2>6 DEF Submitted, Simulated
  <2> QED BY <1>7, <2>1, <2>2, <2>5, <2>7 DEF ScriptPlanned
<1> QED BY <1>12, <1>13 DEF PortfolioInv

-----------------------------------------------------------------------------
(* What an operation gives within its limit.                               *)

LEMMA TimesLe ==
  ASSUME NEW a \in Int, NEW b \in Int, NEW c \in Nat, a <= b
  PROVE  a * c <= b * c
OBVIOUS

LEMMA TimesCancel ==
  ASSUME NEW a \in Int, NEW b \in Int, NEW c \in Nat, c > 0, a * c <= b * c
  PROVE  a <= b
<1> SUFFICES ASSUME b < a PROVE FALSE
  OBVIOUS
<1>1. b + 1 <= a
  OBVIOUS
<1>2. (b + 1) * c <= a * c
  BY <1>1
<1>3. (b + 1) * c = b * c + c
  OBVIOUS
<1>4. b * c \in Int /\ a * c \in Int
  OBVIOUS
<1> QED BY <1>2, <1>3, <1>4

LEMMA TimesThree ==
  ASSUME NEW a \in Int, NEW b \in Int, NEW c \in Int
  PROVE  (a * b) * c = (a * c) * b /\ (a * b) * c = a * (b * c)
OBVIOUS

LEMMA BufferBounds ==
  ASSUME NEW m \in Nat
  PROVE  /\ BufferUp(m) \in Int /\ 100 * BufferUp(m) <= m * (100 + SlippagePercent)
         /\ BufferDown(m) \in Int /\ m * (100 - SlippagePercent) <= 100 * BufferDown(m)
<1>1. SlippagePercent \in Nat
  BY Config
<1> DEFINE x == m * SlippagePercent
           y == x \div 100
<1>2. x \in Nat
  BY <1>1
<1>3. BufferUp(m) = m + y /\ BufferDown(m) = m - y
  BY DEF BufferUp, BufferDown, Percent
<1>4. m * (100 + SlippagePercent) = 100 * m + x /\ m * (100 - SlippagePercent) = 100 * m - x
  BY <1>1
<1> HIDE DEF x
<1>5. y \in Nat /\ y * 100 <= x
  BY <1>2, Division
<1> HIDE DEF y
<1> QED BY <1>2, <1>3, <1>4, <1>5

\* What is bought for total below a limit near the price m.
LEMMA BuyFill ==
  ASSUME NEW a \in Nat, NEW b \in Nat, NEW m \in Nat, NEW limit \in Int, NEW pn \in Nat,
         NEW total \in Nat, NEW s \in Nat,
         pn > 0, pn <= limit, 100 * limit <= m * (100 + s), m * a <= total, total < b * pn + pn
  PROVE  (b + 1) * (100 + s) >= a * 100
<1> DEFINE w == 100 + s
<1>1. w \in Nat /\ w > 0
  OBVIOUS
<1>2. 100 * pn <= m * w
  <2>1. 100 * pn <= 100 * limit
    OBVIOUS
  <2>2. 100 * pn \in Int /\ m * w \in Int /\ 100 * limit \in Int
    BY <1>1
  <2> QED BY <2>1, <2>2
<1> HIDE DEF w
<1>3. (100 * pn) * a <= (m * w) * a
  <2>1. 100 * pn \in Int /\ m * w \in Int
    BY <1>1
  <2> QED BY <1>2, <2>1, TimesLe
<1>4. (m * w) * a = (m * a) * w
  BY <1>1, TimesThree
<1>5. (m * a) * w <= total * w
  <2>1. m * a \in Int
    OBVIOUS
  <2> QED BY <1>1, <2>1, TimesLe
<1>6. total * w <= ((b + 1) * pn) * w
  <2>1. (b + 1) * pn = b * pn + pn /\ (b + 1) * pn \in Int
    OBVIOUS
  <2>2. total <= (b + 1) * pn
    BY <2>1
  <2> QED BY <1>1, <2>1, <2>2, TimesLe
<1>7. (100 * a) * pn <= ((b + 1) * w) * pn
  <2>1. (100 * pn) * a = (100 * a) * pn
    BY TimesThree
  <2>2. ((b + 1) * pn) * w = ((b + 1) * w) * pn
    BY <1>1, TimesThree
  <2>3. /\ (100 * pn) * a \in Int /\ (m * a) * w \in Int /\ total * w \in Int
        /\ ((b + 1) * pn) * w \in Int
    BY <1>1
  <2> QED BY <1>3, <1>4, <1>5, <1>6, <2>1, <2>2, <2>3
<1>8. 100 * a <= (b + 1) * w
  <2>1. 100 * a \in Int /\ (b + 1) * w \in Int
    BY <1>1
  <2> QED BY <1>7, <2>1, TimesCancel
<1>9. a * 100 = 100 * a /\ 100 * a \in Int /\ (b + 1) * w \in Int
  BY <1>1
<1> QED BY <1>8, <1>9 DEF w

\* The alpha that is sold is worth what was promised for it, rounding apart.
LEMMA WholeUnits ==
  ASSUME NEW d \in Nat, NEW c \in Nat, NEW m \in Nat, NEW x \in Nat, NEW t \in Nat,
         d * t < m * x + x, x < c * t + t
  PROVE  (d - c - 1) * t <= m * x
<1>1. (d - c - 1) * t = d * t - c * t - t
  OBVIOUS
<1>2. d * t \in Int /\ c * t \in Int /\ m * x \in Int
  OBVIOUS
<1> QED BY <1>1, <1>2

LEMMA SlippageRoom ==
  ASSUME NEW d \in Nat, NEW c \in Nat, NEW r \in Nat, NEW s \in Nat,
         s < 100 => (d - c - 1) * (100 - s) <= 100 * r
  PROVE  (r + c + 1) * 100 >= d * (100 - s)
<1> DEFINE e == c + 1
<1>1. (r + e) * 100 = 100 * r + 100 * e
  OBVIOUS
<1>2. e * s \in Nat /\ e \in Nat
  OBVIOUS
<1>3. CASE s < 100
  <2>1. d * (100 - s) = (d - e) * (100 - s) + 100 * e - e * s
    OBVIOUS
  <2>2. (d - e) * (100 - s) <= 100 * r
    <3>1. d - e = d - c - 1
      OBVIOUS
    <3> QED BY <1>3, <3>1
  <2>3. (d - e) * (100 - s) \in Int /\ d * (100 - s) \in Int
    OBVIOUS
  <2>4. (r + e) * 100 >= d * (100 - s)
    <3> HIDE DEF e
    <3> QED BY <1>1, <1>2, <2>1, <2>2, <2>3
  <2>5. r + e = r + c + 1
    OBVIOUS
  <2> QED BY <2>4, <2>5
<1>4. CASE s >= 100
  <2>1. d * (100 - s) <= 0
    <3>1. 100 - s <= 0 /\ 100 - s \in Int /\ 0 * d = 0
      BY <1>4
    <3>2. (100 - s) * d <= 0 * d
      BY <3>1, TimesLe
    <3> QED BY <3>1, <3>2
  <2>2. (r + e) * 100 >= 0
    BY <1>1, <1>2
  <2>3. (r + e) * 100 \in Int /\ d * (100 - s) \in Int
    OBVIOUS
  <2>4. (r + e) * 100 >= d * (100 - s)
    <3> HIDE DEF e
    <3> QED BY <2>1, <2>2, <2>3
  <2>5. r + e = r + c + 1
    OBVIOUS
  <2> QED BY <2>4, <2>5
<1> QED BY <1>3, <1>4

\* What x is sold for above a limit near the price m.
LEMMA SellFill ==
  ASSUME NEW d \in Nat, NEW b \in Nat, NEW c \in Nat, NEW m \in Nat, NEW limit \in Int,
         NEW pn \in Nat, NEW x \in Nat, NEW t \in Nat, NEW s \in Nat,
         t > 0, limit <= pn, m * (100 - s) <= 100 * limit,
         d * t < m * x + x, x * pn < b * t + t, x < c * t + t
  PROVE  (b + 2 + c) * 100 >= d * (100 - s)
<1> DEFINE k == d - c - 1
           r == b + 1
<1>1. ASSUME s < 100 PROVE k * (100 - s) <= 100 * r
  <2> DEFINE v == 100 - s
  <2>1. v \in Nat /\ k \in Int /\ r \in Nat
    BY <1>1
  <2>2. k * t <= m * x
    BY WholeUnits
  <2>3. m * v <= 100 * pn
    <3>1. m * v \in Int
      BY <2>1
    <3> QED BY <3>1
  <2>4. x * pn <= r * t
    <3>1. r * t = b * t + t /\ x * pn \in Int /\ b * t \in Int
      OBVIOUS
    <3> QED BY <3>1
  <2> HIDE DEF v, k, r
  <2>5. (k * t) * v <= (m * x) * v
    <3>1. k * t \in Int /\ m * x \in Int
      BY <2>1
    <3> QED BY <2>1, <2>2, <3>1, TimesLe
  <2>6. (m * v) * x <= (100 * pn) * x
    <3>1. m * v \in Int /\ 100 * pn \in Int
      BY <2>1
    <3> QED BY <2>3, <3>1, TimesLe
  <2>7. (x * pn) * 100 <= (r * t) * 100
    <3>1. x * pn \in Int /\ r * t \in Int
      BY <2>1
    <3> QED BY <2>4, <3>1
  <2>8. /\ (k * t) * v = (k * v) * t /\ (m * x) * v = (m * v) * x
        /\ (100 * pn) * x = (x * pn) * 100 /\ (r * t) * 100 = (100 * r) * t
    BY <2>1
  <2>9. /\ (k * v) * t \in Int /\ (m * v) * x \in Int /\ (x * pn) * 100 \in Int
        /\ (100 * r) * t \in Int
    BY <2>1
  <2>10. (k * v) * t <= (100 * r) * t
    BY <2>5, <2>6, <2>7, <2>8, <2>9
  <2>11. k * v <= 100 * r
    <3>1. k * v \in Int /\ 100 * r \in Int
      BY <2>1
    <3> QED BY <2>10, <3>1, TimesCancel
  <2> QED BY <2>11 DEF v
<1>2. (r + c + 1) * 100 >= d * (100 - s)
  <2>1. r \in Nat /\ (s < 100 => (d - c - 1) * (100 - s) <= 100 * r)
    BY <1>1
  <2> HIDE DEF r
  <2> QED BY <2>1, SlippageRoom
<1>3. r + c + 1 = b + 2 + c
  OBVIOUS
<1> QED BY <1>2, <1>3

\* What x is swapped for above a limit near the ratio m: y is what it is sold for
\* on the way.
LEMMA SwapFill ==
  ASSUME NEW d \in Nat, NEW b \in Nat, NEW c \in Nat, NEW e \in Nat, NEW m \in Nat,
         NEW limit \in Int, NEW pn \in Nat, NEW qn \in Nat, NEW x \in Nat, NEW y \in Nat,
         NEW t \in Nat, NEW s \in Nat,
         t > 0, qn > 0, limit * qn <= pn * t, m * (100 - s) <= 100 * limit,
         d * t < m * x + x, x < c * t + t,
         x * pn < y * t + t, y * t < b * qn + qn, t < e * qn + qn
  PROVE  (b + 3 + c + e) * 100 >= d * (100 - s)
<1> DEFINE k == d - c - 1
           r == b + e + 2
<1>1. ASSUME s < 100 PROVE k * (100 - s) <= 100 * r
  <2> DEFINE v == 100 - s
             z == y * t + t
  <2>1. v \in Nat /\ k \in Int /\ r \in Nat /\ z \in Nat
    BY <1>1
  <2>2. k * t <= m * x
    BY WholeUnits
  <2>3. x * pn <= z
    <3>1. x * pn \in Int
      OBVIOUS
    <3> QED BY <2>1, <3>1
  <2>4. z <= r * qn
    <3>1. r * qn = b * qn + e * qn + qn + qn
      OBVIOUS
    <3>2. b * qn \in Int /\ e * qn \in Int /\ y * t \in Int
      OBVIOUS
    <3> QED BY <3>1, <3>2
  <2> HIDE DEF k, r, z
  <2>5. (m * v) * qn <= (100 * limit) * qn
    <3>1. m * v \in Int /\ 100 * limit \in Int
      BY <2>1
    <3> QED BY <3>1, TimesLe
  <2> HIDE DEF v
  <2>6. (100 * limit) * qn <= (100 * pn) * t
    <3>1. (100 * limit) * qn = 100 * (limit * qn) /\ (100 * pn) * t = 100 * (pn * t)
      OBVIOUS
    <3>2. limit * qn \in Int /\ pn * t \in Int
      OBVIOUS
    <3> QED BY <3>1, <3>2
  <2>7. (m * v) * qn <= (100 * pn) * t
    <3>1. (m * v) * qn \in Int /\ (100 * limit) * qn \in Int /\ (100 * pn) * t \in Int
      BY <2>1
    <3> QED BY <2>5, <2>6, <3>1
  <2> DEFINE w == v * qn
  <2>8. w \in Nat
    BY <2>1
  <2>9. (m * v) * qn = m * w
    BY <2>1, TimesThree
  <2> HIDE DEF w
  <2>10. (k * t) * w <= (m * x) * w
    <3>1. k * t \in Int /\ m * x \in Int
      BY <2>1
    <3> QED BY <2>2, <2>8, <3>1, TimesLe
  <2>11. (m * w) * x <= ((100 * pn) * t) * x
    <3>1. m * w \in Int /\ (100 * pn) * t \in Int /\ m * w <= (100 * pn) * t
      BY <2>7, <2>8, <2>9
    <3> QED BY <3>1, TimesLe
  <2>12. ((100 * pn) * t) * x = ((x * pn) * 100) * t
    OBVIOUS
  <2>13. ((x * pn) * 100) * t <= (z * 100) * t
    <3>1. x * pn \in Int /\ (x * pn) * 100 \in Int /\ z * 100 \in Int
      BY <2>1
    <3>2. (x * pn) * 100 <= z * 100
      BY <2>1, <2>3, <3>1
    <3> QED BY <3>1, <3>2, TimesLe
  <2>14. (k * w) * t <= (z * 100) * t
    <3>1. (k * t) * w = (k * w) * t /\ (m * x) * w = (m * w) * x
      BY <2>1, <2>8, TimesThree
    <3>2. /\ (k * w) * t \in Int /\ (m * w) * x \in Int /\ ((x * pn) * 100) * t \in Int
          /\ (z * 100) * t \in Int
      BY <2>1, <2>8
    <3> QED BY <2>10, <2>11, <2>12, <2>13, <3>1, <3>2
  <2>15. k * w <= z * 100
    <3>1. k * w \in Int /\ z * 100 \in Int
      BY <2>1, <2>8
    <3> QED BY <2>14, <3>1, TimesCancel
  <2>16. (k * v) * qn <= (100 * r) * qn
    <3>1. k * w = (k * v) * qn
      BY <2>1, TimesThree DEF w
    <3>2. z * 100 <= (r * qn) * 100
      <4>1. r * qn \in Int
        BY <2>1
      <4> QED BY <2>1, <2>4, <4>1
    <3>3. (r * qn) * 100 = (100 * r) * qn
      BY <2>1
    <3>4. (k * v) * qn \in Int /\ z * 100 \in Int /\ (100 * r) * qn \in Int
      BY <2>1
    <3> QED BY <2>15, <3>1, <3>2, <3>3, <3>4
  <2>17. k * v <= 100 * r
    <3>1. k * v \in Int /\ 100 * r \in Int
      BY <2>1
    <3> QED BY <2>16, <3>1, TimesCancel
  <2> QED BY <2>17 DEF v
<1>2. (r + c + 1) * 100 >= d * (100 - s)
  <2>1. r \in Nat /\ (s < 100 => (d - c - 1) * (100 - s) <= 100 * r)
    BY <1>1
  <2> HIDE DEF r
  <2> QED BY <2>1, SlippageRoom
<1>3. r + c + 1 = b + 3 + c + e
  OBVIOUS
<1> QED BY <1>2, <1>3

LEMMA StakeFillNear ==
  ASSUME NEW o \in Nat, NEW p \in Nat, NEW pn \in Nat, pn > 0,
         NEW limit \in Int, pn <= limit,
         limit = IF TaoToAlpha(o, p) = 0 THEN 0 ELSE BufferUp((o * TAO) \div TaoToAlpha(o, p))
  PROVE  (TaoToAlpha(o, pn) + 1) * (100 + SlippagePercent)
           >= TaoToAlpha(o, p) * 100
<1> DEFINE total == o * TAO
           a == TaoToAlpha(o, p)
           b == TaoToAlpha(o, pn)
           m == total \div a
           s == SlippagePercent
<1>1. total \in Nat /\ s \in Nat
  BY Config
<1>2. a \in Nat /\ b \in Nat
  BY ConversionsNat
<1>3. a # 0
  <2> HIDE DEF a
  <2>1. limit = IF a = 0 THEN 0 ELSE BufferUp((o * TAO) \div a)
    BY DEF a
  <2> QED BY <2>1
<1>4. b = total \div pn
  BY DEF TaoToAlpha
<1>5. limit = BufferUp(m)
  BY <1>3
<1> HIDE DEF total, a
<1>6. m \in Nat /\ m * a <= total
  <2>1. a \in Nat \ {0}
    BY <1>2, <1>3
  <2> QED BY <1>1, <2>1, Division
<1>7. total < b * pn + pn
  <2>1. pn \in Nat \ {0}
    OBVIOUS
  <2>2. total < (total \div pn) * pn + pn
    BY <1>1, <2>1, Division
  <2> QED BY <1>4, <2>2
<1> HIDE DEF m, b
<1>8. 100 * limit <= m * (100 + s)
  BY <1>5, <1>6, BufferBounds
<1> HIDE DEF s
<1>9. (b + 1) * (100 + s) >= a * 100
  BY <1>1, <1>2, <1>6, <1>7, <1>8, BuyFill
<1> QED BY <1>9 DEF a, b, s

\* A quotient by an amount, and how close it comes.
LEMMA AverageBounds ==
  ASSUME NEW d \in Nat, NEW x \in Nat, x # 0
  PROVE  /\ (d * TAO) \div x \in Nat
         /\ d * TAO < ((d * TAO) \div x) * x + x
<1> DEFINE y == d * TAO
<1>1. y \in Nat /\ x \in Nat \ {0}
  BY Config
<1> HIDE DEF y
<1>2. y \div x \in Nat /\ y < (y \div x) * x + x
  BY <1>1, Division
<1> QED BY <1>2 DEF y

LEMMA SoldBounds ==
  ASSUME NEW x \in Nat, NEW price \in Nat
  PROVE  /\ AlphaToTao(x, price) \in Nat
         /\ x * price < AlphaToTao(x, price) * TAO + TAO
         /\ x \div TAO \in Nat /\ x < (x \div TAO) * TAO + TAO
         /\ TAO \in Nat /\ TAO > 0
<1> DEFINE y == x * price
<1>1. y \in Nat /\ TAO \in Nat \ {0}
  BY Config
<1> HIDE DEF y
<1>2. y \div TAO \in Nat /\ y < (y \div TAO) * TAO + TAO
  BY <1>1, Division
<1>3. x \div TAO \in Nat /\ x < (x \div TAO) * TAO + TAO
  BY <1>1, Division
<1> QED BY <1>1, <1>2, <1>3 DEF y, AlphaToTao

LEMMA UnstakeFillNear ==
  ASSUME NEW x \in Nat, NEW p \in Nat, NEW pn \in Nat,
         NEW limit \in Int, limit <= pn,
         limit = IF AlphaToTao(x, p) = 0 THEN 0 ELSE BufferDown((AlphaToTao(x, p) * TAO) \div x)
  PROVE  (AlphaToTao(x, pn) + (2 + x \div TAO)) * 100
           >= AlphaToTao(x, p) * (100 - SlippagePercent)
<1> DEFINE d == AlphaToTao(x, p)
           b == AlphaToTao(x, pn)
           c == x \div TAO
           m == (d * TAO) \div x
           s == SlippagePercent
<1>1. s \in Nat
  BY Config
<1>2. d \in Nat
  BY ConversionsNat
<1>3. b \in Nat /\ x * pn < b * TAO + TAO /\ c \in Nat /\ x < c * TAO + TAO /\ TAO \in Nat /\ TAO > 0
  BY SoldBounds
<1>4. limit = IF d = 0 THEN 0 ELSE BufferDown(m)
  OBVIOUS
<1>5. d # 0 => x # 0
  BY NothingForNothing
<1> HIDE DEF d, b, c, s
<1>6. CASE d = 0
  <2>1. d * (100 - s) = 0
    BY <1>1, <1>6
  <2>2. (b + (2 + c)) * 100 \in Nat
    BY <1>1, <1>3
  <2>3. (b + (2 + c)) * 100 >= d * (100 - s)
    BY <2>1, <2>2
  <2> QED BY <2>3 DEF d, b, c, s
<1>7. CASE d # 0
  <2>1. m \in Nat /\ d * TAO < m * x + x
    BY <1>2, <1>5, <1>7, AverageBounds
  <2>2. limit = BufferDown(m)
    BY <1>4, <1>7
  <2> HIDE DEF m
  <2>3. m * (100 - s) <= 100 * limit
    BY <2>1, <2>2, BufferBounds DEF s
  <2>4. (b + 2 + c) * 100 >= d * (100 - s)
    BY <1>1, <1>2, <1>3, <2>1, <2>3, SellFill
  <2>5. b + 2 + c = b + (2 + c)
    BY <1>3
  <2>6. (b + (2 + c)) * 100 >= d * (100 - s)
    BY <2>4, <2>5
  <2> QED BY <2>6 DEF d, b, c, s
<1> QED BY <1>6, <1>7

LEMMA SwapFillNear ==
  ASSUME NEW x \in Nat, NEW p \in Nat, NEW q \in Nat, NEW pn \in Nat, NEW qn \in Nat, qn > 0,
         NEW limit \in Int, pn * TAO >= limit * qn,
         NEW d, d = TaoToAlpha(AlphaToTao(x, p), q),
         limit = IF AlphaToTao(x, p) = 0 \/ d = 0 THEN 0 ELSE BufferDown((d * TAO) \div x)
  PROVE  (TaoToAlpha(AlphaToTao(x, pn), qn) + (3 + x \div TAO + TAO \div qn)) * 100
           >= d * (100 - SlippagePercent)
<1> DEFINE y == AlphaToTao(x, pn)
           b == TaoToAlpha(y, qn)
           c == x \div TAO
           e == TAO \div qn
           m == (d * TAO) \div x
           s == SlippagePercent
<1>1. s \in Nat
  BY Config
<1>2. d \in Nat
  <2>1. AlphaToTao(x, p) \in Nat
    BY ConversionsNat
  <2> QED BY <2>1, ConversionsNat
<1>3. y \in Nat /\ x * pn < y * TAO + TAO /\ c \in Nat /\ x < c * TAO + TAO /\ TAO \in Nat /\ TAO > 0
  BY SoldBounds
<1> HIDE DEF y
<1>4. b \in Nat /\ y * TAO < b * qn + qn
  <2> DEFINE z == y * TAO
  <2>1. z \in Nat /\ qn \in Nat \ {0}
    BY <1>3
  <2> HIDE DEF z
  <2>2. z \div qn \in Nat /\ z < (z \div qn) * qn + qn
    BY <2>1, Division
  <2>3. b = z \div qn
    BY DEF TaoToAlpha, z
  <2> QED BY <2>2, <2>3 DEF z
<1>5. e \in Nat /\ TAO < e * qn + qn
  <2>1. qn \in Nat \ {0}
    OBVIOUS
  <2> QED BY <1>3, <2>1, Division
<1>6. d # 0 => x # 0 /\ AlphaToTao(x, p) # 0
  <2> SUFFICES ASSUME d # 0 PROVE AlphaToTao(x, p) # 0 /\ x # 0
    OBVIOUS
  <2>1. AlphaToTao(x, p) # 0
    <3> SUFFICES ASSUME AlphaToTao(x, p) = 0 PROVE d = 0
      OBVIOUS
    <3>1. 0 * TAO = 0
      BY Config
    <3>2. q > 0 => 0 \div q = 0
      OBVIOUS
    <3> QED BY <3>1, <3>2 DEF TaoToAlpha
  <2>2. x # 0
    BY <2>1, NothingForNothing
  <2> QED BY <2>1, <2>2
<1> HIDE DEF b, c, e, s
<1> DEFINE u == 3 + c + e
<1>7. CASE d = 0
  <2>1. d * (100 - s) = 0
    BY <1>1, <1>7
  <2>2. (b + u) * 100 \in Nat
    BY <1>1, <1>3, <1>4, <1>5
  <2>3. (b + u) * 100 >= d * (100 - s)
    BY <2>1, <2>2
  <2> QED BY <2>3 DEF y, b, c, e, s
<1>8. CASE d # 0
  <2>1. m \in Nat /\ d * TAO < m * x + x
    BY <1>2, <1>6, <1>8, AverageBounds
  <2>2. limit = BufferDown(m)
    BY <1>6, <1>8
  <2> HIDE DEF m
  <2>3. m * (100 - s) <= 100 * limit
    BY <2>1, <2>2, BufferBounds DEF s
  <2>4. limit * qn <= pn * TAO
    <3>1. limit * qn \in Int /\ pn * TAO \in Int
      BY <1>3
    <3> QED BY <3>1
  <2>5. (b + 3 + c + e) * 100 >= d * (100 - s)
    BY <1>1, <1>2, <1>3, <1>4, <1>5, <2>1, <2>3, <2>4, SwapFill
  <2>6. b + 3 + c + e = b + u
    BY <1>3, <1>4, <1>5
  <2>7. (b + u) * 100 >= d * (100 - s)
    BY <2>5, <2>6
  <2> QED BY <2>7 DEF y, b, c, e, s
<1> QED BY <1>7, <1>8

-----------------------------------------------------------------------------

\* PortfolioInv is inductive.
LEMMA PortfolioNextInv ==
  PortfolioInv /\ [PortfolioNext]_portfolioVars => PortfolioInv'
<1> SUFFICES ASSUME PortfolioInv, [PortfolioNext]_portfolioVars PROVE PortfolioInv'
  OBVIOUS
<1>1. CASE \E w \in DOMAIN World : WorldMoves(w)
  BY <1>1, WorldMovesInv
<1>2. CASE \E lost \in SUBSET DOMAIN ops : ExecuteBatch(lost)
  BY <1>2, ExecuteBatchInv
<1>3. CASE RebalanceCycle
  BY <1>3, RebalanceCycleInv
<1>4. CASE Bunker
  BY <1>4, BunkerInv
<1>5. CASE UNCHANGED portfolioVars
  <2>1. UNCHANGED <<strategy, useLimits, world, free, reserved, stake, targets, ops, planned,
                    phase, churn, moves, refused, bunkers>>
    BY <1>5 DEF portfolioVars, balances, bounds
  <2>2. PortfolioTypeOK' <=> PortfolioTypeOK
    BY <2>1 DEF PortfolioTypeOK
  <2>3. (StakeTyped' <=> StakeTyped) /\ (OpsTyped' <=> OpsTyped)
    BY <2>1 DEF StakeTyped, OpsTyped
  <2>4. Prices(planned)' = Prices(planned)
    BY <2>1 DEF Prices, Price
  <2>5. OpsLimited' <=> OpsLimited
    BY <2>1, <2>4 DEF OpsLimited, Limited
  <2>6. \A k \in Keys : BunkerOperations(StakesAt(Prices(planned)), k)'
                          = BunkerOperations(StakesAt(Prices(planned)), k)
    BY <2>1, ScriptStands
  <2>7. \A k \in Keys : Submitted(BunkerOperations(StakesAt(Prices(planned)), k), Prices(planned), useLimits)'
          = Submitted(BunkerOperations(StakesAt(Prices(planned)), k), Prices(planned), useLimits)
    BY <2>1, <2>4, <2>6 DEF Submitted, Simulated
  <2>8. ScriptPlanned' <=> ScriptPlanned
    BY <2>1, <2>7 DEF ScriptPlanned
  <2> QED BY <2>2, <2>3, <2>5, <2>8 DEF PortfolioInv
<1> QED BY <1>1, <1>2, <1>3, <1>4, <1>5 DEF PortfolioNext

LEMMA InvBunkerEmpties ==
  PortfolioInv => BunkerEmpties
<1> SUFFICES ASSUME PortfolioInv, SubmittedNow, bunkers > 0,
                    NEW n \in DOMAIN stake, NEW h \in ToSet(Hotkeys)
             PROVE  LET left == Planned.ledger.stake[n][h]
                    IN \/ n = 0 /\ h = targets[1].hotkey
                       \/ left = 0
                       \/ n # 0 /\ AlphaToTao(left, Prices(world)[n]) \in 1..BunkerMin - 1
  BY DEF BunkerEmpties
<1> DEFINE netuids == NetuidsOf(world)
           price == Prices(world)
<1>1. phase = "submitted" /\ planned = world /\ PortfolioTypeOK /\ StakeTyped /\ ScriptPlanned
  BY DEF SubmittedNow, PortfolioInv
<1>2. world \in DOMAIN World /\ useLimits \in BOOLEAN /\ free \in Nat
  BY <1>1 DEF PortfolioTypeOK
<1>3. netuids \in SUBSET Nat /\ IsFiniteSet(netuids) /\ 0 \in netuids
  BY <1>2, WorldKnown
<1>4. price \in [netuids -> Nat] /\ price[0] = TAO
  BY <1>2, PricesNat
<1>5. stake \in [netuids -> [Keys -> Nat]]
  BY <1>1 DEF StakeTyped
<1>6. n \in netuids /\ h \in Keys
  BY <1>5 DEF Keys
<1>7. PICK hotkey \in Keys :
        /\ targets[1].hotkey = hotkey
        /\ ops = Submitted(BunkerOperations(StakesAt(Prices(planned)), hotkey), Prices(planned), useLimits)
  BY <1>1 DEF ScriptPlanned
<1>8. ops = Submitted(BunkerOperations(StakesAt(price), hotkey), price, useLimits)
  BY <1>1, <1>7
<1>9. Planned = Batch(Ledger, ops, price, useLimits, {})
  BY <1>1 DEF Planned
<1> HIDE DEF netuids, price
<1>10. DustOnly(Batch(Ledger, ops, price, useLimits, {}).ledger.stake, hotkey, price, n, h)
  BY <1>2, <1>3, <1>4, <1>5, <1>6, <1>8, BunkerLeaves
<1> QED BY <1>7, <1>9, <1>10 DEF price, DustOnly

\* Whatever the strategies ask for and the chain does in between, the bot's state keeps
\* its types: no balance and no stake ever falls below nothing (PortfolioTypeOK).
THEOREM PortfolioTyped == PortfolioSpec => []PortfolioTypeOK
<1>1. PortfolioInv => PortfolioTypeOK
  BY DEF PortfolioInv
<1> QED BY <1>1, PortfolioInitInv, PortfolioNextInv, PTL DEF PortfolioSpec

\* Whatever a strategy asks for, an operation that is submitted is of a kind the chain
\* knows, between known subnets and hotkeys and for an amount not below nothing, and with
\* limits in use it has the one of its own simulation at the prices it was planned at
\* (computeRebalance, simulateAllOperations).
THEOREM PlansWellFormed == PortfolioSpec => [](OpsTyped /\ OpsLimited)
<1>1. PortfolioInv => OpsTyped /\ OpsLimited
  BY DEF PortfolioInv
<1> QED BY <1>1, PortfolioInitInv, PortfolioNextInv, PTL DEF PortfolioSpec

\* The plan of the bunker script, for any wallet, prices, minimum and number of hotkeys,
\* leaves nothing outside one hotkey of root but positions worth less than the minimum
\* (buildOperations of bunker.ts).
THEOREM BunkerLeavesDust == PortfolioSpec => []BunkerEmpties
BY InvBunkerEmpties, PortfolioInitInv, PortfolioNextInv, PTL DEF PortfolioSpec

\* What an operation gives at some prices, and what the rounding of its limit may
\* cost it.
Gives(op, price) ==
  CASE op.kind = "stake" -> TaoToAlpha(op.tao, price[op.netuid])
    [] op.kind = "swap" ->
         TaoToAlpha(AlphaToTao(op.alpha, price[op.netuid]), price[op.destination])
    [] OTHER -> AlphaToTao(op.alpha, price[op.netuid])

RoundingUnit(op, actual) ==
  CASE op.kind = "stake" -> 1
    [] op.kind = "swap" -> 3 + op.alpha \div TAO + TAO \div actual[op.destination]
    [] OTHER -> 2 + op.alpha \div TAO

FillsNear(op, actual, expected) ==
  LET given == Gives(op, actual) + RoundingUnit(op, actual)
  IN IF op.kind = "stake"
     THEN given * (100 + SlippagePercent) >= Gives(op, expected) * 100
     ELSE given * 100 >= Gives(op, expected) * (100 - SlippagePercent)

LEMMA FillsNearPlanIs ==
  FillsNearPlan <=>
    ((phase = "submitted" /\ useLimits) =>
       \A i \in DOMAIN ops :
         ops[i].kind # "move" /\ WithinLimit(ops[i], Prices(world), TRUE) =>
           FillsNear(ops[i], Prices(world), Prices(planned)))
BY DEF FillsNearPlan, FillsNear, Gives, RoundingUnit

LEMMA LimitIs ==
  ASSUME NEW op, NEW price
  PROVE  /\ op.kind = "stake" =>
              LimitPrice(op, price) =
                LET a == TaoToAlpha(op.tao, price[op.netuid])
                IN IF a = 0 THEN 0 ELSE BufferUp((op.tao * TAO) \div a)
         /\ op.kind \in {"unstake", "unstake_partial"} =>
              LimitPrice(op, price) =
                LET t == AlphaToTao(op.alpha, price[op.netuid])
                IN IF t = 0 THEN 0 ELSE BufferDown((t * TAO) \div op.alpha)
         /\ op.kind = "swap" =>
              LimitPrice(op, price) =
                LET t == AlphaToTao(op.alpha, price[op.netuid])
                    d == TaoToAlpha(t, price[op.destination])
                IN IF t = 0 \/ d = 0 THEN 0 ELSE BufferDown((d * TAO) \div op.alpha)
<1> DEFINE a == TaoToAlpha(op.tao, price[op.netuid])
           t == AlphaToTao(op.alpha, price[op.netuid])
           d == TaoToAlpha(t, price[op.destination])
           x == IF a = 0 THEN 0 ELSE BufferUp((op.tao * TAO) \div a)
           y == IF t = 0 THEN 0 ELSE BufferDown((t * TAO) \div op.alpha)
           z == IF t = 0 \/ d = 0 THEN 0 ELSE BufferDown((d * TAO) \div op.alpha)
<1>1. LimitPrice(op, price) =
        CASE op.kind = "stake" -> x
          [] op.kind \in {"unstake", "unstake_partial"} -> y
          [] op.kind = "swap" -> z
  BY DEF LimitPrice
<1> HIDE DEF x, y, z
<1>2. op.kind = "stake" => LimitPrice(op, price) = x
  BY <1>1
<1>3. op.kind \in {"unstake", "unstake_partial"} => LimitPrice(op, price) = y
  BY <1>1
<1>4. op.kind = "swap" => LimitPrice(op, price) = z
  BY <1>1
<1> QED BY <1>2, <1>3, <1>4 DEF x, y, z

LEMMA OperationFillsNear ==
  ASSUME NEW netuids, NEW hotkeys, NEW op \in Operation(netuids, hotkeys), op.kind # "move",
         NEW actual \in [netuids -> Nat], NEW expected \in [netuids -> Nat],
         op.limit = LimitPrice(op, expected), WithinLimit(op, actual, TRUE)
  PROVE  FillsNear(op, actual, expected)
<1>1. op.kind \in {"swap", "unstake", "unstake_partial", "stake"}
  BY Kinds
<1>2. CASE op.kind = "stake"
  <2>1. op.tao \in Nat /\ op.netuid \in netuids /\ op.limit \in Int
    BY <1>2, Kinds DEF StakeOps
  <2> DEFINE o == op.tao
             p == expected[op.netuid]
             pn == actual[op.netuid]
             limit == op.limit
  <2>2. o \in Nat /\ p \in Nat /\ pn \in Nat /\ limit \in Int
    BY <2>1
  <2>3. pn > 0 /\ pn <= limit
    BY <1>2, <2>2 DEF WithinLimit
  <2>4. limit = IF TaoToAlpha(o, p) = 0 THEN 0 ELSE BufferUp((o * TAO) \div TaoToAlpha(o, p))
    BY <1>2, LimitIs
  <2>5. Gives(op, actual) = TaoToAlpha(o, pn) /\ Gives(op, expected) = TaoToAlpha(o, p)
        /\ RoundingUnit(op, actual) = 1
    BY <1>2 DEF Gives, RoundingUnit
  <2> HIDE DEF o, p, pn, limit
  <2>6. (TaoToAlpha(o, pn) + 1) * (100 + SlippagePercent) >= TaoToAlpha(o, p) * 100
    BY <2>2, <2>3, <2>4, StakeFillNear
  <2> QED BY <1>2, <2>5, <2>6 DEF FillsNear
<1>3. CASE op.kind \in {"unstake", "unstake_partial"}
  <2>1. op.alpha \in Nat /\ op.netuid \in netuids /\ op.limit \in Int
    BY <1>3, Kinds DEF UnstakeOps
  <2> DEFINE x == op.alpha
             p == expected[op.netuid]
             pn == actual[op.netuid]
             limit == op.limit
             unit == 2 + x \div TAO
  <2>2. x \in Nat /\ p \in Nat /\ pn \in Nat /\ limit \in Int
    BY <2>1
  <2>3. limit <= pn
    BY <1>3, <2>2 DEF WithinLimit
  <2>4. limit = IF AlphaToTao(x, p) = 0 THEN 0 ELSE BufferDown((AlphaToTao(x, p) * TAO) \div x)
    BY <1>3, LimitIs
  <2>5. Gives(op, actual) = AlphaToTao(x, pn) /\ Gives(op, expected) = AlphaToTao(x, p)
        /\ RoundingUnit(op, actual) = unit
    BY <1>3 DEF Gives, RoundingUnit
  <2> HIDE DEF x, p, pn, limit
  <2>6. (AlphaToTao(x, pn) + unit) * 100
          >= AlphaToTao(x, p) * (100 - SlippagePercent)
    BY <2>2, <2>3, <2>4, UnstakeFillNear
  <2> HIDE DEF unit
  <2>7. op.kind # "stake"
    BY <1>3
  <2> QED BY <2>5, <2>6, <2>7 DEF FillsNear
<1>4. CASE op.kind = "swap"
  <2>1. op.alpha \in Nat /\ op.netuid \in netuids /\ op.destination \in netuids /\ op.limit \in Int
    BY <1>4, Kinds DEF SwapOps
  <2> DEFINE x == op.alpha
             p == expected[op.netuid]
             q == expected[op.destination]
             pn == actual[op.netuid]
             qn == actual[op.destination]
             limit == op.limit
             d == TaoToAlpha(AlphaToTao(x, p), q)
             unit == 3 + x \div TAO + TAO \div qn
  <2>2. x \in Nat /\ p \in Nat /\ q \in Nat /\ pn \in Nat /\ qn \in Nat /\ limit \in Int
    BY <2>1
  <2>3. qn > 0 /\ pn * TAO >= limit * qn
    BY <1>4, <2>2 DEF WithinLimit
  <2>4. limit = IF AlphaToTao(x, p) = 0 \/ d = 0 THEN 0 ELSE BufferDown((d * TAO) \div x)
    BY <1>4, LimitIs
  <2>5. Gives(op, actual) = TaoToAlpha(AlphaToTao(x, pn), qn) /\ Gives(op, expected) = d
        /\ RoundingUnit(op, actual) = unit
    BY <1>4 DEF Gives, RoundingUnit
  <2>6. d = TaoToAlpha(AlphaToTao(x, p), q)
    OBVIOUS
  <2> HIDE DEF x, p, q, pn, qn, limit, d
  <2>7. (TaoToAlpha(AlphaToTao(x, pn), qn) + unit) * 100
          >= d * (100 - SlippagePercent)
    BY <2>2, <2>3, <2>4, <2>6, SwapFillNear
  <2> HIDE DEF unit
  <2>8. op.kind # "stake"
    BY <1>4
  <2> QED BY <2>5, <2>7, <2>8 DEF FillsNear
<1> QED BY <1>1, <1>2, <1>3, <1>4

LEMMA InvFillsNearPlan ==
  PortfolioInv => FillsNearPlan
<1> SUFFICES ASSUME PortfolioInv, phase = "submitted", useLimits,
                    NEW i \in DOMAIN ops, ops[i].kind # "move",
                    WithinLimit(ops[i], Prices(world), TRUE)
             PROVE  FillsNear(ops[i], Prices(world), Prices(planned))
  BY FillsNearPlanIs
<1> DEFINE netuids == NetuidsOf(world)
           actual == Prices(world)
           expected == Prices(planned)
           op == ops[i]
<1>1. PortfolioTypeOK /\ OpsTyped /\ OpsLimited
  BY DEF PortfolioInv
<1>2. world \in DOMAIN World /\ planned \in DOMAIN World
  BY <1>1 DEF PortfolioTypeOK
<1>3. actual \in [netuids -> Nat]
  BY <1>2, PricesNat
<1>4. expected \in [netuids -> Nat]
  <2>1. NetuidsOf(planned) = netuids
    BY <1>2, WorldKnown
  <2>2. expected \in [NetuidsOf(planned) -> Nat]
    BY <1>2, PricesNat
  <2> QED BY <2>1, <2>2
<1>5. op \in Operation(netuids, Keys)
  BY <1>1 DEF OpsTyped
<1>6. op.limit = LimitPrice(op, expected)
  <2>1. Limited(ops, Prices(planned))
    BY <1>1 DEF OpsLimited
  <2> QED BY <2>1 DEF Limited
<1>7. op.kind # "move" /\ WithinLimit(op, actual, TRUE)
  OBVIOUS
<1> HIDE DEF netuids, actual, expected, op
<1>8. FillsNear(op, actual, expected)
  BY <1>3, <1>4, <1>5, <1>6, <1>7, OperationFillsNear
<1> QED BY <1>8 DEF op, actual, expected

\* Whatever any strategy or the script plans and wherever the prices go meanwhile, an
\* operation that passes its limit price gives what its simulation promised less the
\* slippage buffer, up to rounding (simulateSlippage.ts).
THEOREM LimitsHold == PortfolioSpec => []FillsNearPlan
BY InvFillsNearPlan, PortfolioInitInv, PortfolioNextInv, PTL DEF PortfolioSpec

-----------------------------------------------------------------------------
(* The shielded submission.                                                *)

Signed(c) == readAt[c] # 0

\* Cycles sign in order, one at a time; only what was signed is in the pool or has a
\* wrapper on the chain, and only what has a wrapper has a batch there, in a later
\* block.
SigningInv ==
  /\ height >= 1
  /\ step # "idle" => current >= 1
  /\ \A c \in Cycle :
       /\ Signed(c) => c <= current /\ (step = "nonce" => c # current)
       /\ c \in pool => Signed(c) /\ wrapperAt[c] = 0
       /\ wrapperAt[c] # 0 => Signed(c)
       /\ innerAt[c] # 0 => wrapperAt[c] # 0 /\ innerAt[c] > wrapperAt[c]

\* The wait is at a block that exists, and a batch that was found is on the chain.
WaitInv ==
  /\ scanning \subseteq 1..height
  /\ step = "events" => innerAt[current] # 0
  /\ \A c \in Cycle : outcome[c] = "executed" => innerAt[c] # 0

\* Nonces only grow: a later cycle read one at least as large, and a transaction on
\* the chain has used its own up.
NonceInv ==
  \A c \in Cycle :
    /\ Signed(c) => wrapperNonce[c] <= nonce
    /\ wrapperAt[c] # 0 => wrapperNonce[c] < nonce
    /\ innerAt[c] # 0 => wrapperNonce[c] + 1 < nonce
    /\ \A d \in Cycle : c < d /\ Signed(c) /\ Signed(d) => wrapperNonce[c] <= wrapperNonce[d]

\* No two transactions on the chain have the same nonce, and a batch that landed
\* after a nonce was read has at least that nonce.
ExclusionInv ==
  \A c, d \in Cycle :
    c # d =>
      /\ innerAt[c] # 0 /\ innerAt[d] # 0 => wrapperNonce[c] # wrapperNonce[d]
      /\ wrapperAt[c] # 0 /\ innerAt[d] # 0 => wrapperNonce[c] # wrapperNonce[d] + 1
      /\ innerAt[c] # 0 /\ Signed(d) /\ innerAt[c] > readAt[d]
           => wrapperNonce[c] + 1 >= wrapperNonce[d]

IInv == TypeOK /\ SigningInv /\ WaitInv /\ NonceInv /\ ExclusionInv

LEMMA InitIInv == Init => IInv
<1> SUFFICES ASSUME Init PROVE IInv
  OBVIOUS
<1> USE SubmissionAssumption
    DEF Init, Cycle, Signed, SubmissionAssumption
<1>1. TypeOK
  BY DEF TypeOK
<1>2. SigningInv /\ WaitInv
  BY DEF SigningInv, WaitInv
<1>3. NonceInv /\ ExclusionInv
  BY DEF NonceInv, ExclusionInv
<1> QED BY <1>1, <1>2, <1>3 DEF IInv

\* What every step but a block and a signature leaves alone.
frame == <<now, height, nonce, wrapperAt, innerAt, wrapperNonce, readAt, signedAt>>

\* TypeOK in three parts.
ChainOK ==
  /\ now \in 0..MaxTime /\ height \in 0..now
  /\ nonce \in Nat
  /\ pool \subseteq Cycle
  /\ wrapperAt \in [Cycle -> 0..height] /\ innerAt \in [Cycle -> 0..height]

SignOK ==
  /\ wrapperNonce \in [Cycle -> Nat]
  /\ readAt \in [Cycle -> 0..height] /\ signedAt \in [Cycle -> 0..height]

CycleOK ==
  /\ current \in 0..Cycles
  /\ step \in {"idle", "nonce", "wrapper", "waiting", "events"}
  /\ firstSeen \in 0..height
  /\ scanning \subseteq 0..height
  /\ timer \in {"off", "armed"} /\ deadline \in Nat
  /\ outcome \in [Cycle -> {"none", "executed", "timeout", "error"}]

\* Types are preserved.
LEMMA TypeStep == IInv /\ [Next]_vars => TypeOK'
<1> SUFFICES ASSUME IInv, [Next]_vars PROVE ChainOK' /\ SignOK' /\ CycleOK'
  BY DEF TypeOK, ChainOK, SignOK, CycleOK
<1> USE SubmissionAssumption DEF SubmissionAssumption
<1>a. ChainOK /\ SignOK /\ CycleOK
  BY DEF IInv, TypeOK, ChainOK, SignOK, CycleOK
<1>b. step # "idle" => current \in Cycle
  BY <1>a DEF IInv, SigningInv, CycleOK, Cycle
<1>c. UNCHANGED chainVars => ChainOK'
  BY <1>a DEF ChainOK, chainVars
<1>d. UNCHANGED <<height, signVars>> => SignOK'
  BY <1>a DEF SignOK, signVars
<1>1. CASE FinalizeBlock
  <2>1. /\ wrapperAt' \in [Cycle -> 0..height + 1] /\ innerAt' \in [Cycle -> 0..height + 1]
        /\ nonce' \in Nat /\ pool' \subseteq Cycle
    <3> DEFINE wider == /\ wrapperAt \in [Cycle -> 0..height + 1]
                        /\ innerAt \in [Cycle -> 0..height + 1]
    <3>1. wider /\ nonce \in Nat /\ pool \subseteq Cycle /\ height + 1 \in 0..height + 1
      BY <1>a DEF ChainOK
    <3>2. CASE \E c \in Cycle : IncludeWrapper(c)
      BY <3>1, <3>2 DEF IncludeWrapper
    <3>3. CASE \E c \in Cycle : IncludeInner(c)
      BY <3>1, <3>3 DEF IncludeInner
    <3>4. CASE UNCHANGED <<wrapperAt, innerAt, nonce, pool>>
      BY <3>1, <3>4
    <3> QED BY <1>1, <3>2, <3>3, <3>4 DEF FinalizeBlock
  <2>2. now' \in 0..MaxTime /\ height' = height + 1 /\ height' \in 0..now'
    BY <1>1, <1>a DEF FinalizeBlock, ChainOK
  <2>3. ChainOK'
    BY <2>1, <2>2 DEF ChainOK
  <2>4. SignOK'
    BY <1>1, <1>a, <2>2 DEF FinalizeBlock, SignOK, signVars, ChainOK
  <2>a. /\ height \in Nat /\ height' = height + 1 /\ UNCHANGED <<current, step, outcome>>
        /\ firstSeen \in 0..height + 1 /\ scanning \subseteq 0..height + 1
    BY <1>1, <1>a DEF FinalizeBlock, CycleOK, ChainOK
  <2>5. CycleOK'
    <3>1. CASE step = "waiting"
      <4>1. /\ timer' = "off" /\ scanning' = scanning \cup {height + 1} /\ UNCHANGED deadline
            /\ firstSeen' \in {firstSeen, height + 1}
        BY <1>1, <3>1 DEF FinalizeBlock, Emit
      <4>2. scanning' \subseteq 0..height' /\ firstSeen' \in 0..height'
        BY <2>a, <4>1
      <4> QED BY <1>a, <2>a, <4>1, <4>2 DEF CycleOK
    <3>2. CASE step # "waiting"
      BY <1>1, <1>a, <2>a, <3>2 DEF FinalizeBlock, CycleOK, waitVars
    <3> QED BY <3>1, <3>2
  <2> QED BY <2>3, <2>4, <2>5
<1>2. CASE Stall
  <2>1. ChainOK'
    BY <1>2, <1>a DEF Stall, ChainOK
  <2>2. CycleOK'
    BY <1>2, <1>a DEF Stall, CycleOK, waitVars
  <2> QED BY <1>2, <1>d, <2>1, <2>2 DEF Stall
<1>3. CASE BeginCycle
  <2>1. CycleOK'
    BY <1>3, <1>a DEF BeginCycle, CycleOK, waitVars, chainVars
  <2> QED BY <1>3, <1>c, <1>d, <2>1 DEF BeginCycle, chainVars
<1>4. CASE SignAndSubmit
  <2>1. ChainOK'
    BY <1>4, <1>a, <1>b DEF SignAndSubmit, ChainOK
  <2>2. SignOK'
    BY <1>4, <1>a, <1>b DEF SignAndSubmit, SignOK, ChainOK
  <2>3. CycleOK'
    BY <1>4, <1>a DEF SignAndSubmit, CycleOK, waitVars
  <2> QED BY <2>1, <2>2, <2>3
<1>5. CASE WrapperFinalized
  <2>1. CycleOK'
    BY <1>5, <1>a DEF WrapperFinalized, CycleOK, chainVars, ChainOK
  <2> QED BY <1>5, <1>c, <1>d, <2>1 DEF WrapperFinalized, chainVars
<1>6. ASSUME NEW result \in {"executed", "timeout", "error"}, EndCycle(result), step # "idle",
             pool' \subseteq pool
      PROVE  ChainOK' /\ SignOK' /\ CycleOK'
  <2>1. ChainOK'
    BY <1>6, <1>a DEF EndCycle, ChainOK
  <2>2. CycleOK'
    BY <1>6, <1>a, <1>b DEF EndCycle, CycleOK, ChainOK
  <2> QED BY <1>6, <1>d, <2>1, <2>2 DEF EndCycle
<1>7. ASSUME NEW b \in 0..height, BodyFetched(b) PROVE ChainOK' /\ SignOK' /\ CycleOK'
  <2>1. CycleOK'
    BY <1>7, <1>a DEF BodyFetched, CycleOK, chainVars
  <2> QED BY <1>7, <1>c, <1>d, <2>1 DEF BodyFetched, chainVars
<1>8. CASE UNCHANGED vars
  BY <1>8, <1>a, <1>c, <1>d DEF vars, chainVars, signVars, CycleOK
<1> QED
  BY <1>1, <1>2, <1>3, <1>4, <1>5, <1>6, <1>7, <1>8
  DEF Next, WrapperFails, BodyFails, SearchTimeout, EventsFetched, EventsFail

\* Nothing a cycle does but sign touches the chain, the nonces or the order of cycles.
LEMMA Framed ==
  ASSUME IInv, UNCHANGED frame, pool' \subseteq pool,
         current' >= current, step' = "nonce" => \A c \in Cycle : Signed(c) => c # current',
         current' \in Nat
  PROVE  /\ \A c \in Cycle :
              /\ Signed(c)' => c <= current' /\ (step' = "nonce" => c # current')
              /\ c \in pool' => Signed(c)' /\ wrapperAt'[c] = 0
              /\ wrapperAt'[c] # 0 => Signed(c)'
              /\ innerAt'[c] # 0 => wrapperAt'[c] # 0 /\ innerAt'[c] > wrapperAt'[c]
         /\ NonceInv' /\ ExclusionInv'
<1> USE DEF IInv, frame, Signed
<1>1. NonceInv'
  BY DEF NonceInv
<1>2. ExclusionInv'
  BY DEF ExclusionInv
<1> QED BY <1>1, <1>2 DEF SigningInv, TypeOK, Cycle

\* A block: at most one transaction of the account, with the nonce it needs.
LEMMA BlockStep ==
  IInv /\ FinalizeBlock => SigningInv' /\ NonceInv' /\ ExclusionInv'
<1> SUFFICES ASSUME IInv, FinalizeBlock PROVE SigningInv' /\ NonceInv' /\ ExclusionInv'
  OBVIOUS
<1> USE DEF Signed
<1>0. /\ TypeOK /\ SigningInv /\ NonceInv /\ ExclusionInv
      /\ height' = height + 1 /\ UNCHANGED <<current, step, wrapperNonce, readAt>>
  BY DEF IInv, FinalizeBlock, signVars
<1>1. ASSUME NEW e \in Cycle, IncludeWrapper(e)
      PROVE  SigningInv' /\ NonceInv' /\ ExclusionInv'
  <2>1. /\ e \in pool /\ nonce = wrapperNonce[e] /\ innerAt' = innerAt /\ nonce' = nonce + 1
        /\ pool' = pool \ {e} /\ wrapperAt' = [wrapperAt EXCEPT ![e] = height + 1]
    BY <1>1 DEF IncludeWrapper
  <2>2. Signed(e) /\ wrapperAt[e] = 0 /\ innerAt[e] = 0
    BY <1>0, <2>1 DEF SigningInv
  <2>3. SigningInv'
    BY <1>0, <2>1, <2>2 DEF SigningInv, TypeOK
  <2>4. NonceInv'
    BY <1>0, <2>1, <2>2 DEF NonceInv, TypeOK
  <2>5. \A d \in Cycle : innerAt[d] # 0 => wrapperNonce[d] + 1 < wrapperNonce[e]
    BY <1>0, <2>1 DEF NonceInv
  <2>6. ExclusionInv'
    BY <1>0, <2>1, <2>2, <2>5 DEF ExclusionInv, TypeOK
  <2> QED BY <2>3, <2>4, <2>6
<1>2. ASSUME NEW e \in Cycle, IncludeInner(e)
      PROVE  SigningInv' /\ NonceInv' /\ ExclusionInv'
  <2>1. /\ wrapperAt[e] # 0 /\ innerAt[e] = 0 /\ nonce = wrapperNonce[e] + 1
        /\ nonce' = nonce + 1 /\ innerAt' = [innerAt EXCEPT ![e] = height + 1]
        /\ UNCHANGED <<wrapperAt, pool>>
    BY <1>2 DEF IncludeInner
  <2>2. SigningInv'
    BY <1>0, <2>1 DEF SigningInv, TypeOK
  <2>3. NonceInv'
    BY <1>0, <2>1 DEF NonceInv, TypeOK, SigningInv
  <2>4. \A d \in Cycle :
          /\ innerAt[d] # 0 => wrapperNonce[d] + 1 < nonce
          /\ wrapperAt[d] # 0 => wrapperNonce[d] < nonce
          /\ Signed(d) => wrapperNonce[d] <= nonce
          /\ wrapperNonce[d] \in Nat
    BY <1>0 DEF NonceInv, TypeOK
  <2>5. ExclusionInv'
    BY <1>0, <2>1, <2>4 DEF ExclusionInv, TypeOK
  <2> QED BY <2>2, <2>3, <2>5
<1>3. CASE UNCHANGED <<wrapperAt, innerAt, nonce, pool>>
  <2>1. SigningInv'
    BY <1>0, <1>3 DEF SigningInv, TypeOK
  <2>2. NonceInv'
    BY <1>0, <1>3 DEF NonceInv
  <2>3. ExclusionInv'
    BY <1>0, <1>3 DEF ExclusionInv
  <2> QED BY <2>1, <2>2, <2>3
<1> QED BY <1>1, <1>2, <1>3 DEF FinalizeBlock

\* Every step keeps the order of cycles, the nonces and the wait.
LEMMA StepIInv == IInv /\ [Next]_vars => IInv'
<1> SUFFICES ASSUME IInv, [Next]_vars PROVE IInv'
  OBVIOUS
<1> USE DEF Signed
<1>a. TypeOK /\ TypeOK'
  BY TypeStep DEF IInv
<1>b. SigningInv /\ WaitInv /\ NonceInv /\ ExclusionInv
  BY DEF IInv
<1>c. step # "idle" => current \in Cycle
  BY <1>a, <1>b DEF SigningInv, TypeOK, Cycle
<1>1. CASE FinalizeBlock
  <2>1. SigningInv' /\ NonceInv' /\ ExclusionInv'
    BY <1>1, BlockStep
  <2>2. WaitInv'
    <3>1. \A c \in Cycle : innerAt[c] # 0 => innerAt'[c] # 0
      BY <1>1, <1>a DEF FinalizeBlock, IncludeWrapper, IncludeInner, TypeOK
    <3>2. scanning' \subseteq 1..height'
      BY <1>1, <1>a, <1>b DEF FinalizeBlock, Emit, WaitInv, waitVars, TypeOK
    <3>3. UNCHANGED <<current, step, outcome>>
      BY <1>1 DEF FinalizeBlock
    <3> QED BY <1>b, <1>c, <3>1, <3>2, <3>3 DEF WaitInv
  <2> QED BY <1>a, <2>1, <2>2 DEF IInv
<1>2. CASE SignAndSubmit
  <2>1. /\ step = "nonce" /\ step' = "wrapper" /\ current \in Cycle
        /\ wrapperNonce' = [wrapperNonce EXCEPT ![current] = nonce]
        /\ readAt' = [readAt EXCEPT ![current] = height]
        /\ pool' = pool \cup {current}
        /\ UNCHANGED <<height, nonce, wrapperAt, innerAt, current, scanning, outcome>>
    BY <1>2, <1>c DEF SignAndSubmit, waitVars
  <2>2. ~Signed(current) /\ wrapperAt[current] = 0 /\ innerAt[current] = 0 /\ height # 0
    BY <1>a, <1>b, <2>1 DEF SigningInv, TypeOK
  <2>3. SigningInv'
    BY <1>a, <1>b, <2>1, <2>2 DEF SigningInv, TypeOK
  <2>4. WaitInv'
    BY <1>b, <2>1 DEF WaitInv
  <2>5. \A c \in Cycle : Signed(c) => c < current
    BY <1>a, <1>b, <2>1, <2>2 DEF SigningInv, TypeOK, Cycle
  <2>6. NonceInv'
    BY <1>a, <1>b, <2>1, <2>2, <2>5 DEF NonceInv, TypeOK, Cycle
  <2>7. ExclusionInv'
    BY <1>a, <1>b, <2>1, <2>2 DEF ExclusionInv, TypeOK
  <2> QED BY <1>a, <2>3, <2>4, <2>6, <2>7 DEF IInv
<1>3. ASSUME UNCHANGED frame, pool' \subseteq pool, current' \in Nat, current' >= current,
             step' # "idle" => current' >= 1,
             step' = "nonce" => \A c \in Cycle : Signed(c) => c # current',
             WaitInv'
      PROVE  IInv'
  <2>1. /\ \A c \in Cycle :
             /\ Signed(c)' => c <= current' /\ (step' = "nonce" => c # current')
             /\ c \in pool' => Signed(c)' /\ wrapperAt'[c] = 0
             /\ wrapperAt'[c] # 0 => Signed(c)'
             /\ innerAt'[c] # 0 => wrapperAt'[c] # 0 /\ innerAt'[c] > wrapperAt'[c]
        /\ NonceInv' /\ ExclusionInv'
    BY <1>3, Framed
  <2>2. SigningInv'
    BY <1>3, <1>b, <2>1 DEF SigningInv, frame
  <2> QED BY <1>3, <1>a, <2>1, <2>2 DEF IInv
<1>4. CASE Stall
  <2>1. /\ UNCHANGED <<height, pool, current, step, nonce, wrapperAt, innerAt, wrapperNonce,
                       readAt, signedAt, scanning, outcome>>
    BY <1>4 DEF Stall, signVars, waitVars
  <2>2. SigningInv' /\ WaitInv' /\ NonceInv' /\ ExclusionInv'
    BY <1>b, <2>1 DEF SigningInv, WaitInv, NonceInv, ExclusionInv
  <2> QED BY <1>a, <2>2 DEF IInv
<1>5. CASE BeginCycle
  <2>1. /\ current' = current + 1 /\ step' = "nonce" /\ current \in Nat
        /\ UNCHANGED frame /\ UNCHANGED <<pool, scanning, outcome>>
    BY <1>5, <1>a DEF BeginCycle, frame, chainVars, signVars, waitVars, TypeOK
  <2>2. \A c \in Cycle : Signed(c) => c # current'
    BY <1>b, <1>a, <2>1 DEF SigningInv, TypeOK, Cycle
  <2>3. WaitInv'
    BY <1>b, <2>1 DEF WaitInv, frame
  <2> QED BY <1>3, <2>1, <2>2, <2>3
<1>6. CASE WrapperFinalized
  <2>1. /\ step = "wrapper" /\ step' = "waiting" /\ UNCHANGED frame
        /\ UNCHANGED <<pool, current, outcome>> /\ current \in Nat
        /\ scanning' \in {{height}, {}}
    BY <1>6, <1>a DEF WrapperFinalized, frame, chainVars, signVars, TypeOK
  <2>2. WaitInv'
    BY <1>a, <1>b, <2>1 DEF WaitInv, frame, SigningInv, TypeOK
  <2> QED BY <1>3, <1>b, <2>1, <2>2 DEF SigningInv
<1>7. ASSUME NEW result \in {"timeout", "error", "executed"}, EndCycle(result), step # "idle",
             pool' \subseteq pool, result = "executed" => step = "events"
      PROVE  IInv'
  <2>1. /\ UNCHANGED frame /\ step' = "idle" /\ scanning' = {}
        /\ outcome' = [outcome EXCEPT ![current] = result]
        /\ current' = current /\ current \in Nat
    BY <1>7, <1>a DEF EndCycle, frame, signVars, TypeOK
  <2>2. WaitInv'
    BY <1>7, <1>a, <1>b, <1>c, <2>1 DEF WaitInv, frame, TypeOK
  <2> QED BY <1>3, <1>7, <2>1, <2>2
<1>8. ASSUME NEW b \in 0..height, BodyFetched(b) PROVE IInv'
  <2>1. /\ step = "waiting" /\ b \in scanning /\ step' \in {"events", "waiting"}
        /\ step' = "events" => innerAt[current] = b
        /\ scanning' \subseteq scanning /\ UNCHANGED frame
        /\ UNCHANGED <<pool, current, outcome>> /\ current \in Nat
    BY <1>8, <1>a DEF BodyFetched, BodyHasBatch, frame, chainVars, signVars, TypeOK
  <2>2. b # 0
    BY <1>b, <2>1 DEF WaitInv
  <2>3. WaitInv'
    BY <1>b, <2>1, <2>2 DEF WaitInv, frame
  <2> QED BY <1>3, <1>b, <2>1, <2>3 DEF SigningInv
<1>9. CASE UNCHANGED vars
  <2>1. SigningInv' /\ WaitInv' /\ NonceInv' /\ ExclusionInv'
    BY <1>9, <1>b DEF vars, SigningInv, WaitInv, NonceInv, ExclusionInv
  <2> QED BY <1>a, <2>1 DEF IInv
<1> QED
  BY <1>1, <1>2, <1>4, <1>5, <1>6, <1>7, <1>8, <1>9
  DEF Next, WrapperFails, BodyFails, SearchTimeout, EventsFetched, EventsFail

LEMMA Inductive == Spec => []IInv
<1>1. Init => IInv
  BY InitIInv
<1>2. IInv /\ [Next]_vars => IInv'
  BY StepIInv
<1> QED BY <1>1, <1>2, PTL DEF Spec

\* A cycle reports a batch as executed only when its own is on the chain, after its
\* wrapper, however many cycles gave theirs up before.
THEOREM OwnBatch == Spec => []ExecutedIsOwnBatch
<1>1. IInv => ExecutedIsOwnBatch
  BY DEF IInv, WaitInv, SigningInv, TypeOK, ExecutedIsOwnBatch
<1> QED BY Inductive, <1>1, PTL

\* A batch that was given up and one of a later cycle never both land after the
\* later cycle read its nonce: the late batch needs the nonce of the later wrapper,
\* or of the later batch.
THEOREM Exclusion == Spec => []LateBatchExcludesNext
<1>1. IInv => LateBatchExcludesNext
  <2> SUFFICES ASSUME IInv, NEW c \in Cycle, NEW d \in Cycle, c < d,
                      innerAt[c] # 0, innerAt[d] # 0
               PROVE  innerAt[c] <= readAt[d]
    BY DEF LateBatchExcludesNext
  <2>1. Signed(c) /\ Signed(d) /\ wrapperAt[d] # 0
    BY DEF IInv, SigningInv
  <2>2. /\ {wrapperNonce[c], wrapperNonce[d], innerAt[c], readAt[d]} \subseteq Nat
        /\ c # d
    BY DEF IInv, TypeOK, Cycle
  <2>3. wrapperNonce[c] <= wrapperNonce[d]
    BY <2>1 DEF IInv, NonceInv
  <2>4. /\ wrapperNonce[c] # wrapperNonce[d]
        /\ wrapperNonce[d] # wrapperNonce[c] + 1
        /\ innerAt[c] > readAt[d] => wrapperNonce[c] + 1 >= wrapperNonce[d]
    BY <2>1, <2>2 DEF IInv, ExclusionInv
  <2> QED BY <2>2, <2>3, <2>4
<1> QED BY Inductive, <1>1, PTL
=============================================================================
