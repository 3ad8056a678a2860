------------------------------ MODULE RowFacts ------------------------------
(***************************************************************************)
(* Facts about the rows of a table: the latest of some rows, and sums of a *)
(* quantity over them.                                                     *)
(***************************************************************************)
EXTENDS Sums, FiniteSetsExt, FiniteSetTheorems, FunctionTheorems, WellFoundedInduction, TLAPS

-----------------------------------------------------------------------------
(* Rows are numbered, and the latest is the one with the largest number.  Max is *)
(* defined by a choice; that there is one to choose is proved here.              *)

\* The lookups ORDER BY id DESC LIMIT 1 (an order's latest shipment, the latest claim of
\* a stage): the latest of some rows is one of them.
LEMMA MaxOfRows ==
  ASSUME NEW n \in Nat, NEW S, S \subseteq 1 .. n, S # {}
  PROVE  Max(S) \in S
<1> DEFINE U == {u \in Nat : \A s \in S : s <= u}
           R == {p \in Nat \X Nat : p[1] < p[2]}
<1>1. IsWellFoundedOn(R, Nat)
  BY NatLessThanWellFounded, Zenon DEF OpToRel
<1>2. U \subseteq Nat /\ U # {}
  <2>1. n \in U
    OBVIOUS
  <2> QED BY <2>1
<1>3. PICK u \in U : \A v \in U : ~ (<<v, u>> \in R)
  <2> HIDE DEF U, R
  <2> QED BY <1>1, <1>2, WFMin
<1>4. \A v \in U : ~ (v < u)
  BY <1>3
<1>5. u \in S
  <2> SUFFICES ASSUME u \notin S PROVE FALSE
    OBVIOUS
  <2>1. \A s \in S : s \in Nat /\ s >= 1 /\ s <= u /\ s # u
    BY <1>3
  <2>2. u \in Nat /\ u - 1 \in Nat
    <3>1. PICK s : s \in S
      OBVIOUS
    <3>2. u \in Nat
      BY <1>3
    <3> QED BY <2>1, <3>1, <3>2
  <2>3. \A s \in S : s <= u - 1
    BY <2>1, <2>2
  <2>4. u - 1 \in U
    BY <2>2, <2>3
  <2> QED BY <1>4, <2>2, <2>4
<1>6. \A s \in S : u >= s
  BY <1>3
<1> QED BY <1>5, <1>6 DEF Max

\* ORDER BY id, the other way round: the first of some rows is one of them
LEMMA MinOfRows ==
  ASSUME NEW S, S \subseteq Nat, S # {}
  PROVE  Min(S) \in S /\ \A s \in S : Min(S) <= s
<1> DEFINE R == {p \in Nat \X Nat : p[1] < p[2]}
<1>1. IsWellFoundedOn(R, Nat)
  BY NatLessThanWellFounded, Zenon DEF OpToRel
<1>2. PICK u \in S : \A v \in S : ~ (<<v, u>> \in R)
  <2> HIDE DEF R
  <2> QED BY <1>1, WFMin
<1>3. \A v \in S : ~ (v < u)
  BY <1>2
<1>4. \A v \in S : u <= v
  BY <1>2, <1>3
<1> QED BY <1>2, <1>4 DEF Min

\* counting up: what holds of 0, and of n if it holds of n - 1, holds up to N
LEMMA UpTo ==
  ASSUME NEW N \in Nat, NEW S, 0 \in S, \A n \in 1 .. N : n - 1 \in S => n \in S
  PROVE  \A n \in 0 .. N : n \in S
<1> DEFINE Missing == {n \in 0 .. N : n \notin S}
           R == {p \in Nat \X Nat : p[1] < p[2]}
<1> SUFFICES ASSUME Missing # {} PROVE FALSE
  OBVIOUS
<1>1. IsWellFoundedOn(R, Nat)
  BY NatLessThanWellFounded, Zenon DEF OpToRel
<1>2. PICK n \in Missing : \A j \in Missing : ~ (<<j, n>> \in R)
  <2>1. Missing \subseteq Nat
    OBVIOUS
  <2> HIDE DEF R, Missing
  <2> QED BY <1>1, <2>1, WFMin
<1>3. n \in 1 .. N /\ n \notin S /\ n - 1 \in 0 .. N
  <2>1. n \in 0 .. N /\ n \notin S
    OBVIOUS
  <2>2. n # 0
    BY <2>1
  <2> QED BY <2>1, <2>2
<1>4. n - 1 \notin Missing
  <2>1. <<n - 1, n>> \in R
    BY <1>3
  <2> HIDE DEF R, Missing
  <2> QED BY <1>2, <2>1
<1> QED BY <1>3, <1>4

-----------------------------------------------------------------------------
(* Sums are cardinalities: adding them up is adding up disjoint sets. *)

NatOn(f, S) == \A x \in S : f[x] \in Nat

LEMMA UnitIn ==
  ASSUME NEW f, NEW S
  PROVE  \A u : u \in Units(f, S) <=> \E x \in S : \E k \in 1 .. f[x] : u = <<x, k>>
  BY DEF Units

LEMMA IntervalSize ==
  ASSUME NEW n \in Nat
  PROVE  IsFiniteSet(1 .. n) /\ Cardinality(1 .. n) = n
<1>1. IsFiniteSet(1 .. n) /\ Cardinality(1 .. n) = IF 1 > n THEN 0 ELSE n - 1 + 1
  BY FS_Interval
<1> QED BY <1>1

LEMMA UnitsOfOne ==
  ASSUME NEW f, NEW x, f[x] \in Nat
  PROVE  IsFiniteSet(Units(f, {x})) /\ Total(f, {x}) = f[x]
<1> DEFINE n == f[x]
<1>1. Units(f, {x}) = {x} \X (1 .. n)
  BY DEF Units
<1>2. n \in Nat
  OBVIOUS
<1> HIDE DEF n
<1>3. IsFiniteSet({x}) /\ Cardinality({x}) = 1
  BY FS_Singleton
<1>4. IsFiniteSet(1 .. n) /\ Cardinality(1 .. n) = n
  BY <1>2, IntervalSize
<1>5. /\ IsFiniteSet({x} \X (1 .. n))
      /\ Cardinality({x} \X (1 .. n)) = Cardinality({x}) * Cardinality(1 .. n)
  BY <1>3, <1>4, FS_Product
<1>6. Cardinality({x} \X (1 .. n)) = n
  BY <1>2, <1>3, <1>4, <1>5
<1> QED BY <1>1, <1>5, <1>6 DEF Total, n

LEMMA UnitsFinite ==
  ASSUME NEW S, IsFiniteSet(S), NEW f, NatOn(f, S)
  PROVE  IsFiniteSet(Units(f, S)) /\ Total(f, S) \in Nat
<1> DEFINE of == [x \in S |-> {x} \X (1 .. f[x])]
           T  == {of[x] : x \in S}
<1>1. of \in Surjection(S, T)
  BY DEF Surjection
<1>2. IsFiniteSet(T)
  <2> HIDE DEF T, of
  <2> QED BY <1>1, FS_Surjection
<1>3. ASSUME NEW x \in S PROVE IsFiniteSet(of[x])
  <2>1. of[x] = Units(f, {x})
    BY DEF Units
  <2>2. f[x] \in Nat
    BY DEF NatOn
  <2> QED BY <2>1, <2>2, UnitsOfOne
<1>4. \A U \in T : IsFiniteSet(U)
  BY <1>3
<1>5. UNION T = Units(f, S)
  BY DEF Units
<1>6. IsFiniteSet(UNION T)
  <2> HIDE DEF T
  <2> QED BY <1>2, <1>4, FS_UNION
<1> QED BY <1>5, <1>6, FS_CardinalityType DEF Total

LEMMA TotalEmpty == \A f : Total(f, {}) = 0
  BY FS_EmptySet DEF Total, Units

LEMMA TotalSame ==
  ASSUME NEW S, NEW f, NEW g, \A x \in S : f[x] = g[x]
  PROVE  Total(f, S) = Total(g, S)
<1>1. ASSUME NEW u PROVE u \in Units(f, S) <=> u \in Units(g, S)
  BY UnitIn
<1>2. Units(f, S) = Units(g, S)
  BY <1>1
<1> QED BY <1>2 DEF Total

LEMMA TotalSplit ==
  ASSUME NEW S, IsFiniteSet(S), NEW T, IsFiniteSet(T), S \cap T = {},
         NEW f, NatOn(f, S), NatOn(f, T)
  PROVE  Total(f, S \cup T) = Total(f, S) + Total(f, T)
<1>1. Units(f, S \cup T) = Units(f, S) \cup Units(f, T)
  BY UnitIn
<1>2. Units(f, S) \cap Units(f, T) = {}
  BY UnitIn
<1>3. IsFiniteSet(Units(f, S)) /\ IsFiniteSet(Units(f, T))
  BY UnitsFinite
<1>4. Cardinality(Units(f, S) \cup Units(f, T)) = Cardinality(Units(f, S)) + Cardinality(Units(f, T))
  <2>1. /\ Cardinality(Units(f, S) \cup Units(f, T))
             = Cardinality(Units(f, S)) + Cardinality(Units(f, T)) - Cardinality(Units(f, S) \cap Units(f, T))
        /\ Cardinality(Units(f, S)) \in Nat /\ Cardinality(Units(f, T)) \in Nat
    BY <1>3, FS_Union, FS_CardinalityType
  <2>2. Cardinality(Units(f, S) \cap Units(f, T)) = 0
    BY <1>2, FS_EmptySet
  <2> QED BY <2>1, <2>2
<1> QED BY <1>1, <1>4 DEF Total

LEMMA TotalWithout ==
  ASSUME NEW S, IsFiniteSet(S), NEW f, NatOn(f, S), NEW x \in S
  PROVE  /\ Total(f, S) = Total(f, S \ {x}) + f[x]
         /\ Total(f, S \ {x}) \in Nat
<1>1. IsFiniteSet(S \ {x}) /\ IsFiniteSet({x}) /\ S = (S \ {x}) \cup {x}
  BY FS_RemoveElement, FS_Singleton
<1>2. NatOn(f, S \ {x}) /\ NatOn(f, {x}) /\ f[x] \in Nat
  BY DEF NatOn
<1>3. Total(f, (S \ {x}) \cup {x}) = Total(f, S \ {x}) + Total(f, {x})
  BY <1>1, <1>2, TotalSplit
<1> QED BY <1>1, <1>2, <1>3, UnitsOfOne, UnitsFinite

\* one row is written: the sum changes by what the row changes
LEMMA TotalChange ==
  ASSUME NEW S, IsFiniteSet(S), NEW f, NatOn(f, S), NEW g, NEW x \in S, g[x] \in Nat,
         \A y \in S : y # x => g[y] = f[y]
  PROVE  Total(g, S) = Total(f, S) - f[x] + g[x]
<1>1. NatOn(g, S)
  BY DEF NatOn
<1>2. Total(g, S \ {x}) = Total(f, S \ {x})
  BY TotalSame
<1>3. /\ Total(f, S) = Total(f, S \ {x}) + f[x]
      /\ Total(g, S) = Total(g, S \ {x}) + g[x]
      /\ Total(f, S \ {x}) \in Nat
  BY <1>1, TotalWithout
<1> QED BY <1>2, <1>3 DEF NatOn

LEMMA TotalSubset ==
  ASSUME NEW T, IsFiniteSet(T), NEW S, S \subseteq T, NEW f, NatOn(f, T)
  PROVE  Total(f, S) <= Total(f, T) /\ Total(f, S) \in Nat /\ Total(f, T) \in Nat
<1>1. IsFiniteSet(S) /\ NatOn(f, S)
  BY FS_Subset DEF NatOn
<1>2. Units(f, S) \in SUBSET Units(f, T)
  BY UnitIn
<1>3. IsFiniteSet(Units(f, T))
  BY UnitsFinite
<1> QED BY <1>1, <1>2, <1>3, FS_Subset, UnitsFinite DEF Total

LEMMA TotalLess ==
  ASSUME NEW S, IsFiniteSet(S), NEW f, NatOn(f, S), NEW g, NatOn(g, S), \A x \in S : f[x] <= g[x]
  PROVE  Total(f, S) <= Total(g, S)
<1>1. Units(f, S) \in SUBSET Units(g, S)
  <2>1. \A x \in S : (1 .. f[x]) \subseteq (1 .. g[x])
    BY DEF NatOn
  <2> QED BY <2>1, UnitIn
<1>2. IsFiniteSet(Units(g, S))
  BY UnitsFinite
<1> QED BY <1>1, <1>2, FS_Subset DEF Total

LEMMA TotalZero ==
  ASSUME NEW S, NEW f, \A x \in S : f[x] = 0
  PROVE  Total(f, S) = 0
<1>1. Units(f, S) = {}
  BY UnitIn
<1> QED BY <1>1, FS_EmptySet DEF Total

LEMMA TotalAtLeast ==
  ASSUME NEW S, IsFiniteSet(S), NEW f, NatOn(f, S), NEW x \in S
  PROVE  f[x] <= Total(f, S) /\ Total(f, S) \in Nat
<1>1. Total(f, S) = Total(f, S \ {x}) + f[x] /\ Total(f, S \ {x}) \in Nat
  BY TotalWithout
<1>2. f[x] \in Nat
  BY DEF NatOn
<1> QED BY <1>1, <1>2

\* the units of g come after those of f in every row
LEMMA TotalPlus ==
  ASSUME NEW S, IsFiniteSet(S), NEW f, NatOn(f, S), NEW g, NatOn(g, S),
         NEW h, \A x \in S : h[x] = f[x] + g[x]
  PROVE  Total(h, S) = Total(f, S) + Total(g, S)
<1> DEFINE U == Units(f, S)
           V == Units(g, S)
           move == [u \in V |-> <<u[1], f[u[1]] + u[2]>>]
           W == {move[u] : u \in V}
<1>1. Units(h, S) = U \cup W
  <2>1. ASSUME NEW x \in S, NEW k \in 1 .. h[x] PROVE <<x, k>> \in U \cup W
    <3>1. f[x] \in Nat /\ g[x] \in Nat /\ h[x] = f[x] + g[x]
      BY DEF NatOn
    <3>2. CASE k <= f[x]
      <4>1. k \in 1 .. f[x]
        BY <3>1, <3>2
      <4> QED BY <4>1, UnitIn
    <3>3. CASE k > f[x]
      <4>1. k - f[x] \in 1 .. g[x] /\ f[x] + (k - f[x]) = k
        BY <3>1, <3>3
      <4>2. <<x, k - f[x]>> \in V
        BY <4>1, UnitIn
      <4>3. move[<<x, k - f[x]>>] = <<x, k>>
        BY <4>1, <4>2
      <4> QED BY <4>2, <4>3
    <3> QED BY <3>1, <3>2, <3>3
  <2>2. ASSUME NEW u \in U PROVE u \in Units(h, S)
    <3>1. PICK x \in S : \E k \in 1 .. f[x] : u = <<x, k>>
      BY UnitIn
    <3>2. PICK k \in 1 .. f[x] : u = <<x, k>>
      BY <3>1
    <3>3. k \in 1 .. h[x]
      BY DEF NatOn
    <3> QED BY <3>2, <3>3, UnitIn
  <2>3. ASSUME NEW u \in V PROVE move[u] \in Units(h, S)
    <3>1. PICK x \in S : \E k \in 1 .. g[x] : u = <<x, k>>
      BY UnitIn
    <3>2. PICK k \in 1 .. g[x] : u = <<x, k>>
      BY <3>1
    <3>3. f[x] + k \in 1 .. h[x]
      BY DEF NatOn
    <3>4. move[u] = <<x, f[x] + k>>
      BY <3>2
    <3> QED BY <3>3, <3>4, UnitIn
  <2>4. \A u \in Units(h, S) : u \in U \cup W
    <3> HIDE DEF U, W
    <3> QED BY <2>1, UnitIn
  <2>5. \A u \in W : u \in Units(h, S)
    <3> HIDE DEF move, V
    <3> QED BY <2>3
  <2> HIDE DEF U, W
  <2> QED BY <2>2, <2>4, <2>5
<1>2. U \cap W = {}
  <2> SUFFICES ASSUME NEW v \in V, move[v] \in U PROVE FALSE
    OBVIOUS
  <2>1. PICK x \in S : \E k \in 1 .. g[x] : v = <<x, k>>
    BY UnitIn
  <2>2. PICK k \in 1 .. g[x] : v = <<x, k>>
    BY <2>1
  <2>3. <<x, f[x] + k>> \in U
    BY <2>2
  <2>4. f[x] + k \in 1 .. f[x]
    BY <2>3, UnitIn
  <2> QED BY <2>4 DEF NatOn
<1>3. IsFiniteSet(U) /\ IsFiniteSet(V)
  BY UnitsFinite
<1>4. move \in Bijection(V, W)
  <2>1. ASSUME NEW u \in V, NEW v \in V, move[u] = move[v] PROVE u = v
    <3>1. PICK x \in S : \E k \in 1 .. g[x] : u = <<x, k>>
      BY UnitIn
    <3>2. PICK k \in 1 .. g[x] : u = <<x, k>>
      BY <3>1
    <3>3. PICK y \in S : \E l \in 1 .. g[y] : v = <<y, l>>
      BY UnitIn
    <3>4. PICK l \in 1 .. g[y] : v = <<y, l>>
      BY <3>3
    <3>5. x = y /\ f[x] + k = f[y] + l
      BY <2>1, <3>2, <3>4
    <3> QED BY <3>2, <3>4, <3>5 DEF NatOn
  <2>2. move \in [V -> W] /\ \A w \in W : \E u \in V : move[u] = w
    OBVIOUS
  <2> HIDE DEF V, W, move
  <2> QED BY <2>1, <2>2 DEF Bijection, Injection, Surjection, IsInjective
<1>5. IsFiniteSet(W) /\ Cardinality(W) = Cardinality(V)
  <2> HIDE DEF V, W, move
  <2> QED BY <1>3, <1>4, FS_Bijection DEF ExistsBijection
<1>6. Cardinality(U \cup W) = Cardinality(U) + Cardinality(W)
  <2>1. /\ Cardinality(U \cup W) = Cardinality(U) + Cardinality(W) - Cardinality(U \cap W)
        /\ Cardinality(U) \in Nat /\ Cardinality(W) \in Nat
    <3> HIDE DEF U, W
    <3> QED BY <1>3, <1>5, FS_Union, FS_CardinalityType
  <2>2. Cardinality(U \cap W) = 0
    BY <1>2, FS_EmptySet
  <2> HIDE DEF U, W
  <2> QED BY <2>1, <2>2
<1> QED BY <1>1, <1>5, <1>6 DEF Total

\* rows that add nothing may be left out of a sum
LEMMA TotalPadded ==
  ASSUME NEW T, IsFiniteSet(T), NEW S, S \subseteq T, NEW f, NatOn(f, S), \A x \in T \ S : f[x] = 0
  PROVE  Total(f, T) = Total(f, S)
<1>1. ASSUME NEW u PROVE u \in Units(f, T) <=> u \in Units(f, S)
  BY UnitIn
<1>2. Units(f, T) = Units(f, S)
  BY <1>1
<1> QED BY <1>2 DEF Total

\* the numbers 1 .. n stand for the elements of a finite set
LEMMA Numbered ==
  ASSUME NEW S, IsFiniteSet(S)
  PROVE  \E F : F \in Bijection(1 .. Cardinality(S), S)
  BY FS_CardinalityType DEF ExistsBijection

\* a sum of the sums over disjoint groups of rows is the sum over all of them
LEMMA TotalGroups ==
  ASSUME NEW K, IsFiniteSet(K), NEW A, NEW f, NEW g,
         \A k \in K : IsFiniteSet(A[k]) /\ NatOn(f, A[k]) /\ g[k] = Total(f, A[k]),
         \A j, k \in K : j # k => A[j] \cap A[k] = {}
  PROVE  Total(g, K) = Total(f, UNION {A[k] : k \in K})
<1> DEFINE W == UNION {A[k] : k \in K}
           F == [k \in K |-> CHOOSE h : h \in Bijection(1 .. g[k], Units(f, A[k]))]
           move == [u \in Units(g, K) |-> F[u[1]][u[2]]]
<1>1. ASSUME NEW k \in K
      PROVE  /\ F[k] \in Bijection(1 .. g[k], Units(f, A[k])) /\ g[k] \in Nat
  <2>1. IsFiniteSet(Units(f, A[k])) /\ g[k] = Cardinality(Units(f, A[k])) /\ g[k] \in Nat
    BY UnitsFinite DEF Total
  <2>2. \E h : h \in Bijection(1 .. g[k], Units(f, A[k]))
    BY <2>1, Numbered
  <2> QED BY <2>1, <2>2
<1>2. ASSUME NEW k \in K
      PROVE  /\ \A n \in 1 .. g[k] : F[k][n] \in Units(f, A[k])
             /\ \A m, n \in 1 .. g[k] : F[k][m] = F[k][n] => m = n
             /\ \A v \in Units(f, A[k]) : \E n \in 1 .. g[k] : F[k][n] = v
  <2>1. F[k] \in Bijection(1 .. g[k], Units(f, A[k]))
    BY <1>1
  <2> HIDE DEF F
  <2> QED BY <2>1 DEF Bijection, Injection, Surjection, IsInjective
<1> HIDE DEF F
<1>3. ASSUME NEW u \in Units(g, K)
      PROVE  \E k \in K : \E n \in 1 .. g[k] : u = <<k, n>> /\ move[u] = F[k][n]
  <2>1. PICK k \in K : \E n \in 1 .. g[k] : u = <<k, n>>
    BY UnitIn
  <2>2. PICK n \in 1 .. g[k] : u = <<k, n>>
    BY <2>1
  <2> QED BY <2>2
<1>4. ASSUME NEW v PROVE v \in Units(f, W) <=> \E k \in K : v \in Units(f, A[k])
  <2>1. v \in Units(f, W) <=> \E x \in W : \E n \in 1 .. f[x] : v = <<x, n>>
    BY UnitIn
  <2>2. \A k : v \in Units(f, A[k]) <=> \E x \in A[k] : \E n \in 1 .. f[x] : v = <<x, n>>
    BY UnitIn
  <2>3. \A x : x \in W <=> \E k \in K : x \in A[k]
    OBVIOUS
  <2> HIDE DEF W
  <2> QED BY <2>1, <2>2, <2>3
<1>5. move \in [Units(g, K) -> Units(f, W)]
  <2>1. \A u \in Units(g, K) : move[u] \in Units(f, W)
    <3> HIDE DEF move, W
    <3> QED BY <1>2, <1>3, <1>4
  <2> HIDE DEF W
  <2> QED BY <2>1
<1>6. ASSUME NEW u \in Units(g, K), NEW v \in Units(g, K), move[u] = move[v] PROVE u = v
  <2> HIDE DEF move, W
  <2>1. PICK j \in K : \E n \in 1 .. g[j] : u = <<j, n>> /\ move[u] = F[j][n]
    BY <1>3
  <2>2. PICK k \in K : \E n \in 1 .. g[k] : v = <<k, n>> /\ move[v] = F[k][n]
    BY <1>3
  <2>8. PICK m \in 1 .. g[j] : u = <<j, m>> /\ move[u] = F[j][m]
    BY <2>1
  <2>9. PICK n \in 1 .. g[k] : v = <<k, n>> /\ move[v] = F[k][n]
    BY <2>2
  <2>3. F[j][m] \in Units(f, A[j]) /\ F[j][m] \in Units(f, A[k])
    BY <1>2, <1>6, <2>8, <2>9
  <2>4. PICK x \in A[j] : \E q \in 1 .. f[x] : F[j][m] = <<x, q>>
    BY <2>3, UnitIn
  <2>5. PICK y \in A[k] : \E q \in 1 .. f[y] : F[j][m] = <<y, q>>
    BY <2>3, UnitIn
  <2>6. x = y
    BY <2>4, <2>5
  <2>7. j = k
    BY <2>6
  <2> QED BY <1>2, <1>6, <2>7, <2>8, <2>9
<1>7. \A w \in Units(f, W) : \E u \in Units(g, K) : move[u] = w
  <2> SUFFICES ASSUME NEW w \in Units(f, W) PROVE \E u \in Units(g, K) : move[u] = w
    OBVIOUS
  <2>1. PICK k \in K : w \in Units(f, A[k])
    <3> HIDE DEF W
    <3> QED BY <1>4
  <2>2. PICK n \in 1 .. g[k] : F[k][n] = w
    BY <1>2, <2>1
  <2>3. <<k, n>> \in Units(g, K)
    BY UnitIn
  <2>4. move[<<k, n>>] = w
    BY <2>2, <2>3
  <2> QED BY <2>3, <2>4
<1>8. move \in Bijection(Units(g, K), Units(f, W))
  <2> HIDE DEF move, W
  <2> QED BY <1>5, <1>6, <1>7 DEF Bijection, Injection, Surjection, IsInjective
<1>9. IsFiniteSet(Units(g, K))
  BY <1>1, UnitsFinite DEF NatOn
<1>10. Cardinality(Units(f, W)) = Cardinality(Units(g, K))
  <2> HIDE DEF move, W
  <2> QED BY <1>8, <1>9, FS_Bijection DEF ExistsBijection
<1> QED BY <1>10 DEF Total

\* a quantity handed out in order, each row as much as it may take: all of it is handed
\* out when the rows can take it
LEMMA HandedOut ==
  ASSUME NEW O, O \subseteq Nat, IsFiniteSet(O), NEW cap, NatOn(cap, O), NEW need \in Nat,
         need <= Total(cap, O), NEW given, NatOn(given, O),
         \A o \in O : LET left == need - Total(cap, {c \in O : c < o})
                     IN  given[o] = IF left < 0 THEN 0 ELSE IF cap[o] < left THEN cap[o] ELSE left
  PROVE  need <= Total(given, O)
<1> DEFINE P(o) == {c \in O : c < o}
           S == {o \in O : need < Total(cap, P(o)) + cap[o]}
<1>1. ASSUME NEW o \in O
      PROVE  /\ P(o) \subseteq O /\ IsFiniteSet(P(o)) /\ NatOn(cap, P(o)) /\ NatOn(given, P(o))
             /\ Total(cap, P(o)) \in Nat /\ cap[o] \in Nat
  <2>1. P(o) \subseteq O /\ IsFiniteSet(P(o))
    BY FS_Subset
  <2> HIDE DEF P
  <2>2. NatOn(cap, P(o)) /\ NatOn(given, P(o)) /\ cap[o] \in Nat
    BY <2>1 DEF NatOn
  <2> QED BY <2>1, <2>2, UnitsFinite
<1>2. \A o \in O \ S : given[o] = cap[o]
  <2> SUFFICES ASSUME NEW o \in O, o \notin S PROVE given[o] = cap[o]
    OBVIOUS
  <2> DEFINE before == Total(cap, P(o))
  <2>1. before \in Nat /\ cap[o] \in Nat /\ ~ (need < before + cap[o])
    BY <1>1
  <2>2. given[o] = IF need - before < 0 THEN 0 ELSE IF cap[o] < need - before THEN cap[o] ELSE need - before
    OBVIOUS
  <2> HIDE DEF before
  <2> QED BY <2>1, <2>2
<1>3. CASE S = {}
  <2>1. Total(given, O) = Total(cap, O)
    BY <1>2, <1>3, TotalSame
  <2> QED BY <2>1
<1>4. CASE S # {}
  <2> DEFINE o == Min(S)
  <2>1. o \in O /\ o \in S /\ \A s \in S : o <= s
    <3>1. S \subseteq Nat /\ S \subseteq O
      OBVIOUS
    <3> HIDE DEF S
    <3> QED BY <1>4, <3>1, MinOfRows
  <2> HIDE DEF o
  <2>2. \A c \in P(o) : given[c] = cap[c]
    <3> SUFFICES ASSUME NEW c \in O, c < o PROVE given[c] = cap[c]
      OBVIOUS
    <3>1. c \notin S
      BY <2>1
    <3> HIDE DEF S
    <3> QED BY <1>2, <3>1
  <2>3. Total(given, P(o)) = Total(cap, P(o))
    <3> HIDE DEF P
    <3> QED BY <2>2, TotalSame
  <2> DEFINE before == Total(cap, P(o))
  <2>4. before \in Nat /\ cap[o] \in Nat /\ need < before + cap[o]
    BY <1>1, <2>1
  <2>5. given[o] = IF need - before < 0 THEN 0 ELSE IF cap[o] < need - before THEN cap[o] ELSE need - before
    BY <2>1
  <2>6. Total(given, P(o) \cup {o}) = before + given[o] /\ Total(given, P(o) \cup {o}) <= Total(given, O)
    <3>1. o \notin P(o) /\ P(o) \cup {o} \subseteq O /\ NatOn(given, {o}) /\ given[o] \in Nat
      BY <2>1 DEF NatOn
    <3> HIDE DEF P
    <3>2. IsFiniteSet({o}) /\ P(o) \cap {o} = {}
      BY <3>1, FS_Singleton
    <3>3. Total(given, P(o) \cup {o}) = Total(given, P(o)) + Total(given, {o})
      BY <1>1, <2>1, <3>1, <3>2, TotalSplit
    <3>4. Total(given, {o}) = given[o]
      BY <3>1, UnitsOfOne
    <3>5. Total(given, P(o) \cup {o}) <= Total(given, O)
      BY <3>1, TotalSubset
    <3> QED BY <2>3, <3>3, <3>4, <3>5
  <2>7. Total(given, O) \in Nat /\ given[o] \in Nat
    BY <2>1, UnitsFinite DEF NatOn
  <2> HIDE DEF before, P
  <2> QED BY <2>4, <2>5, <2>6, <2>7
<1> QED BY <1>3, <1>4

\* rows rewritten one by one, or fewer of them, do not add up to more
LEMMA TotalChosen ==
  ASSUME NEW S, NEW T, IsFiniteSet(T), NEW f, NatOn(f, T), NEW g, NEW of,
         \A x \in S : of[x] \in T /\ g[x] = f[of[x]],
         \A x, y \in S : of[x] = of[y] => x = y
  PROVE  Total(g, S) <= Total(f, T)
<1> DEFINE move == [u \in Units(g, S) |-> <<of[u[1]], u[2]>>]
<1>1. ASSUME NEW u \in Units(g, S)
      PROVE  \E x \in S : \E k \in 1 .. g[x] : u = <<x, k>> /\ move[u] = <<of[x], k>>
  BY UnitIn
<1>2. ASSUME NEW u \in Units(g, S) PROVE move[u] \in Units(f, T)
  <2> HIDE DEF move
  <2>1. PICK x \in S : \E k \in 1 .. g[x] : u = <<x, k>> /\ move[u] = <<of[x], k>>
    BY <1>1
  <2> QED BY <2>1, UnitIn
<1>3. ASSUME NEW u \in Units(g, S), NEW v \in Units(g, S), move[u] = move[v] PROVE u = v
  <2> HIDE DEF move
  <2>1. PICK x \in S : \E k \in 1 .. g[x] : u = <<x, k>> /\ move[u] = <<of[x], k>>
    BY <1>1
  <2>2. PICK k \in 1 .. g[x] : u = <<x, k>> /\ move[u] = <<of[x], k>>
    BY <2>1
  <2>3. PICK y \in S : \E n \in 1 .. g[y] : v = <<y, n>> /\ move[v] = <<of[y], n>>
    BY <1>1
  <2>4. PICK n \in 1 .. g[y] : v = <<y, n>> /\ move[v] = <<of[y], n>>
    BY <2>3
  <2>5. of[x] = of[y] /\ k = n
    BY <1>3, <2>2, <2>4
  <2> QED BY <2>2, <2>4, <2>5
<1>4. move \in Injection(Units(g, S), Units(f, T))
  <2>1. move \in [Units(g, S) -> Units(f, T)]
    BY <1>2
  <2> HIDE DEF move
  <2> QED BY <1>3, <2>1 DEF Injection, IsInjective
<1> HIDE DEF move
<1>5. IsFiniteSet(Units(f, T))
  BY UnitsFinite
<1> QED BY <1>4, <1>5, FS_Injection DEF Total

\* one entry more
Adds(S, f, T, g, x, q) == /\ x \notin S /\ T = S \cup {x}
                          /\ g[x] = q /\ \A y \in S : g[y] = f[y]

LEMMA TotalMore ==
  ASSUME NEW S, IsFiniteSet(S), NEW f, NatOn(f, S), NEW x, NEW q \in Nat,
         NEW T, NEW g, Adds(S, f, T, g, x, q)
  PROVE  Total(g, T) = Total(f, S) + q
<1>1. IsFiniteSet(T) /\ x \in T /\ T \ {x} = S
  BY FS_AddElement DEF Adds
<1>2. NatOn(g, T) /\ g[x] = q
  BY DEF NatOn, Adds
<1>3. Total(g, T) = Total(g, S) + g[x]
  BY <1>1, <1>2, TotalWithout
<1>4. Total(g, S) = Total(f, S)
  BY TotalSame DEF Adds
<1> QED BY <1>2, <1>3, <1>4

=============================================================================
