--------------------------- MODULE TotalsTheorems ---------------------------
(* Facts about Total that the proofs about credits cite.                   *)
EXTENDS Totals, FiniteSetTheorems, TLAPS

(* The total of finitely many natural numbers is a natural number.         *)
LEMMA TotalType ==
    ASSUME NEW S, IsFiniteSet(S), NEW f \in [S -> Nat]
    PROVE  IsFiniteSet(Units(f)) /\ Total(f) \in Nat
<1> DEFINE Part(x) == {x} \X (1..f[x])
           Parts   == {Part(x) : x \in S}
           g       == [x \in S |-> Part(x)]
<1>1. g \in Surjection(S, Parts)
  BY DEF Surjection
<1>2. IsFiniteSet(Parts)
  <2> HIDE DEF Parts, g
  <2> QED BY <1>1, FS_Surjection
<1>3. \A T \in Parts : IsFiniteSet(T)
  <2> SUFFICES ASSUME NEW x \in S PROVE IsFiniteSet(Part(x))
    OBVIOUS
  <2>1. IsFiniteSet({x})
    BY FS_Singleton
  <2>2. IsFiniteSet(1..f[x])
    BY FS_Interval
  <2> QED BY <2>1, <2>2, FS_Product
<1>4. Units(f) = UNION Parts
  BY DEF Units
<1>5. IsFiniteSet(Units(f))
  <2> HIDE DEF Parts
  <2> QED BY <1>2, <1>3, <1>4, FS_UNION
<1> QED BY <1>5, FS_CardinalityType DEF Total

(* A pair counts one unit of f.                                            *)
LEMMA UnitsMembers ==
    ASSUME NEW S, NEW f \in [S -> Nat]
    PROVE  /\ \A x, k : <<x, k>> \in Units(f) <=> x \in S /\ k \in 1..f[x]
           /\ \A u \in Units(f) : u = <<u[1], u[2]>> /\ u[1] \in S /\ u[2] \in 1..f[u[1]]
<1>1. DOMAIN f = S
  OBVIOUS
<1>2. \A u : u \in Units(f) <=> \E x \in S : u \in {x} \X (1..f[x])
  BY <1>1 DEF Units
<1>3. ASSUME NEW x, NEW k PROVE <<x, k>> \in Units(f) <=> x \in S /\ k \in 1..f[x]
  BY <1>2
<1>4. ASSUME NEW u \in Units(f)
      PROVE  u = <<u[1], u[2]>> /\ u[1] \in S /\ u[2] \in 1..f[u[1]]
  <2>1. PICK x \in S : u \in {x} \X (1..f[x])
    BY <1>2
  <2> QED BY <2>1
<1> QED BY <1>3, <1>4

(* Functions that agree where they are not zero have the same total.       *)
LEMMA TotalExtend ==
    ASSUME NEW S, NEW T, NEW f \in [S -> Nat], NEW g \in [T -> Nat], S \subseteq T,
           \A x \in S : g[x] = f[x], \A x \in T \ S : g[x] = 0
    PROVE  Total(g) = Total(f)
<1>1. \A x, k : <<x, k>> \in Units(f) <=> <<x, k>> \in Units(g)
  <2> TAKE x, k
  <2>1. <<x, k>> \in Units(f) <=> x \in S /\ k \in 1..f[x]
    BY UnitsMembers
  <2>2. <<x, k>> \in Units(g) <=> x \in T /\ k \in 1..g[x]
    BY UnitsMembers
  <2>3. x \in T /\ x \notin S => k \notin 1..g[x]
    OBVIOUS
  <2> QED BY <2>1, <2>2, <2>3
<1>2. Units(f) = Units(g)
  BY <1>1, UnitsMembers
<1> QED BY <1>2 DEF Total

(* Nothing adds up to nothing.                                             *)
LEMMA TotalZero ==
    ASSUME NEW S, NEW f \in [S -> Nat], \A x \in S : f[x] = 0
    PROVE  Total(f) = 0
<1>1. Units(f) = {}
  BY UnitsMembers
<1> QED BY <1>1, FS_EmptySet DEF Total

(* Totals add up.                                                          *)
LEMMA TotalAdd ==
    ASSUME NEW S, IsFiniteSet(S), NEW f \in [S -> Nat], NEW g \in [S -> Nat], NEW h \in [S -> Nat],
           \A x \in S : h[x] = f[x] + g[x]
    PROVE  Total(h) = Total(f) + Total(g)
<1> DEFINE Up(u) == <<u[1], f[u[1]] + u[2]>>
           B     == {Up(u) : u \in Units(g)}
           up    == [u \in Units(g) |-> Up(u)]
<1>1. /\ IsFiniteSet(Units(f)) /\ IsFiniteSet(Units(g))
      /\ Total(f) \in Nat /\ Total(g) \in Nat
  BY TotalType
<1>2. up \in Bijection(Units(g), B)
  <2>1. up \in Surjection(Units(g), B)
    <3> HIDE DEF Up
    <3> QED BY DEF Surjection
  <2>2. ASSUME NEW u \in Units(g), NEW v \in Units(g), up[u] = up[v] PROVE u = v
    <3>1. /\ u = <<u[1], u[2]>> /\ u[1] \in S /\ u[2] \in Nat
          /\ v = <<v[1], v[2]>> /\ v[1] \in S /\ v[2] \in Nat
      BY UnitsMembers
    <3>2. u[1] = v[1] /\ f[u[1]] + u[2] = f[v[1]] + v[2]
      BY <2>2
    <3>3. u[2] = v[2]
      BY <3>1, <3>2
    <3> QED BY <3>1, <3>2, <3>3
  <2> HIDE DEF up, B
  <2> QED BY <2>1, <2>2 DEF Bijection, Injection, Surjection, IsInjective
<1>3. IsFiniteSet(B) /\ Cardinality(B) = Total(g)
  <2>1. ExistsBijection(Units(g), B)
    BY <1>2 DEF ExistsBijection
  <2> HIDE DEF B
  <2> QED BY <1>1, <2>1, FS_Bijection DEF Total
<1>4. Units(f) \cap B = {}
  <2> SUFFICES ASSUME NEW u \in Units(g), Up(u) \in Units(f) PROVE FALSE
    OBVIOUS
  <2>1. u[1] \in S /\ u[2] \in 1..g[u[1]] /\ f[u[1]] + u[2] \in 1..f[u[1]]
    BY UnitsMembers
  <2>2. f[u[1]] \in Nat /\ g[u[1]] \in Nat
    BY <2>1
  <2> QED BY <2>1, <2>2
<1>5. Units(h) = Units(f) \cup B
  <2>1. ASSUME NEW w \in Units(f) PROVE w \in Units(h)
    <3>1. w = <<w[1], w[2]>> /\ w[1] \in S /\ w[2] \in 1..f[w[1]]
      BY UnitsMembers
    <3>2. w[2] \in 1..h[w[1]]
      BY <3>1
    <3> QED BY <3>1, <3>2, UnitsMembers
  <2>2. ASSUME NEW u \in Units(g) PROVE Up(u) \in Units(h)
    <3>1. u[1] \in S /\ u[2] \in 1..g[u[1]]
      BY UnitsMembers
    <3>2. f[u[1]] + u[2] \in 1..h[u[1]]
      BY <3>1
    <3> QED BY <3>1, <3>2, UnitsMembers
  <2>3. ASSUME NEW w \in Units(h), w \notin Units(f) PROVE w \in B
    <3>1. w = <<w[1], w[2]>> /\ w[1] \in S /\ w[2] \in 1..h[w[1]]
      BY UnitsMembers
    <3>2. w[2] \notin 1..f[w[1]]
      BY <2>3, <3>1, UnitsMembers
    <3>3. w[2] - f[w[1]] \in 1..g[w[1]] /\ f[w[1]] + (w[2] - f[w[1]]) = w[2]
      BY <3>1, <3>2
    <3> DEFINE u == <<w[1], w[2] - f[w[1]]>>
    <3>4. u \in Units(g)
      BY <3>1, <3>3, UnitsMembers
    <3>5. w = Up(u)
      BY <3>1, <3>3
    <3> QED BY <3>4, <3>5
  <2> QED BY <2>1, <2>2, <2>3
<1> HIDE DEF B
<1>6. Cardinality(Units(h)) = Cardinality(Units(f)) + Cardinality(B) - Cardinality({})
  BY <1>1, <1>3, <1>4, <1>5, FS_Union
<1> QED BY <1>1, <1>3, <1>6, FS_EmptySet DEF Total

(* The size of a set counts one for each member.                           *)
LEMMA TotalCount ==
    ASSUME NEW S, IsFiniteSet(S), NEW R \in SUBSET S, NEW f \in [S -> Nat],
           \A x \in S : f[x] = IF x \in R THEN 1 ELSE 0
    PROVE  Total(f) = Cardinality(R)
<1> DEFINE one == [x \in R |-> <<x, 1>>]
<1>1. IsFiniteSet(R)
  BY FS_Subset
<1>2. one \in Bijection(R, Units(f))
  <2>1. one \in [R -> Units(f)]
    BY UnitsMembers
  <2>2. ASSUME NEW u \in Units(f) PROVE u[1] \in R /\ one[u[1]] = u
    BY UnitsMembers
  <2>3. \A x, y \in R : one[x] = one[y] => x = y
    OBVIOUS
  <2> HIDE DEF one
  <2> QED BY <2>1, <2>2, <2>3 DEF Bijection, Injection, Surjection, IsInjective
<1>3. ExistsBijection(R, Units(f))
  BY <1>2 DEF ExistsBijection
<1> QED BY <1>1, <1>3, FS_Bijection DEF Total

(* A single amount is its own total.                                       *)
LEMMA TotalPoint ==
    ASSUME NEW S, NEW x \in S, NEW f \in [S -> Nat], \A y \in S \ {x} : f[y] = 0
    PROVE  Total(f) = f[x]
<1> DEFINE unit == [k \in 1..f[x] |-> <<x, k>>]
<1>1. unit \in Bijection(1..f[x], Units(f))
  <2>1. unit \in [1..f[x] -> Units(f)]
    BY UnitsMembers
  <2>2. ASSUME NEW u \in Units(f) PROVE u[2] \in 1..f[x] /\ unit[u[2]] = u
    BY UnitsMembers
  <2>3. \A j, k \in 1..f[x] : unit[j] = unit[k] => j = k
    OBVIOUS
  <2> HIDE DEF unit
  <2> QED BY <2>1, <2>2, <2>3 DEF Bijection, Injection, Surjection, IsInjective
<1>2. ExistsBijection(1..f[x], Units(f))
  BY <1>1 DEF ExistsBijection
<1> QED BY <1>2, FS_CountingElements DEF Total

(* One amount that was zero is set.                                        *)
LEMMA TotalUpdate ==
    ASSUME NEW S, IsFiniteSet(S), NEW f \in [S -> Nat], NEW h \in [S -> Nat],
           NEW x \in S, f[x] = 0, \A y \in S \ {x} : h[y] = f[y]
    PROVE  Total(h) = Total(f) + h[x]
<1> DEFINE g == [y \in S |-> IF y = x THEN h[x] ELSE 0]
<1>1. /\ g \in [S -> Nat] /\ \A y \in S : h[y] = f[y] + g[y]
      /\ \A y \in S \ {x} : g[y] = 0
      /\ g[x] = h[x]
  OBVIOUS
<1> HIDE DEF g
<1>2. Total(g) = g[x]
  BY <1>1, TotalPoint
<1>3. Total(h) = Total(f) + Total(g)
  BY <1>1, TotalAdd
<1> QED BY <1>1, <1>2, <1>3

(* A row is inserted into a table.                                         *)
LEMMA TotalInsert ==
    ASSUME NEW S, NEW T, IsFiniteSet(T), NEW x \in T, x \notin S,
           \A y \in S : y \in T, \A y \in T : y = x \/ y \in S,
           NEW f \in [S -> Nat], NEW g \in [T -> Nat], \A y \in S : g[y] = f[y]
    PROVE  Total(g) = Total(f) + g[x]
<1> DEFINE e == [y \in T |-> IF y = x THEN 0 ELSE f[y]]
<1>1. /\ e \in [T -> Nat] /\ e[x] = 0 /\ S \subseteq T
      /\ \A y \in S : e[y] = f[y]
      /\ \A y \in T \ S : e[y] = 0
  OBVIOUS
<1>2. \A y \in T \ {x} : g[y] = e[y]
  OBVIOUS
<1> HIDE DEF e
<1>3. Total(e) = Total(f)
  BY <1>1, TotalExtend
<1>4. Total(g) = Total(e) + g[x]
  BY <1>1, <1>2, TotalUpdate
<1> QED BY <1>3, <1>4

=============================================================================
