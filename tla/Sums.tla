-------------------------------- MODULE Sums --------------------------------
(***************************************************************************)
(* Induction over finite sets and numbers, and sums over finite sets: what *)
(* the proofs about loads of shards and averages of durations rest on.     *)
(*                                                                         *)
(* The library's induction theorems have an operator for a parameter.  The *)
(* facts behind them have none: strict inclusion of finite sets is well    *)
(* founded, and what is well founded has minimal elements.  A property is  *)
(* proved for every set by taking a minimal one among those without it.    *)
(***************************************************************************)
EXTENDS FiniteSetsExt, FiniteSetTheorems, TLAPS

(* Of subsets of a finite set, some contain none of the others. *)
LEMMA MinimalSubset ==
  ASSUME NEW S, IsFiniteSet(S), NEW F, F \subseteq SUBSET S, F # {}
  PROVE  \E s \in F : \A u \in F : u \subseteq s => u = s
<1>1. IsWellFoundedOn(StrictSubsetOrdering(S), SUBSET S)
  BY FS_StrictSubsetOrderingWellFounded, FS_FiniteSubsetsOfFinite
<1>2. PICK s \in F : \A u \in F : ~ (<<u, s>> \in StrictSubsetOrdering(S))
  BY <1>1, WFMin
<1> QED BY <1>2 DEF StrictSubsetOrdering

(* Of natural numbers, one is the least. *)
LEMMA LeastNumber ==
  ASSUME NEW N, N \subseteq Nat, N # {}
  PROVE  \E n \in N : \A m \in N : n <= m
<1>1. PICK top \in N : TRUE
  OBVIOUS
<1> DEFINE All == 1..top
           F == {1..n : n \in {m \in N : m <= top}}
<1>2. IsFiniteSet(All)
  BY FS_Interval
<1>3. F \subseteq SUBSET All /\ F # {}
  BY <1>1
<1> HIDE DEF F, All
<1>4. PICK s \in F : \A u \in F : u \subseteq s => u = s
  BY <1>2, <1>3, MinimalSubset
<1> USE DEF F
<1>5. PICK n \in N : n <= top /\ s = 1..n
  BY <1>4
<1>6. ASSUME NEW m \in N, ~ (n <= m) PROVE FALSE
  <2>1. m <= top /\ 1..m \subseteq 1..n /\ n \in 1..n /\ n \notin 1..m
    BY <1>5, <1>6, <1>1
  <2> QED BY <2>1, <1>4, <1>5
<1> QED BY <1>5, <1>6

(* Of natural numbers in a finite set, one is the greatest. *)
LEMMA GreatestNumber ==
  ASSUME NEW N, N \subseteq Nat, N # {}, IsFiniteSet(N)
  PROVE  \E n \in N : \A m \in N : m <= n
<1> DEFINE All == N
           Above(n) == {m \in N : m > n}
           F == {Above(n) : n \in N}
<1>1. IsFiniteSet(All) /\ F \subseteq SUBSET All /\ F # {}
  OBVIOUS
<1> HIDE DEF F, All
<1>2. PICK s \in F : \A u \in F : u \subseteq s => u = s
  BY <1>1, MinimalSubset
<1> USE DEF F
<1>3. PICK n \in N : s = Above(n)
  BY <1>2
<1>4. ASSUME NEW m \in N, ~ (m <= n) PROVE FALSE
  <2>1. m \in Nat /\ n \in Nat /\ m > n
    BY <1>4
  <2>2. \A k \in Above(m) : k \in Nat /\ k > n
    BY <2>1
  <2>3. Above(m) \subseteq Above(n)
    BY <2>1, <2>2
  <2>4. m \in Above(n) /\ m \notin Above(m)
    BY <2>1
  <2> QED BY <2>3, <2>4, <1>2, <1>3
<1> QED BY <1>3, <1>4

(* What a function makes of a finite set is finite. *)
LEMMA ImageIsFinite ==
  ASSUME NEW S, IsFiniteSet(S), NEW f
  PROVE  IsFiniteSet({f[x] : x \in S})
<1> DEFINE T == {f[x] : x \in S}
           g == [x \in S |-> f[x]]
<1>1. g \in Surjection(S, T)
  BY DEF Surjection
<1> HIDE DEF g
<1> QED BY <1>1, FS_Surjection

(* Induction: the empty set is good, and so is a good one with one more.   *)
LEMMA SetInduction ==
  ASSUME NEW S, IsFiniteSet(S), NEW G, {} \in G,
         \A s \in SUBSET S, x \in S : s \in G /\ x \notin s => s \cup {x} \in G
  PROVE  SUBSET S \subseteq G
<1> DEFINE F == (SUBSET S) \ G
<1> SUFFICES ASSUME F # {} PROVE FALSE
  OBVIOUS
<1>1. F \subseteq SUBSET S
  OBVIOUS
<1> HIDE DEF F
<1>2. PICK s \in F : \A u \in F : u \subseteq s => u = s
  BY <1>1, MinimalSubset
<1> USE DEF F
<1>3. PICK x \in s : TRUE
  BY <1>2
<1>4. s \ {x} \in G
  BY <1>2
<1>5. (s \ {x}) \cup {x} \in G
  BY <1>4
<1>6. (s \ {x}) \cup {x} = s
  OBVIOUS
<1> QED BY <1>5, <1>6

-----------------------------------------------------------------------------
(***************************************************************************)
(* The sum of h over S, and the function by which MapThenSumSet defines    *)
(* it.  There is exactly one such function if S is finite.                 *)
(***************************************************************************)
SumOver(h, S) == MapThenSumSet(LAMBDA x : h[x], S)

Some(s) == CHOOSE x \in s : TRUE

Adds(f, h, S) ==
  f = [s \in SUBSET S |-> IF s = {} THEN 0 ELSE h[Some(s)] + f[s \ {Some(s)}]]

LEMMA SumIsChosen ==
  ASSUME NEW S, NEW h
  PROVE  SumOver(h, S) = (CHOOSE f : Adds(f, h, S))[S]
BY DEF SumOver, MapThenSumSet, MapThenFoldSet, Adds, Some

LEMMA SomeIsOne == \A s : s # {} => Some(s) \in s
BY DEF Some

LEMMA AddsUnique ==
  ASSUME NEW S, IsFiniteSet(S), NEW h, NEW f, NEW g, Adds(f, h, S), Adds(g, h, S)
  PROVE  f = g
<1> DEFINE F == {s \in SUBSET S : f[s] # g[s]}
<1>1. CASE F = {}
  <2>1. \A s \in SUBSET S : f[s] = g[s]
    BY <1>1
  <2>2. f = [s \in SUBSET S |-> f[s]] /\ g = [s \in SUBSET S |-> g[s]]
    BY DEF Adds
  <2> QED BY <2>1, <2>2
<1>2. CASE F # {}
  <2>0. F \subseteq SUBSET S
    OBVIOUS
  <2> HIDE DEF F
  <2>1. PICK s \in F : \A u \in F : u \subseteq s => u = s
    BY <1>2, <2>0, MinimalSubset
  <2> USE DEF F
  <2>2. f[s] = IF s = {} THEN 0 ELSE h[Some(s)] + f[s \ {Some(s)}]
    BY DEF Adds
  <2>3. g[s] = IF s = {} THEN 0 ELSE h[Some(s)] + g[s \ {Some(s)}]
    BY DEF Adds
  <2>4. s # {} => s \ {Some(s)} \notin F
    BY <2>1, SomeIsOne
  <2>5. s # {} => f[s \ {Some(s)}] = g[s \ {Some(s)}]
    BY <2>4
  <2> QED BY <2>2, <2>3, <2>5
<1> QED BY <1>1, <1>2

LEMMA AddsBelow ==
  ASSUME NEW S, NEW h, NEW f, Adds(f, h, S), NEW T \in SUBSET S
  PROVE  Adds([s \in SUBSET T |-> f[s]], h, T)
<1> DEFINE g == [s \in SUBSET T |-> f[s]]
<1>1. ASSUME NEW s \in SUBSET T
      PROVE  g[s] = IF s = {} THEN 0 ELSE h[Some(s)] + g[s \ {Some(s)}]
  <2>1. f[s] = IF s = {} THEN 0 ELSE h[Some(s)] + f[s \ {Some(s)}]
    BY DEF Adds
  <2> QED BY <2>1
<1> HIDE DEF g
<1>2. g = [s \in SUBSET T |-> g[s]]
  BY DEF g
<1>3. g = [s \in SUBSET T |-> IF s = {} THEN 0 ELSE h[Some(s)] + g[s \ {Some(s)}]]
  BY <1>1, <1>2
<1> QED BY <1>3 DEF Adds, g

LEMMA AddsExists ==
  ASSUME NEW S, IsFiniteSet(S), NEW h
  PROVE  \E f : Adds(f, h, S)
<1> DEFINE F == {s \in SUBSET S : ~ \E f : Adds(f, h, s)}
<1> SUFFICES ASSUME F # {} PROVE FALSE
  OBVIOUS
<1>0. F \subseteq SUBSET S
  OBVIOUS
<1> HIDE DEF F
<1>1. PICK s \in F : \A u \in F : u \subseteq s => u = s
  BY <1>0, MinimalSubset
<1> USE DEF F
<1> DEFINE On(u) == CHOOSE f : Adds(f, h, u)
           last  == s \ {Some(s)}
           g == [u \in SUBSET s |-> IF u # s THEN On(u)[u]
                                    ELSE IF s = {} THEN 0 ELSE h[Some(s)] + On(last)[last]]
<1>2. \A u \in SUBSET s : u # s => Adds(On(u), h, u)
  BY <1>1
<1>3. ASSUME NEW u \in SUBSET s, u # s, NEW v \in SUBSET u PROVE On(u)[v] = On(v)[v]
  <2>1. Adds(On(u), h, u) /\ Adds(On(v), h, v)
    BY <1>2, <1>3
  <2>2. Adds([w \in SUBSET v |-> On(u)[w]], h, v)
    BY <2>1, AddsBelow
  <2>3. IsFiniteSet(v)
    BY FS_Subset
  <2> HIDE DEF On
  <2>4. [w \in SUBSET v |-> On(u)[w]] = On(v)
    BY <2>1, <2>2, <2>3, AddsUnique
  <2> QED BY <2>4
<1>4. ASSUME NEW u \in SUBSET s
      PROVE  g[u] = IF u = {} THEN 0 ELSE h[Some(u)] + g[u \ {Some(u)}]
  <2>1. CASE u = s
    <3>1. s # {} => last # s /\ last \in SUBSET s
      BY SomeIsOne
    <3> HIDE DEF On, last
    <3>2. s # {} => g[last] = On(last)[last]
      BY <3>1
    <3> QED BY <2>1, <3>2 DEF last
  <2>2. CASE u # s
    <3>1. Adds(On(u), h, u)
      BY <1>2, <2>2
    <3> HIDE DEF On
    <3>2. On(u)[u] = IF u = {} THEN 0 ELSE h[Some(u)] + On(u)[u \ {Some(u)}]
      BY <3>1 DEF Adds
    <3>3. u # {} => u \ {Some(u)} # s
      BY SomeIsOne
    <3>4. u # {} => On(u)[u \ {Some(u)}] = g[u \ {Some(u)}]
      BY <2>2, <3>3, <1>3
    <3> QED BY <2>2, <3>2, <3>4
  <2> QED BY <2>1, <2>2
<1>5. g = [u \in SUBSET s |-> g[u]]
  OBVIOUS
<1> HIDE DEF g
<1>6. g = [u \in SUBSET s |-> IF u = {} THEN 0 ELSE h[Some(u)] + g[u \ {Some(u)}]]
  BY <1>4, <1>5
<1>7. Adds(g, h, s)
  BY <1>6 DEF Adds
<1> QED BY <1>1, <1>7

(* The sum obeys the equation it is defined by. *)
LEMMA SumEquation ==
  ASSUME NEW S, IsFiniteSet(S), NEW h
  PROVE  SumOver(h, S) = IF S = {} THEN 0 ELSE h[Some(S)] + SumOver(h, S \ {Some(S)})
<1> DEFINE On(u) == CHOOSE f : Adds(f, h, u)
           T == S \ {Some(S)}
<1>1. IsFiniteSet(T) /\ T \in SUBSET S
  BY FS_Subset
<1>2. Adds(On(S), h, S) /\ Adds(On(T), h, T)
  BY <1>1, AddsExists
<1>3. SumOver(h, S) = On(S)[S] /\ SumOver(h, T) = On(T)[T]
  BY SumIsChosen
<1> HIDE DEF On, T
<1>4. On(T) = [s \in SUBSET T |-> On(S)[s]]
  <2>1. Adds([s \in SUBSET T |-> On(S)[s]], h, T)
    BY <1>1, <1>2, AddsBelow
  <2> QED BY <1>1, <1>2, <2>1, AddsUnique
<1>5. On(T)[T] = On(S)[T]
  BY <1>4
<1>6. On(S)[S] = IF S = {} THEN 0 ELSE h[Some(S)] + On(S)[T]
  BY <1>2 DEF Adds, T
<1> QED BY <1>3, <1>5, <1>6 DEF T

-----------------------------------------------------------------------------
(***************************************************************************)
(* Sums of numbers.                                                        *)
(***************************************************************************)
LEMMA SumEmpty == \A h : SumOver(h, {}) = 0
BY SumEquation, FS_EmptySet

LEMMA SumType ==
  ASSUME NEW S, IsFiniteSet(S), NEW h, \A x \in S : h[x] \in Nat
  PROVE  SumOver(h, S) \in Nat
<1> DEFINE F == {s \in SUBSET S : SumOver(h, s) \notin Nat}
<1> SUFFICES ASSUME F # {} PROVE FALSE
  OBVIOUS
<1>1. F \subseteq SUBSET S
  OBVIOUS
<1> HIDE DEF F
<1>2. PICK s \in F : \A u \in F : u \subseteq s => u = s
  BY <1>1, MinimalSubset
<1> USE DEF F
<1>3. IsFiniteSet(s)
  BY FS_Subset
<1>4. SumOver(h, s) = IF s = {} THEN 0 ELSE h[Some(s)] + SumOver(h, s \ {Some(s)})
  BY <1>3, SumEquation
<1>5. s # {} => Some(s) \in S /\ SumOver(h, s \ {Some(s)}) \in Nat
  BY <1>2, SomeIsOne
<1> QED BY <1>4, <1>5

LEMMA SumInteger ==
  ASSUME NEW S, IsFiniteSet(S), NEW h, \A x \in S : h[x] \in Int
  PROVE  SumOver(h, S) \in Int
<1> DEFINE F == {s \in SUBSET S : SumOver(h, s) \notin Int}
<1> SUFFICES ASSUME F # {} PROVE FALSE
  OBVIOUS
<1>1. F \subseteq SUBSET S
  OBVIOUS
<1> HIDE DEF F
<1>2. PICK s \in F : \A u \in F : u \subseteq s => u = s
  BY <1>1, MinimalSubset
<1> USE DEF F
<1>3. IsFiniteSet(s)
  BY FS_Subset
<1>4. SumOver(h, s) = IF s = {} THEN 0 ELSE h[Some(s)] + SumOver(h, s \ {Some(s)})
  BY <1>3, SumEquation
<1>5. s # {} => Some(s) \in S /\ SumOver(h, s \ {Some(s)}) \in Int
  BY <1>2, SomeIsOne
<1> QED BY <1>4, <1>5

(* Any element can be the first to be added. *)
LEMMA SumRemove ==
  ASSUME NEW S, IsFiniteSet(S), NEW h, \A x \in S : h[x] \in Int, NEW x \in S
  PROVE  SumOver(h, S) = h[x] + SumOver(h, S \ {x})
<1> DEFINE Bad(s) == \E y \in s : SumOver(h, s) # h[y] + SumOver(h, s \ {y})
           F == {s \in SUBSET S : Bad(s)}
<1> SUFFICES ASSUME F # {} PROVE FALSE
  OBVIOUS
<1>1. F \subseteq SUBSET S
  OBVIOUS
<1> HIDE DEF F
<1>2. PICK s \in F : \A u \in F : u \subseteq s => u = s
  BY <1>1, MinimalSubset
<1> USE DEF F
<1>3. PICK y \in s : SumOver(h, s) # h[y] + SumOver(h, s \ {y})
  BY <1>2
<1> DEFINE z == Some(s)
<1>4. z \in s
  BY <1>3, SomeIsOne
<1>5. SumOver(h, s) = h[z] + SumOver(h, s \ {z})
  BY <1>3, FS_Subset, SumEquation
<1> HIDE DEF z
<1>6. z # y
  BY <1>3, <1>5
<1>7. \A u \in SUBSET s : u # s => ~ Bad(u)
  BY <1>2
<1>8. SumOver(h, s \ {z}) = h[y] + SumOver(h, (s \ {z}) \ {y})
  BY <1>4, <1>6, <1>7
<1>9. SumOver(h, s \ {y}) = h[z] + SumOver(h, (s \ {y}) \ {z})
  BY <1>3, <1>4, <1>6, <1>7
<1>10. (s \ {z}) \ {y} = (s \ {y}) \ {z}
  OBVIOUS
<1> DEFINE rest == SumOver(h, (s \ {z}) \ {y})
<1>11. rest \in Int /\ h[z] \in Int /\ h[y] \in Int
  BY <1>4, FS_Subset, SumInteger
<1>12. SumOver(h, s \ {z}) = h[y] + rest /\ SumOver(h, s \ {y}) = h[z] + rest
  BY <1>8, <1>9, <1>10
<1> HIDE DEF rest
<1>13. SumOver(h, s) = h[z] + (h[y] + rest) /\ SumOver(h, s) # h[y] + (h[z] + rest)
  BY <1>3, <1>5, <1>12
<1> QED BY <1>11, <1>13

LEMMA SumAddInteger ==
  ASSUME NEW S, IsFiniteSet(S), NEW h, NEW x, x \notin S, \A y \in S \cup {x} : h[y] \in Int
  PROVE  SumOver(h, S \cup {x}) = h[x] + SumOver(h, S)
<1>1. IsFiniteSet(S \cup {x})
  BY FS_AddElement
<1>2. (S \cup {x}) \ {x} = S
  OBVIOUS
<1> QED BY <1>1, <1>2, SumRemove

LEMMA SumAdd ==
  ASSUME NEW S, IsFiniteSet(S), NEW h, NEW x, x \notin S, \A y \in S \cup {x} : h[y] \in Nat
  PROVE  SumOver(h, S \cup {x}) = h[x] + SumOver(h, S)
<1>1. \A y \in S \cup {x} : h[y] \in Int
  OBVIOUS
<1> QED BY <1>1, SumAddInteger

LEMMA SumSingleton == \A h, x : h[x] \in Nat => SumOver(h, {x}) = h[x]
<1> SUFFICES ASSUME NEW h, NEW x, h[x] \in Nat PROVE SumOver(h, {x}) = h[x]
  OBVIOUS
<1>1. {} \cup {x} = {x}
  OBVIOUS
<1>2. SumOver(h, {} \cup {x}) = h[x] + SumOver(h, {})
  BY FS_EmptySet, SumAdd
<1> QED BY <1>1, <1>2, SumEmpty

LEMMA SumOfTwo ==
  ASSUME NEW h, NEW x, NEW y, x # y, h[x] \in Nat, h[y] \in Nat
  PROVE  SumOver(h, {x, y}) = h[x] + h[y]
<1>1. IsFiniteSet({y}) /\ {y} \cup {x} = {x, y}
  BY FS_Singleton
<1>2. SumOver(h, {y} \cup {x}) = h[x] + SumOver(h, {y})
  BY <1>1, SumAdd
<1>3. SumOver(h, {x, y}) = SumOver(h, {y} \cup {x})
  BY <1>1
<1> QED BY <1>2, <1>3, SumSingleton

LEMMA SumUnion ==
  ASSUME NEW S, IsFiniteSet(S), NEW T, IsFiniteSet(T), S \cap T = {},
         NEW h, \A x \in S \cup T : h[x] \in Nat
  PROVE  SumOver(h, S \cup T) = SumOver(h, S) + SumOver(h, T)
<1> DEFINE G == {t \in SUBSET T : SumOver(h, S \cup t) = SumOver(h, S) + SumOver(h, t)}
<1>1. {} \in G
  <2>1. S \cup {} = S
    OBVIOUS
  <2> QED BY <2>1, SumType, SumEmpty
<1>2. ASSUME NEW t \in SUBSET T, NEW x \in T, t \in G, x \notin t PROVE t \cup {x} \in G
  <2>1. S \cup (t \cup {x}) = (S \cup t) \cup {x}
    OBVIOUS
  <2>2. IsFiniteSet(t)
    BY FS_Subset
  <2>3. IsFiniteSet(S \cup t)
    BY <2>2, FS_Union
  <2>4. SumOver(h, (S \cup t) \cup {x}) = h[x] + SumOver(h, S \cup t)
    BY <1>2, <2>3, SumAdd
  <2>5. SumOver(h, t \cup {x}) = h[x] + SumOver(h, t)
    BY <1>2, <2>2, SumAdd
  <2>6. SumOver(h, S) \in Nat /\ SumOver(h, t) \in Nat /\ h[x] \in Nat
    BY <2>2, SumType
  <2>7. SumOver(h, S \cup (t \cup {x})) = SumOver(h, (S \cup t) \cup {x})
    BY <2>1
  <2>8. SumOver(h, S \cup t) = SumOver(h, S) + SumOver(h, t)
    BY <1>2
  <2>9. SumOver(h, S \cup (t \cup {x})) = SumOver(h, S) + SumOver(h, t \cup {x})
    BY <2>4, <2>5, <2>6, <2>7, <2>8
  <2> QED BY <2>9
<1> HIDE DEF G
<1> DEFINE all == T
<1>3. /\ IsFiniteSet(all)
      /\ \A t \in SUBSET all, x \in all : t \in G /\ x \notin t => t \cup {x} \in G
  BY <1>2
<1> HIDE DEF all
<1>4. all \in G
  BY <1>1, <1>3, SetInduction
<1> QED BY <1>4 DEF G, all

LEMMA SumSubset ==
  ASSUME NEW S, IsFiniteSet(S), NEW T \in SUBSET S, NEW h, \A x \in S : h[x] \in Nat
  PROVE  SumOver(h, T) <= SumOver(h, S)
<1>1. IsFiniteSet(T) /\ IsFiniteSet(S \ T)
  BY FS_Subset
<1>2. SumOver(h, T \cup (S \ T)) = SumOver(h, T) + SumOver(h, S \ T)
  BY <1>1, SumUnion
<1>3. SumOver(h, T \cup (S \ T)) = SumOver(h, S)
  <2>1. T \cup (S \ T) = S
    OBVIOUS
  <2> QED BY <2>1
<1>4. SumOver(h, T) \in Nat /\ SumOver(h, S \ T) \in Nat
  BY <1>1, SumType
<1> QED BY <1>2, <1>3, <1>4

(* The sum depends on the values over the set alone. *)
LEMMA SumEqual ==
  ASSUME NEW S, IsFiniteSet(S), NEW h, NEW g,
         \A x \in S : h[x] = g[x] /\ h[x] \in Int
  PROVE  SumOver(h, S) = SumOver(g, S)
<1> DEFINE G == {s \in SUBSET S : SumOver(h, s) = SumOver(g, s)}
<1>1. {} \in G
  BY SumEmpty
<1>2. ASSUME NEW s \in SUBSET S, NEW x \in S, s \in G, x \notin s PROVE s \cup {x} \in G
  <2>1. IsFiniteSet(s)
    BY FS_Subset
  <2>2. SumOver(h, s \cup {x}) = h[x] + SumOver(h, s)
    BY <1>2, <2>1, SumAddInteger
  <2>3. SumOver(g, s \cup {x}) = g[x] + SumOver(g, s)
    BY <1>2, <2>1, SumAddInteger
  <2> QED BY <1>2, <2>2, <2>3
<1> HIDE DEF G
<1>3. SUBSET S \subseteq G
  BY <1>1, <1>2, SetInduction
<1> QED BY <1>3 DEF G

(* The part of S that f sends to w, and the sum over S part by part. *)
Part(S, f, w) == {x \in S : f[x] = w}

(* If no part weighs more than K, the whole weighs no more than K for each. *)
LEMMA PartsAtMost ==
  ASSUME NEW S, IsFiniteSet(S), NEW W, IsFiniteSet(W), NEW f, \A x \in S : f[x] \in W,
         NEW h, \A x \in S : h[x] \in Nat, NEW K \in Nat,
         \A w \in W : SumOver(h, Part(S, f, w)) <= K
  PROVE  SumOver(h, S) <= K * Cardinality(W)
<1> DEFINE In(V) == {x \in S : f[x] \in V}
           G == {V \in SUBSET W : SumOver(h, In(V)) <= K * Cardinality(V)}
<1>1. {} \in G
  <2>1. In({}) = {}
    OBVIOUS
  <2>2. SumOver(h, In({})) = 0 /\ K * Cardinality({}) = 0
    BY <2>1, SumEmpty, FS_EmptySet
  <2> QED BY <2>2
<1>2. ASSUME NEW V \in SUBSET W, NEW w \in W, V \in G, w \notin V PROVE V \cup {w} \in G
  <2>1. In(V \cup {w}) = In(V) \cup Part(S, f, w) /\ In(V) \cap Part(S, f, w) = {}
    BY <1>2 DEF Part
  <2>2. IsFiniteSet(In(V)) /\ IsFiniteSet(Part(S, f, w)) /\ IsFiniteSet(V)
    BY FS_Subset DEF Part
  <2>3. Cardinality(V \cup {w}) = Cardinality(V) + 1 /\ Cardinality(V) \in Nat
    BY <1>2, <2>2, FS_AddElement, FS_CardinalityType
  <2>4. SumOver(h, In(V) \cup Part(S, f, w)) = SumOver(h, In(V)) + SumOver(h, Part(S, f, w))
    BY <2>1, <2>2, SumUnion DEF Part
  <2>5. SumOver(h, In(V)) \in Nat /\ SumOver(h, Part(S, f, w)) \in Nat
    BY <2>2, SumType DEF Part
  <2>6. K * (Cardinality(V) + 1) = K * Cardinality(V) + K /\ K * Cardinality(V) \in Nat
    BY <2>3
  <2> DEFINE old == SumOver(h, In(V))
             more == SumOver(h, Part(S, f, w))
             bound == K * Cardinality(V)
  <2>7. SumOver(h, In(V \cup {w})) = old + more /\ old \in Nat /\ more \in Nat
    BY <2>1, <2>4, <2>5
  <2>8. K * Cardinality(V \cup {w}) = bound + K /\ bound \in Nat
    BY <2>3, <2>6
  <2>9. old <= bound /\ more <= K
    BY <1>2
  <2> HIDE DEF old, more, bound
  <2>10. SumOver(h, In(V \cup {w})) <= K * Cardinality(V \cup {w})
    BY <2>7, <2>8, <2>9
  <2> QED BY <2>10
<1> HIDE DEF G
<1>3. W \in G
  BY <1>1, <1>2, SetInduction
<1>4. In(W) = S
  OBVIOUS
<1> QED BY <1>3, <1>4 DEF G

(* If no part weighs less than K, the whole weighs no less than K for each. *)
LEMMA PartsAtLeast ==
  ASSUME NEW S, IsFiniteSet(S), NEW W, IsFiniteSet(W), NEW f, \A x \in S : f[x] \in W,
         NEW h, \A x \in S : h[x] \in Nat, NEW K \in Nat,
         \A w \in W : K <= SumOver(h, Part(S, f, w))
  PROVE  K * Cardinality(W) <= SumOver(h, S)
<1> DEFINE In(V) == {x \in S : f[x] \in V}
           G == {V \in SUBSET W : K * Cardinality(V) <= SumOver(h, In(V))}
<1>1. {} \in G
  <2>1. In({}) = {}
    OBVIOUS
  <2>2. SumOver(h, In({})) = 0 /\ K * Cardinality({}) = 0
    BY <2>1, SumEmpty, FS_EmptySet
  <2> QED BY <2>2
<1>2. ASSUME NEW V \in SUBSET W, NEW w \in W, V \in G, w \notin V PROVE V \cup {w} \in G
  <2>1. In(V \cup {w}) = In(V) \cup Part(S, f, w) /\ In(V) \cap Part(S, f, w) = {}
    BY <1>2 DEF Part
  <2>2. IsFiniteSet(In(V)) /\ IsFiniteSet(Part(S, f, w)) /\ IsFiniteSet(V)
    BY FS_Subset DEF Part
  <2>3. Cardinality(V \cup {w}) = Cardinality(V) + 1 /\ Cardinality(V) \in Nat
    BY <1>2, <2>2, FS_AddElement, FS_CardinalityType
  <2>4. SumOver(h, In(V) \cup Part(S, f, w)) = SumOver(h, In(V)) + SumOver(h, Part(S, f, w))
    BY <2>1, <2>2, SumUnion DEF Part
  <2>5. SumOver(h, In(V)) \in Nat /\ SumOver(h, Part(S, f, w)) \in Nat
    BY <2>2, SumType DEF Part
  <2>6. K * (Cardinality(V) + 1) = K * Cardinality(V) + K /\ K * Cardinality(V) \in Nat
    BY <2>3
  <2> DEFINE old == SumOver(h, In(V))
             more == SumOver(h, Part(S, f, w))
             bound == K * Cardinality(V)
  <2>7. SumOver(h, In(V \cup {w})) = old + more /\ old \in Nat /\ more \in Nat
    BY <2>1, <2>4, <2>5
  <2>8. K * Cardinality(V \cup {w}) = bound + K /\ bound \in Nat
    BY <2>3, <2>6
  <2>9. bound <= old /\ K <= more
    BY <1>2
  <2> HIDE DEF old, more, bound
  <2>10. K * Cardinality(V \cup {w}) <= SumOver(h, In(V \cup {w}))
    BY <2>7, <2>8, <2>9
  <2> QED BY <2>10
<1> HIDE DEF G
<1>3. W \in G
  BY <1>1, <1>2, SetInduction
<1>4. In(W) = S
  OBVIOUS
<1> QED BY <1>3, <1>4 DEF G
=============================================================================
