--------------------------- MODULE Sharding_proofs ---------------------------
(***************************************************************************)
(* Proofs about Sharding: its types; that every test runs, and runs once,  *)
(* as long as a worker is left; that union-find yields the components of   *)
(* the dependencies and a plan keeps them together; and Graham's bound on  *)
(* the greedy strategies.                                                  *)
(*                                                                         *)
(* The first part needs nothing of union-find but that its groups          *)
(* partition the tests, which any function Find gives.  The second part is *)
(* about forests, the third about the loads, by the sums of module Sums.   *)
(***************************************************************************)
EXTENDS Sharding, Sums

\* A family of sets that covers the tests, and no two of which meet.
Partition(P) ==
  /\ UNION P = Tests
  /\ \A g, h \in P : g # h => g \cap h = {}

\* What a plan is made of, before it starts and between rebalancings.
Shape ==
  /\ todo \subseteq SUBSET Tests
  /\ active \subseteq DOMAIN shards
  /\ \A w \in DOMAIN shards : shards[w].tests \subseteq Tests
  /\ shards = [w \in DOMAIN shards |-> [tests |-> shards[w].tests, ms |-> shards[w].ms]]
  /\ phase \in {"union", "assign", "run", "rebalance"}
  /\ phase = "union" => \A w \in DOMAIN shards : shards[w].tests = {}
  /\ phase \in {"union", "run"} => todo = {}

IInv == Shape /\ EveryTestOnce

-----------------------------------------------------------------------------
(* The groups of union-find, whatever the forest, partition the tests. *)
LEMMA GroupsPartition == Partition(Groups)
BY DEF Partition, Groups

(* So do the groups that suite_grouped makes of them. *)
LEMMA SuitesPartition == Partition(BySuite)
<1> DEFINE Key(g) == suite[First(g)]
           Merged(h) == UNION {g \in Groups : Key(g) = Key(h)}
<1>1. BySuite = {Merged(h) : h \in Groups}
  BY DEF BySuite
<1>2. UNION BySuite = Tests
  <2>1. \A h \in Groups : h \subseteq Merged(h) /\ Merged(h) \subseteq UNION Groups
    OBVIOUS
  <2> QED BY <1>1, <2>1, GroupsPartition DEF Partition
<1>3. ASSUME NEW h \in Groups, NEW k \in Groups, Merged(h) # Merged(k)
      PROVE  Merged(h) \cap Merged(k) = {}
  <2> SUFFICES ASSUME NEW t \in Merged(h), t \in Merged(k) PROVE Merged(h) = Merged(k)
    BY <1>3
  <2>1. PICK g \in Groups : Key(g) = Key(h) /\ t \in g
    OBVIOUS
  <2>2. PICK f \in Groups : Key(f) = Key(k) /\ t \in f
    OBVIOUS
  <2>3. g = f
    BY <2>1, <2>2, GroupsPartition DEF Partition
  <2> HIDE DEF Key
  <2> QED BY <2>1, <2>2, <2>3
<1> HIDE DEF Merged
<1> QED BY <1>1, <1>2, <1>3 DEF Partition

-----------------------------------------------------------------------------
LEMMA InitIInv == Init => IInv
BY DEF Init, IInv, Shape, EveryTestOnce, NoTestIsLost, NoTestTwice, NothingRunsAgain,
       Assigned, Waiting

(* When the groups are made they hold every test, and no worker has one. *)
LEMMA MakeGroupsKeeps == IInv /\ MakeGroups => IInv'
<1> SUFFICES ASSUME IInv, MakeGroups PROVE IInv'
  OBVIOUS
<1>1. Partition(todo')
  BY GroupsPartition, SuitesPartition DEF MakeGroups, Pieces
<1> USE DEF IInv, Shape, MakeGroups, request
<1>2. Shape'
  BY <1>1 DEF Partition
<1>3. Assigned' = {} /\ Waiting' = Tests
  BY <1>1 DEF Partition, Assigned, Waiting
<1> QED
  BY <1>1, <1>2, <1>3
     DEF Partition, EveryTestOnce, NoTestIsLost, NoTestTwice, NothingRunsAgain

(* A group that waits becomes part of one worker's shard: Assign and       *)
(* Redistribute.                                                           *)
LEMMA GiveKeeps ==
  ASSUME IInv, NEW w \in active, NEW g \in todo, NEW ms, Give(w, g, ms),
         phase \in {"assign", "rebalance"},
         todo' = todo \ {g}, phase' = IF todo' = {} THEN "run" ELSE phase,
         active' = active, done' = done
  PROVE  IInv'
<1> USE DEF IInv, Shape
<1>1. /\ DOMAIN shards' = DOMAIN shards
      /\ \A v \in DOMAIN shards :
           shards'[v].tests = IF v = w THEN shards[v].tests \cup g ELSE shards[v].tests
      /\ shards' = [v \in DOMAIN shards' |-> [tests |-> shards'[v].tests, ms |-> shards'[v].ms]]
  BY DEF Give
<1>2. Shape'
  BY <1>1
<1>3. Assigned' = Assigned \cup g
  <2>1. \A t : t \in Assigned' <=> \E v \in active : t \in shards'[v].tests
    BY DEF Assigned
  <2>2. \A t : t \in Assigned <=> \E v \in active : t \in shards[v].tests
    BY DEF Assigned
  <2>3. \A t : t \in Assigned' <=> t \in Assigned \/ t \in g
    <3>1. ASSUME NEW v \in active
          PROVE  shards'[v].tests = IF v = w THEN shards[v].tests \cup g ELSE shards[v].tests
      BY <1>1
    <3>2. ASSUME NEW v \in active, NEW t \in shards'[v].tests PROVE t \in Assigned \/ t \in g
      BY <3>1, <2>2
    <3>3. ASSUME NEW v \in active, NEW t \in shards[v].tests PROVE t \in Assigned'
      BY <3>1, <2>1
    <3>4. ASSUME NEW t \in g PROVE t \in Assigned'
      BY <3>1, <2>1
    <3> QED BY <2>1, <2>2, <3>2, <3>3, <3>4
  <2> QED BY <2>3
<1>4. g \subseteq Waiting /\ Waiting = Waiting' \cup g
  BY DEF Waiting
<1>5. g \cap Waiting' = {}
  BY DEF Waiting, EveryTestOnce, NoTestTwice
<1>6. NoTestIsLost'
  BY <1>3, <1>4 DEF EveryTestOnce, NoTestIsLost
<1>7. NoTestTwice'
  <2>1. \A u, v \in active' : u # v => shards'[u].tests \cap shards'[v].tests = {}
    <3> SUFFICES ASSUME NEW u \in active, NEW v \in active, u # v
                 PROVE  shards'[u].tests \cap shards'[v].tests = {}
      OBVIOUS
    <3>1. shards[u].tests \cap shards[v].tests = {}
      BY DEF EveryTestOnce, NoTestTwice
    <3>2. g \cap Assigned = {}
      BY <1>4 DEF EveryTestOnce, NoTestTwice
    <3>3. shards[u].tests \subseteq Assigned /\ shards[v].tests \subseteq Assigned
      BY DEF Assigned
    <3> QED BY <1>1, <3>1, <3>2, <3>3
  <2>2. \A h, k \in todo' : h # k => h \cap k = {}
    BY DEF EveryTestOnce, NoTestTwice
  <2>3. Assigned' \cap Waiting' = {}
    BY <1>3, <1>4, <1>5 DEF EveryTestOnce, NoTestTwice
  <2> QED BY <2>1, <2>2, <2>3 DEF NoTestTwice
<1>8. NothingRunsAgain'
  BY <1>4 DEF EveryTestOnce, NothingRunsAgain
<1> QED BY <1>2, <1>6, <1>7, <1>8 DEF EveryTestOnce

(* The tests that a failed worker has not completed all wait for another.  *)
LEMMA RebalanceKeeps == ASSUME IInv, NEW w \in active, Rebalance(w) PROVE IInv'
<1> USE DEF IInv, Shape, Rebalance, request
<1>1. Shape'
  OBVIOUS
<1>2. active' # {} => Waiting' = shards[w].tests \ done
  BY DEF Waiting
<1>3. Assigned \subseteq Assigned' \cup shards[w].tests /\ Assigned' \cap shards[w].tests = {}
  BY DEF Assigned, EveryTestOnce, NoTestTwice
<1>4. phase' = "rebalance" => active' # {}
  OBVIOUS
<1>5. NoTestIsLost'
  BY <1>2, <1>3 DEF EveryTestOnce, NoTestIsLost, Waiting
<1>6. Waiting' \subseteq shards[w].tests \ done
  BY DEF Waiting
<1>7. NoTestTwice'
  <2>1. \A u, v \in active' : u # v => shards'[u].tests \cap shards'[v].tests = {}
    BY DEF EveryTestOnce, NoTestTwice
  <2>2. \A h, k \in todo' : h # k => h \cap k = {}
    OBVIOUS
  <2>3. Assigned' \cap Waiting' = {}
    BY <1>3, <1>6
  <2> QED BY <2>1, <2>2, <2>3 DEF NoTestTwice
<1>8. NothingRunsAgain'
  BY <1>6 DEF EveryTestOnce, NothingRunsAgain
<1> QED BY <1>1, <1>5, <1>7, <1>8 DEF EveryTestOnce

(* Every step keeps the invariant. *)
LEMMA StepIInv == IInv /\ [Next]_vars => IInv'
<1> SUFFICES ASSUME IInv, [Next]_vars PROVE IInv'
  OBVIOUS
<1> USE DEF EveryTestOnce, NoTestIsLost, NoTestTwice, NothingRunsAgain, Assigned, Waiting
<1>1. ASSUME NEW p \in pairs, Union(p) PROVE IInv'
  BY <1>1 DEF Union, IInv, Shape
<1>2. CASE MakeGroups
  BY <1>2, MakeGroupsKeeps
<1>3. ASSUME NEW w \in active, NEW g \in todo, Assign(w, g) PROVE IInv'
  BY <1>3, GiveKeeps DEF Assign
<1>4. ASSUME NEW w \in active, NEW t \in Tests, RunTest(w, t) PROVE IInv'
  BY <1>4 DEF RunTest, IInv, Shape, request
<1>5. ASSUME NEW w \in active, Rebalance(w) PROVE IInv'
  BY <1>5, RebalanceKeeps
<1>6. ASSUME NEW w \in active, NEW g \in todo, Redistribute(w, g) PROVE IInv'
  BY <1>6, GiveKeeps DEF Redistribute
<1>7. CASE UNCHANGED vars
  BY <1>7 DEF vars, IInv, Shape
<1> QED BY <1>1, <1>2, <1>3, <1>4, <1>5, <1>6, <1>7 DEF Next

-----------------------------------------------------------------------------
(***************************************************************************)
(* Union-find.  A forest is rooted if whatever leads nowhere out of itself *)
(* holds a root; then every walk ends, and ends at one root.               *)
(***************************************************************************)
Into(f, S)   == \A x \in S : f[x] \in S
Rooted(f)    == \A S \in SUBSET Tests : S # {} /\ Into(f, S) => \E x \in S : f[x] = x

\* Where one gets from t: what every set holds that t is in and f stays in.
Ancestors(f, t) == {y \in Tests : \A S \in SUBSET Tests : t \in S /\ Into(f, S) => y \in S}

LEMMA AncestorsStep ==
  ASSUME NEW f \in [Tests -> Tests], NEW t \in Tests
  PROVE  Ancestors(f, t) = IF f[t] = t THEN {t} ELSE {t} \cup Ancestors(f, f[t])
<1>1. t \in Ancestors(f, t)
  BY DEF Ancestors
<1>2. Ancestors(f, f[t]) \subseteq Ancestors(f, t)
  BY DEF Ancestors, Into
<1>3. CASE f[t] = t
  <2>1. Into(f, {t}) /\ {t} \in SUBSET Tests
    BY <1>3 DEF Into
  <2>2. Ancestors(f, t) \subseteq {t}
    BY <2>1 DEF Ancestors
  <2> QED BY <1>1, <1>3, <2>2
<1>4. CASE f[t] # t
  <2> DEFINE S == {t} \cup Ancestors(f, f[t])
  <2>1. f[t] \in Ancestors(f, f[t])
    BY DEF Ancestors
  <2>2. Into(f, Ancestors(f, f[t]))
    BY DEF Ancestors, Into
  <2>3. Into(f, S) /\ S \in SUBSET Tests
    BY <2>1, <2>2 DEF Into, Ancestors
  <2>4. Ancestors(f, t) \subseteq S
    BY <2>3 DEF Ancestors
  <2> QED BY <1>1, <1>2, <1>4, <2>4
<1> QED BY <1>3, <1>4

(* Path, which recursion defines, is that set. *)
LEMMA PathIsAncestors ==
  ASSUME NEW f \in [Tests -> Tests], Rooted(f), NEW t \in Tests
  PROVE  Path(f, t) = Ancestors(f, t)
<1> DEFINE Walks(g) == g = [x \in Tests |-> IF f[x] = x THEN {x} ELSE {x} \cup g[f[x]]]
           all == [x \in Tests |-> Ancestors(f, x)]
           walk == CHOOSE g : Walks(g)
<1>1. Walks(all)
  <2>1. \A x \in Tests : all[x] = IF f[x] = x THEN {x} ELSE {x} \cup all[f[x]]
    BY AncestorsStep
  <2> QED BY <2>1
<1>2. Walks(walk)
  BY <1>1
<1>3. Path(f, t) = walk[t]
  BY DEF Path
<1> DEFINE S == {x \in Tests : walk[x] # Ancestors(f, x)}
<1> HIDE DEF walk, all
<1>4. \A x \in Tests : walk[x] = IF f[x] = x THEN {x} ELSE {x} \cup walk[f[x]]
  BY <1>2
<1>5. ASSUME NEW x \in S PROVE f[x] # x /\ f[x] \in S
  <2>1. x \in Tests /\ f[x] \in Tests /\ walk[x] # Ancestors(f, x)
    OBVIOUS
  <2>2. walk[x] = IF f[x] = x THEN {x} ELSE {x} \cup walk[f[x]]
    BY <1>4, <2>1
  <2>3. Ancestors(f, x) = IF f[x] = x THEN {x} ELSE {x} \cup Ancestors(f, f[x])
    BY <2>1, AncestorsStep
  <2> QED BY <2>1, <2>2, <2>3
<1>6. S = {}
  BY <1>5 DEF Rooted, Into
<1> QED BY <1>3, <1>6

(* Find is the one root on the path, and the same along the path. *)
LEMMA FindIsRoot ==
  ASSUME NEW f \in [Tests -> Tests], Rooted(f), NEW t \in Tests
  PROVE  /\ Path(f, t) \subseteq Tests /\ t \in Path(f, t)
         /\ \A x \in Path(f, t) : f[x] \in Path(f, t)
         /\ Find(f, t) \in Path(f, t) /\ f[Find(f, t)] = Find(f, t)
         /\ \A x \in Path(f, t) : f[x] = x => x = Find(f, t)
<1> DEFINE A(x) == Ancestors(f, x)
           Two == {x \in Tests : \E r, s \in A(x) : f[r] = r /\ f[s] = s /\ r # s}
<1>1. \A x \in Two : f[x] # x /\ f[x] \in Two
  BY AncestorsStep
<1>2. Two = {}
  BY <1>1 DEF Rooted, Into
<1>3. A(t) \subseteq Tests /\ t \in A(t) /\ Into(f, A(t))
  BY DEF Ancestors, Into
<1>4. \E r \in A(t) : f[r] = r
  BY <1>3 DEF Rooted
<1> HIDE DEF A
<1>5. Path(f, t) = A(t)
  BY PathIsAncestors DEF A
<1>6. Find(f, t) \in A(t) /\ f[Find(f, t)] = Find(f, t)
  BY <1>4, <1>5 DEF Find
<1>7. \A x \in A(t) : f[x] = x => x = Find(f, t)
  BY <1>2, <1>6
<1> QED BY <1>3, <1>5, <1>6, <1>7 DEF Into

LEMMA FindStep ==
  ASSUME NEW f \in [Tests -> Tests], Rooted(f), NEW t \in Tests
  PROVE  /\ Find(f, t) = IF f[t] = t THEN t ELSE Find(f, f[t])
         /\ Path(f, f[t]) \subseteq Path(f, t)
<1>1. Path(f, t) = IF f[t] = t THEN {t} ELSE {t} \cup Path(f, f[t])
  BY AncestorsStep, PathIsAncestors
<1>2. f[t] \in Tests
  OBVIOUS
<1>3. Find(f, f[t]) \in Path(f, f[t]) /\ f[Find(f, f[t])] = Find(f, f[t])
  BY <1>2, FindIsRoot
<1> QED BY <1>1, <1>3, FindIsRoot

(* A set that f neither enters nor leaves holds all of a path or none.     *)
Saturated(f, S) == \A x \in Tests : x \in S <=> f[x] \in S

LEMMA SaturatedHoldsPaths ==
  ASSUME NEW f \in [Tests -> Tests], Rooted(f), NEW S \in SUBSET Tests, Saturated(f, S),
         NEW t \in Tests, NEW x \in Path(f, t)
  PROVE  x \in S <=> t \in S
<1>1. Into(f, S) /\ Into(f, Tests \ S)
  BY DEF Saturated, Into
<1>2. x \in Ancestors(f, t)
  BY PathIsAncestors
<1> QED BY <1>1, <1>2 DEF Ancestors

(***************************************************************************)
(* union(a, b) compresses both paths and hangs one root under the other.   *)
(***************************************************************************)
Joined(f, a, b) ==
  [[x \in Tests |-> IF x \in Path(f, b) THEN Find(f, b) ELSE Compressed(f, a)[x]]
     EXCEPT ![Find(f, a)] = Find(f, b)]

LEMMA JoinedPointsAt ==
  ASSUME NEW f \in [Tests -> Tests], Rooted(f), NEW a \in Tests, NEW b \in Tests,
         NEW x \in Tests
  PROVE  Joined(f, a, b)[x] = IF x = Find(f, a) \/ x \in Path(f, b) THEN Find(f, b)
                              ELSE IF x \in Path(f, a) THEN Find(f, a) ELSE f[x]
BY FindIsRoot DEF Joined, Compressed

LEMMA JoinedIsForest ==
  ASSUME NEW f \in [Tests -> Tests], Rooted(f), NEW a \in Tests, NEW b \in Tests
  PROVE  Joined(f, a, b) \in [Tests -> Tests] /\ Rooted(Joined(f, a, b))
<1> DEFINE J == Joined(f, a, b)
           ra == Find(f, a)
           rb == Find(f, b)
<1>1. ra \in Tests /\ rb \in Tests
  BY FindIsRoot
<1>2. J \in [Tests -> Tests]
  <2>1. J = [x \in Tests |-> J[x]]
    BY DEF Joined
  <2> QED BY <1>1, <2>1, JoinedPointsAt
<1>3. J[rb] = rb
  BY <1>1, FindIsRoot, JoinedPointsAt
<1>4. ASSUME NEW S \in SUBSET Tests, S # {}, Into(J, S), \A x \in S : J[x] # x
      PROVE  FALSE
  <2>1. rb \notin S
    BY <1>3, <1>4
  <2>2. \A x \in S : x # ra /\ x \notin Path(f, b)
    BY <1>4, <2>1, JoinedPointsAt DEF Into
  <2>3. \A x \in S : x \notin Path(f, a)
    BY <1>4, <2>2, JoinedPointsAt DEF Into
  <2>4. \A x \in S : J[x] = f[x]
    BY <2>2, <2>3, JoinedPointsAt
  <2> QED BY <1>4, <2>4 DEF Rooted, Into
<1> QED BY <1>2, <1>4 DEF Rooted

LEMMA JoinedSaturates ==
  ASSUME NEW f \in [Tests -> Tests], Rooted(f), NEW a \in Tests, NEW b \in Tests,
         NEW S \in SUBSET Tests
  PROVE  Saturated(Joined(f, a, b), S) <=> Saturated(f, S) /\ (a \in S <=> b \in S)
<1> DEFINE J == Joined(f, a, b)
           ra == Find(f, a)
           rb == Find(f, b)
<1>1. /\ ra \in Path(f, a) /\ rb \in Path(f, b) /\ a \in Path(f, a) /\ b \in Path(f, b)
      /\ Path(f, a) \subseteq Tests /\ Path(f, b) \subseteq Tests
      /\ \A x \in Path(f, a) : f[x] \in Path(f, a)
      /\ \A x \in Path(f, b) : f[x] \in Path(f, b)
  BY FindIsRoot
<1>2. \A x \in Tests : J[x] = IF x = ra \/ x \in Path(f, b) THEN rb
                              ELSE IF x \in Path(f, a) THEN ra ELSE f[x]
  BY JoinedPointsAt
<1> HIDE DEF J, ra, rb
<1>3. ASSUME Saturated(f, S), a \in S <=> b \in S PROVE Saturated(J, S)
  <2>1. \A x \in Path(f, a) : x \in S <=> a \in S
    BY <1>3, SaturatedHoldsPaths
  <2>2. \A x \in Path(f, b) : x \in S <=> b \in S
    BY <1>3, SaturatedHoldsPaths
  <2>3. ASSUME NEW x \in Tests PROVE x \in S <=> J[x] \in S
    BY <1>1, <1>2, <1>3, <2>1, <2>2 DEF Saturated
  <2> QED BY <2>3 DEF Saturated
<1>4. ASSUME Saturated(J, S) PROVE Saturated(f, S) /\ (a \in S <=> b \in S)
  <2>1. \A x \in Path(f, b) : x \in S <=> rb \in S
    BY <1>1, <1>2, <1>4 DEF Saturated
  <2>2. \A x \in Path(f, a) : x \in S <=> rb \in S
    BY <1>1, <1>2, <1>4, <2>1 DEF Saturated
  <2>3. ASSUME NEW x \in Tests PROVE x \in S <=> f[x] \in S
    BY <1>1, <1>2, <1>4, <2>1, <2>2 DEF Saturated
  <2> QED BY <1>1, <2>1, <2>2, <2>3 DEF Saturated
<1> QED BY <1>3, <1>4 DEF J
-----------------------------------------------------------------------------
(***************************************************************************)
(* The forest at each step of the loop over the dependencies: the sets it  *)
(* keeps whole are those that the dependencies seen so far keep whole.     *)
(***************************************************************************)
Respects(S, P) == \A p \in P : p[1] \in S <=> p[2] \in S

Forest ==
  /\ deps \subseteq Tests \X Tests /\ pairs \subseteq deps
  /\ parent \in [Tests -> Tests] /\ Rooted(parent)
  /\ \A S \in SUBSET Tests : Saturated(parent, S) <=> Respects(S, deps \ pairs)

LEMMA InitForest == Init => Forest
<1> SUFFICES ASSUME Init PROVE Forest
  OBVIOUS
<1>1. parent = [t \in Tests |-> t] /\ deps \in DepRelations /\ pairs = deps
  BY DEF Init
<1>2. Rooted(parent)
  BY <1>1 DEF Rooted
<1> QED BY <1>1, <1>2, ShardingAssumption DEF Forest, Saturated, Respects

LEMMA UnionKeepsForest == ASSUME Forest, NEW p \in pairs, Union(p) PROVE Forest'
<1> DEFINE a == p[1]
           b == p[2]
<1>1. /\ a \in Tests /\ b \in Tests
      /\ parent \in [Tests -> Tests] /\ Rooted(parent)
  BY DEF Forest
<1>2. parent' = Joined(parent, a, b) /\ deps' = deps /\ pairs' = pairs \ {p}
  BY DEF Union, Joined, request
<1>3. \A S : Respects(S, deps' \ pairs')
             <=> Respects(S, deps \ pairs) /\ (a \in S <=> b \in S)
  BY <1>2 DEF Respects, Forest
<1> HIDE DEF a, b
<1>4. parent' \in [Tests -> Tests] /\ Rooted(parent')
  BY <1>1, <1>2, JoinedIsForest
<1>5. \A S \in SUBSET Tests : Saturated(parent', S) <=> Saturated(parent, S) /\ (a \in S <=> b \in S)
  BY <1>1, <1>2, JoinedSaturates
<1> QED BY <1>2, <1>3, <1>4, <1>5 DEF Forest

LEMMA StepForest == Forest /\ [Next]_vars => Forest'
<1> SUFFICES ASSUME Forest, [Next]_vars PROVE Forest'
  OBVIOUS
<1>1. CASE \E p \in pairs : Union(p)
  BY <1>1, UnionKeepsForest
<1>2. CASE UNCHANGED <<deps, pairs, parent>>
  BY <1>2 DEF Forest
<1> QED
  BY <1>1, <1>2
     DEF Next, vars, request, MakeGroups, Assign, RunTest, Rebalance, Redistribute

(* With every dependency seen, the groups are the connected components. *)
LEMMA ComponentsFound == Forest => GroupsAreComponents
<1> SUFFICES ASSUME Forest, pairs = {}, NEW u \in Tests
             PROVE  LET g == {t \in Tests : Find(parent, t) = Find(parent, u)}
                    IN  Closed(g) /\ \A S \in SUBSET g : Closed(S) => S \in {{}, g}
  BY DEF GroupsAreComponents, Groups
<1> DEFINE root(t) == Find(parent, t)
           g == {t \in Tests : root(t) = root(u)}
<1>1. parent \in [Tests -> Tests] /\ Rooted(parent)
  BY DEF Forest
<1>2. \A S \in SUBSET Tests : Closed(S) <=> Saturated(parent, S)
  BY DEF Forest, Respects, Closed
<1>3. Closed(g)
  <2>1. \A t \in Tests : root(t) = root(parent[t])
    BY <1>1, FindStep
  <2> HIDE DEF root
  <2>2. Saturated(parent, g) /\ g \in SUBSET Tests
    BY <1>1, <2>1 DEF Saturated
  <2> QED BY <1>2, <2>2
<1>4. ASSUME NEW S \in SUBSET g, Closed(S), S # {} PROVE S = g
  <2>1. Saturated(parent, S) /\ S \in SUBSET Tests
    BY <1>2, <1>4
  <2>2. \A t \in Tests : t \in S <=> root(t) \in S
    BY <1>1, <2>1, FindIsRoot, SaturatedHoldsPaths
  <2>3. PICK t \in S : TRUE
    BY <1>4
  <2> HIDE DEF root
  <2>4. root(u) \in S
    BY <2>1, <2>2, <2>3
  <2> QED BY <2>2, <2>4
<1> HIDE DEF g
<1> QED BY <1>3, <1>4 DEF g
-----------------------------------------------------------------------------
(***************************************************************************)
(* Types.  Sums are natural numbers because the tests are finitely many.   *)
(***************************************************************************)
LEMMA TestsAreFinite ==
  /\ \A g \in SUBSET Tests : IsFiniteSet(g)
  /\ \A P \in SUBSET (SUBSET Tests) : IsFiniteSet(P)
<1>1. IsFiniteSet(Tests) /\ IsFiniteSet(SUBSET Tests)
  BY ShardingAssumption, FS_SUBSET
<1>2. ASSUME NEW g \in SUBSET Tests PROVE IsFiniteSet(g)
  BY <1>1, FS_Subset
<1>3. ASSUME NEW P \in SUBSET (SUBSET Tests) PROVE IsFiniteSet(P)
  BY <1>1, FS_Subset
<1> QED BY <1>2, <1>3

LEMMA TotalIsSum == \A g : Total(g) = SumOver(est, g)
BY DEF Total, SumOver

LEMMA TotalType ==
  ASSUME est \in [Tests -> Nat], NEW g \in SUBSET Tests
  PROVE  Total(g) \in Nat
<1>1. IsFiniteSet(g) /\ \A t \in g : est[t] \in Nat
  BY TestsAreFinite
<1> QED BY <1>1, SumType, TotalIsSum

LEMMA HistoryTypes ==
  ASSUME NEW h \in Histories, NEW t \in Tests
  PROVE  Estimate(h, t) \in Nat /\ SuiteOf(h, t) \in Nat
<1> DEFINE rows == DOMAIN h[t]
<1>1. Average(h, t) = SumOver(h[t], rows)
  BY DEF Average, SumOver
<1>2. IsFiniteSet(rows) /\ rows \subseteq Nat /\ \A x \in rows : h[t][x] \in Nat
  BY ShardingAssumption
<1> HIDE DEF rows
<1>3. Average(h, t) \in Nat
  BY <1>1, <1>2, SumType
<1>4. rows = {} => Average(h, t) = 0
  BY <1>1, SumEmpty
<1>5. rows # {} => \E x \in rows : \A y \in rows : x <= y
  BY <1>2, LeastNumber
<1>6. Average(h, t) > 0 => SuiteOf(h, t) \in rows
  BY <1>4, <1>5 DEF SuiteOf, rows
<1>7. ~ (Average(h, t) > 0) => SuiteOf(h, t) = 0
  BY DEF SuiteOf, NoSuite
<1>8. Estimate(h, t) \in Nat
  BY <1>3, ShardingAssumption DEF Estimate
<1>9. SuiteOf(h, t) \in Nat
  <2>1. CASE Average(h, t) > 0
    BY <1>2, <1>6, <2>1
  <2>2. CASE ~ (Average(h, t) > 0)
    BY <1>7, <2>2
  <2> QED BY <2>1, <2>2
<1> QED BY <1>8, <1>9

LEMMA InitTypes == Init => TypeOK
<1> SUFFICES ASSUME Init PROVE TypeOK
  OBVIOUS
<1>1. est \in [Tests -> Nat] /\ suite \in [Tests -> Nat]
  BY HistoryTypes DEF Init
<1>2. PICK n \in 1..MaxWorkers : active = 1..n
  BY DEF Init
<1>3. active \subseteq 1..MaxWorkers /\ active # {}
  BY <1>2, ShardingAssumption
<1> QED BY <1>1, <1>3, ShardingAssumption DEF Init, TypeOK

LEMMA StepTypes == IInv /\ Forest' /\ TypeOK /\ [Next]_vars => TypeOK'
<1> SUFFICES ASSUME IInv, Forest', TypeOK, [Next]_vars PROVE TypeOK'
  OBVIOUS
<1> USE DEF TypeOK, request
<1>1. ASSUME NEW p \in pairs, Union(p) PROVE TypeOK'
  BY <1>1 DEF Union, Forest
<1>2. CASE MakeGroups
  <2>1. todo' \subseteq SUBSET Tests
    BY <1>2, GroupsPartition, SuitesPartition DEF MakeGroups, Pieces, Partition
  <2> QED BY <1>2, <2>1 DEF MakeGroups
<1>3. ASSUME NEW w \in active, NEW g \in todo, NEW ms \in Nat, Give(w, g, ms)
      PROVE  /\ DOMAIN shards' = DOMAIN shards
             /\ \A v \in DOMAIN shards : shards'[v].tests \subseteq Tests /\ shards'[v].ms \in Nat
  <2>1. \A v \in DOMAIN shards :
          shards'[v] = IF v = w THEN [tests |-> shards[v].tests \cup g, ms |-> shards[v].ms + ms]
                                ELSE shards[v]
    BY <1>3 DEF Give
  <2> QED BY <1>3, <2>1 DEF Give
<1>4. ASSUME NEW w \in active, NEW g \in todo, Assign(w, g) PROVE TypeOK'
  <2>1. Total(g) \in Nat
    BY TotalType
  <2> QED BY <1>3, <1>4, <2>1 DEF Assign
<1>5. ASSUME NEW w \in active, NEW t \in Tests, RunTest(w, t) PROVE TypeOK'
  BY <1>5 DEF RunTest
<1>6. ASSUME NEW w \in active, Rebalance(w) PROVE TypeOK'
  BY <1>6 DEF Rebalance
<1>7. ASSUME NEW w \in active, NEW g \in todo, Redistribute(w, g) PROVE TypeOK'
  BY <1>3, <1>7, ShardingAssumption DEF Redistribute
<1>8. CASE UNCHANGED vars
  BY <1>8 DEF vars
<1> QED BY <1>1, <1>2, <1>4, <1>5, <1>6, <1>7, <1>8 DEF Next

-----------------------------------------------------------------------------
(***************************************************************************)
(* The plan until a worker fails: whose the pieces are, and what they add  *)
(* up to.                                                                  *)
(***************************************************************************)
Mine(w) == {h \in Pieces : h \subseteq shards[w].tests}

NobodyFailed == active = DOMAIN shards

Planned ==
  /\ DOMAIN shards # {}
  /\ phase = "rebalance" => ~ NobodyFailed
  /\ phase # "union" => pairs = {}
  /\ LoadIsSum
  /\ NobodyFailed /\ phase \in {"assign", "run"} =>
       /\ todo \subseteq Pieces
       /\ \A h \in Pieces : h \in todo \/ \E w \in active : h \subseteq shards[w].tests
       /\ \A w \in active : shards[w].ms = SumOver(Times, Mine(w))

LEMMA PiecesPartition == Partition(Pieces) /\ \A h \in Pieces : h # {} /\ h \subseteq Tests
<1>1. \A h \in Groups : h # {}
  BY DEF Groups
<1>2. \A h \in BySuite : h # {}
  BY <1>1 DEF BySuite
<1> QED BY <1>1, <1>2, GroupsPartition, SuitesPartition DEF Pieces, Partition

LEMMA TotalStays == est' = est => \A g : Total(g)' = Total(g)
<1> SUFFICES ASSUME est' = est, NEW g PROVE Total(g)' = Total(g)
  OBVIOUS
<1>1. Total(g)' = SumOver(est', g)
  BY DEF Total, SumOver, MapThenSumSet, MapThenFoldSet
<1> QED BY <1>1, TotalIsSum

LEMMA PiecesStay ==
  ASSUME UNCHANGED <<est, suite, strategy, parent>>
  PROVE  Pieces' = Pieces /\ Times' = Times
<1>1. Groups' = Groups
  BY DEF Groups
<1>2. BySuite' = BySuite
  BY <1>1 DEF BySuite
<1>3. Pieces' = Pieces
  BY <1>1, <1>2 DEF Pieces
<1>4. \A g : Total(g)' = Total(g)
  BY TotalStays
<1>5. Times' = Times
  BY <1>3, <1>4 DEF Times
<1> QED BY <1>3, <1>5

LEMMA TimesType ==
  ASSUME TypeOK
  PROVE  DOMAIN Times = Pieces /\ \A h \in Pieces : Times[h] = Total(h) /\ Times[h] \in Nat
BY TotalType, PiecesPartition DEF TypeOK, Times

LEMMA InitPlanned == Init => Planned
<1> SUFFICES ASSUME Init PROVE Planned
  OBVIOUS
<1>1. active # {}
  BY InitTypes DEF TypeOK, Init
<1>2. Total({}) = 0
  BY TotalIsSum, SumEmpty
<1>3. LoadIsSum
  BY <1>2 DEF LoadIsSum, Init
<1> QED BY <1>1, <1>3 DEF Init, Planned

(* A step that leaves the plan as it is. *)
LEMMA PlanStays ==
  ASSUME Planned, UNCHANGED <<est, suite, strategy, parent, pairs, phase, todo, shards, active>>
  PROVE  Planned' /\ \A w : Mine(w)' = Mine(w)
<1>1. Pieces' = Pieces /\ Times' = Times
  BY PiecesStay
<1>2. \A w : Mine(w)' = Mine(w)
  BY <1>1 DEF Mine
<1>3. LoadIsSum'
  BY TotalStays DEF Planned, LoadIsSum
<1> QED BY <1>1, <1>2, <1>3, SumEmpty DEF Planned, NobodyFailed

(* Making the groups gives nobody a piece. *)
LEMMA NothingGivenYet ==
  ASSUME IInv, Planned, MakeGroups
  PROVE  /\ Planned' /\ Pieces' = Pieces /\ Times' = Times
         /\ \A w \in active : Mine(w)' = {}
         /\ NobodyFailed => \A w \in active : shards[w].ms = 0
<1> USE DEF MakeGroups, request
<1>1. Pieces' = Pieces /\ Times' = Times
  BY PiecesStay
<1>2. ASSUME NEW w \in active PROVE Mine(w)' = {}
  BY <1>1, PiecesPartition DEF Mine, IInv, Shape
<1>3. LoadIsSum'
  BY TotalStays DEF Planned, LoadIsSum
<1>4. ASSUME NobodyFailed, NEW w \in active PROVE shards[w].ms = 0
  <2>1. shards[w].tests = {} /\ shards[w].ms = Total(shards[w].tests)
    BY <1>4 DEF IInv, Shape, Planned, LoadIsSum, NobodyFailed
  <2> QED BY <2>1, TotalIsSum, SumEmpty
<1>5. ASSUME NobodyFailed, NEW w \in active PROVE shards[w].ms = SumOver(Times', Mine(w)')
  BY <1>2, <1>4, <1>5, SumEmpty
<1> QED BY <1>1, <1>2, <1>3, <1>4, <1>5 DEF Planned, NobodyFailed

(* Giving piece g to worker w: w's pieces are one more, and they still add *)
(* up to its load.                                                         *)
LEMMA PieceGiven ==
  ASSUME IInv, TypeOK, Planned, NobodyFailed, NEW w \in active, NEW g \in todo, Assign(w, g)
  PROVE  /\ Planned' /\ Pieces' = Pieces /\ Times' = Times
         /\ g \in Pieces /\ g \notin Mine(w)
         /\ \A v \in active :
              /\ Mine(v)' = IF v = w THEN Mine(v) \cup {g} ELSE Mine(v)
              /\ shards'[v].ms = IF v = w THEN shards[v].ms + Times[g] ELSE shards[v].ms
<1> USE DEF Assign, request
<1>1. Pieces' = Pieces /\ Times' = Times
  BY PiecesStay
<1>2. g \in Pieces /\ g # {} /\ g \subseteq Tests
  BY PiecesPartition DEF Planned
<1>3. Times[g] = Total(g) /\ Times[g] \in Nat
  BY <1>2, TimesType
<1>4. \A v \in active :
        /\ shards'[v].tests = IF v = w THEN shards[v].tests \cup g ELSE shards[v].tests
        /\ shards'[v].ms = IF v = w THEN shards[v].ms + Times[g] ELSE shards[v].ms
  BY <1>3 DEF Give, TypeOK
<1>5. \A v \in active : shards[v].tests \cap g = {}
  BY DEF IInv, EveryTestOnce, NoTestTwice, Assigned, Waiting
<1>6. \A h \in Pieces : h # g => h \cap g = {}
  BY <1>2, PiecesPartition DEF Partition
<1>7. g \notin Mine(w)
  BY <1>2, <1>5 DEF Mine
<1>8. ASSUME NEW v \in active
      PROVE  Mine(v)' = IF v = w THEN Mine(v) \cup {g} ELSE Mine(v)
  <2>1. \A h \in Pieces : h \subseteq shards'[v].tests
                          <=> h \subseteq shards[v].tests \/ (v = w /\ h = g)
    BY <1>4, <1>6
  <2>2. Mine(v)' = {h \in Pieces : h \subseteq shards'[v].tests}
    BY <1>1 DEF Mine
  <2> QED BY <2>1, <2>2, <1>2 DEF Mine
<1>9. LoadIsSum'
  <2> SUFFICES ASSUME NEW v \in active PROVE shards'[v].ms = Total(shards'[v].tests)
    BY TotalStays DEF LoadIsSum
  <2>1. shards[v].ms = Total(shards[v].tests) /\ shards[v].tests \subseteq Tests
    BY DEF Planned, LoadIsSum, NobodyFailed, TypeOK
  <2>2. CASE v # w
    BY <1>4, <2>1, <2>2
  <2>3. CASE v = w
    <3>1. Total(shards[v].tests \cup g) = Total(shards[v].tests) + Total(g)
      BY <1>2, <1>5, <2>1, TestsAreFinite, SumUnion, TotalIsSum DEF TypeOK
    <3> QED BY <1>3, <1>4, <2>1, <2>3, <3>1
  <2> QED BY <2>2, <2>3
<1>10. ASSUME NEW v \in active PROVE shards'[v].ms = SumOver(Times, Mine(v)')
  <2>1. shards[v].ms = SumOver(Times, Mine(v))
    BY DEF Planned
  <2>2. IsFiniteSet(Mine(v)) /\ Mine(v) \subseteq Pieces
    BY TestsAreFinite, PiecesPartition DEF Mine
  <2>3. g \notin Mine(v) => SumOver(Times, Mine(v) \cup {g}) = Times[g] + SumOver(Times, Mine(v))
    BY <1>2, <2>2, SumAdd, TimesType
  <2>4. SumOver(Times, Mine(v)) \in Nat
    BY <2>2, SumType, TimesType
  <2>5. CASE v = w
    <3>1. Mine(v)' = Mine(v) \cup {g} /\ shards'[v].ms = shards[v].ms + Times[g]
      BY <1>4, <1>8, <2>5
    <3>2. SumOver(Times, Mine(v)') = SumOver(Times, Mine(v) \cup {g})
      BY <3>1
    <3> QED BY <1>3, <1>7, <2>1, <2>3, <2>4, <2>5, <3>1, <3>2
  <2>6. CASE v # w
    BY <1>4, <1>8, <2>1, <2>6
  <2> QED BY <2>5, <2>6
<1>11. ASSUME NEW h \in Pieces, h \notin todo'
       PROVE  \E v \in active : h \subseteq shards'[v].tests
  <2>1. CASE h = g
    <3>1. g \subseteq shards'[w].tests
      BY <1>4
    <3> QED BY <2>1, <3>1
  <2>2. CASE h # g
    <3>1. PICK v \in active : h \subseteq shards[v].tests
      BY <1>11, <2>2 DEF Planned
    <3> QED BY <1>4, <3>1
  <2> QED BY <2>1, <2>2
<1>12. DOMAIN shards' = DOMAIN shards
  BY DEF Give
<1>13. Planned'
  BY <1>1, <1>9, <1>10, <1>11, <1>12 DEF Planned, NobodyFailed
<1> QED BY <1>1, <1>2, <1>4, <1>7, <1>8, <1>13

LEMMA StepPlanned == IInv /\ TypeOK /\ Planned /\ [Next]_vars => Planned'
<1> SUFFICES ASSUME IInv, TypeOK, Planned, [Next]_vars PROVE Planned'
  OBVIOUS
<1> USE DEF request
<1>1. ASSUME NEW p \in pairs, Union(p) PROVE Planned'
  <2>1. LoadIsSum'
    BY <1>1, TotalStays DEF Union, LoadIsSum, Planned
  <2> QED BY <1>1, <2>1 DEF Union, Planned
<1>2. CASE MakeGroups
  BY <1>2, NothingGivenYet
<1>3. ASSUME NEW w \in active, NEW g \in todo, Assign(w, g), NobodyFailed PROVE Planned'
  BY <1>3, PieceGiven
<1>4. ASSUME ~ NobodyFailed', DOMAIN shards' = DOMAIN shards, pairs' = pairs, phase # "union"
      PROVE  Planned'
  BY <1>4 DEF Planned, LoadIsSum, NobodyFailed
<1>5. ASSUME NEW w \in active, NEW g \in todo, Assign(w, g), ~ NobodyFailed PROVE Planned'
  BY <1>4, <1>5 DEF Assign, Give, NobodyFailed
<1>6. ASSUME NEW w \in active, NEW t \in Tests, RunTest(w, t) PROVE Planned'
  BY <1>6, PlanStays DEF RunTest
<1>7. ASSUME NEW w \in active, Rebalance(w) PROVE Planned'
  BY <1>4, <1>7 DEF Rebalance, TypeOK, NobodyFailed
<1>8. ASSUME NEW w \in active, NEW g \in todo, Redistribute(w, g) PROVE Planned'
  BY <1>4, <1>8 DEF Redistribute, Give, Planned, NobodyFailed
<1>9. CASE UNCHANGED vars
  BY <1>9, PlanStays DEF vars
<1> QED BY <1>1, <1>2, <1>3, <1>5, <1>6, <1>7, <1>8, <1>9 DEF Next
-----------------------------------------------------------------------------
(***************************************************************************)
(* Graham's bound, one step of the greedy loop.  The jobs of J are on the  *)
(* workers W as `at` has them, none of which has less than L; g is no      *)
(* larger than any of them; and f is any way to place them all in which no *)
(* worker has more than s.                                                 *)
(***************************************************************************)
Greedy(J, W, g, p, at, L, f, s) ==
  /\ IsFiniteSet(J) /\ g \notin J
  /\ IsFiniteSet(W) /\ W # {}
  /\ \A h \in J \cup {g} : p[h] \in Nat
  /\ \A h \in J : p[g] <= p[h] /\ at[h] \in W
  /\ \A h \in J \cup {g} : f[h] \in W
  /\ L \in Nat /\ s \in Nat
  /\ \A w \in W : L <= SumOver(p, Part(J, at, w))
  /\ \A w \in W : SumOver(p, Part(J \cup {g}, f, w)) <= s

(* A set of jobs on one worker weighs no more than the worker does.        *)
LEMMA FewOfPart ==
  ASSUME NEW S, IsFiniteSet(S), NEW f, NEW w, NEW p, \A x \in S : p[x] \in Nat,
         NEW T \in SUBSET Part(S, f, w)
  PROVE  SumOver(p, T) <= SumOver(p, Part(S, f, w))
<1>1. IsFiniteSet(Part(S, f, w)) /\ Part(S, f, w) \subseteq S
  BY FS_Subset DEF Part
<1> QED BY <1>1, SumSubset

(* The average argument: L on every worker and g are no more than s on     *)
(* every worker.                                                           *)
LEMMA GreedyAverage ==
  ASSUME NEW J, NEW W, NEW g, NEW p, NEW at, NEW L, NEW f, NEW s,
         Greedy(J, W, g, p, at, L, f, s)
  PROVE  L * Cardinality(W) + p[g] <= s * Cardinality(W)
<1> USE DEF Greedy
<1>1. IsFiniteSet(J \cup {g}) /\ Cardinality(W) \in Nat
  BY FS_AddElement, FS_CardinalityType
<1>2. L * Cardinality(W) <= SumOver(p, J)
  BY PartsAtLeast
<1>3. SumOver(p, J \cup {g}) <= s * Cardinality(W)
  BY <1>1, PartsAtMost
<1>4. SumOver(p, J \cup {g}) = p[g] + SumOver(p, J)
  BY SumAdd
<1>5. SumOver(p, J) \in Nat /\ L * Cardinality(W) \in Nat /\ s * Cardinality(W) \in Nat
  BY <1>1, SumType
<1> DEFINE a == L * Cardinality(W)
           b == s * Cardinality(W)
           c == SumOver(p, J)
<1> HIDE DEF a, b, c
<1>6. a <= c /\ p[g] + c <= b /\ a \in Nat /\ b \in Nat /\ c \in Nat
  BY <1>2, <1>3, <1>4, <1>5 DEF a, b, c
<1> QED BY <1>6 DEF a, b

(* The counting argument: if three jobs as small as g do not fit in s, any *)
(* worker that f fills has two jobs or one, so that g still fits.          *)
LEMMA GreedyFits ==
  ASSUME NEW J, NEW W, NEW g, NEW p, NEW at, NEW L, NEW f, NEW s,
         Greedy(J, W, g, p, at, L, f, s), 3 * p[g] > s
  PROVE  L + p[g] <= s
<1> SUFFICES ASSUME L + p[g] > s PROVE FALSE
  BY DEF Greedy
<1> DEFINE K == J \cup {g}
           On(w) == Part(J, at, w)
           By(w) == Part(K, f, w)
           Alone(h) == h \in J /\ On(at[h]) = {h}
           c == [h \in K |-> IF Alone(h) THEN 2 ELSE 1]
<1>1. /\ IsFiniteSet(J) /\ IsFiniteSet(K) /\ IsFiniteSet(W)
      /\ J \subseteq K /\ g \in K /\ g \notin J
      /\ L \in Nat /\ s \in Nat /\ p[g] \in Nat
      /\ \A h \in K : p[h] \in Nat /\ p[g] <= p[h] /\ f[h] \in W
      /\ \A h \in J : at[h] \in W
      /\ \A w \in W : L <= SumOver(p, On(w)) /\ SumOver(p, By(w)) <= s
  <2>1. IsFiniteSet(K)
    BY FS_AddElement DEF Greedy
  <2>2. \A h \in K : p[h] \in Nat /\ p[g] <= p[h]
    BY DEF Greedy
  <2> QED BY <2>1, <2>2 DEF Greedy
<1>2. /\ \A w \in W : On(w) \subseteq J
      /\ \A w \in W : By(w) \subseteq K
      /\ \A h \in J : h \in On(at[h])
      /\ \A w \in W : \A h \in On(w) : at[h] = w
      /\ \A h \in K : h \in By(f[h])
  BY <1>1 DEF Part
<1>3. /\ \A h \in K : c[h] \in Nat /\ c[h] >= 1 /\ c[h] <= 2
      /\ \A h \in K : Alone(h) => c[h] = 2
      /\ \A h \in K : ~ Alone(h) => c[h] = 1
      /\ c[g] = 1
  BY <1>1
<1> HIDE DEF c
<1>4. /\ \A w \in W : \A T \in SUBSET By(w) : SumOver(p, T) <= SumOver(p, By(w))
      /\ \A w \in W : \A T \in SUBSET On(w) : SumOver(c, T) <= SumOver(c, On(w))
      /\ \A w \in W : SumOver(p, By(w)) \in Nat
      /\ \A w \in W : SumOver(c, On(w)) \in Nat
  <2>1. \A w \in W : IsFiniteSet(By(w)) /\ IsFiniteSet(On(w))
    BY <1>1, <1>2, FS_Subset
  <2>2. (\A h \in K : p[h] \in Nat) /\ (\A h \in J : c[h] \in Nat)
    BY <1>1, <1>3
  <2> HIDE DEF K
  <2>3. /\ \A w \in W : \A T \in SUBSET By(w) : SumOver(p, T) <= SumOver(p, By(w))
        /\ \A w \in W : \A T \in SUBSET On(w) : SumOver(c, T) <= SumOver(c, On(w))
    BY <1>1, <2>2, FewOfPart
  <2> HIDE DEF On, By
  <2>4. /\ \A w \in W : SumOver(p, By(w)) \in Nat
        /\ \A w \in W : SumOver(c, On(w)) \in Nat
    BY <1>2, <2>1, <2>2, SumType
  <2> QED BY <2>3, <2>4
<1> HIDE DEF K, On, By, Alone
<1>5. p[g] <= s
  <2>1. SumOver(p, {g}) <= SumOver(p, By(f[g])) /\ SumOver(p, By(f[g])) <= s
    BY <1>1, <1>2, <1>4
  <2>2. SumOver(p, {g}) = p[g]
    BY <1>1, SumSingleton
  <2>3. SumOver(p, By(f[g])) \in Nat
    BY <1>1, <1>4
  <2> QED BY <1>1, <2>1, <2>2, <2>3
<1>6. ASSUME NEW w \in W PROVE 2 <= SumOver(c, On(w))
  <2>1. On(w) # {}
    <3>1. On(w) = {} => L <= 0
      BY <1>1, SumEmpty
    <3> QED BY <3>1, <1>1, <1>5
  <2>2. PICK h \in On(w) : TRUE
    BY <2>1
  <2>3. h \in K /\ at[h] = w
    BY <1>1, <1>2, <2>2
  <2>4. CASE On(w) = {h}
    <3>1. c[h] = 2 /\ c[h] \in Nat
      BY <1>1, <1>2, <1>3, <2>2, <2>3, <2>4 DEF Alone
    <3>2. SumOver(c, {h}) = 2
      BY <3>1, SumSingleton
    <3> QED BY <2>4, <3>2
  <2>5. CASE On(w) # {h}
    <3>1. PICK k \in On(w) : k # h
      BY <2>2, <2>5
    <3>2. c[h] \in Nat /\ c[k] \in Nat /\ c[h] >= 1 /\ c[k] >= 1
      BY <1>1, <1>2, <1>3, <2>2, <3>1
    <3>3. SumOver(c, {h, k}) = c[h] + c[k]
      BY <3>1, <3>2, SumOfTwo
    <3>4. SumOver(c, {h, k}) <= SumOver(c, On(w))
      BY <1>4, <2>2, <3>1
    <3> QED BY <1>4, <3>2, <3>3, <3>4
  <2> QED BY <2>4, <2>5
<1>7. ASSUME NEW w \in W, NEW x \in By(w), NEW y \in By(w), x # y
      PROVE  By(w) = {x, y} /\ ~ Alone(x)
  <2>1. p[x] \in Nat /\ p[y] \in Nat /\ p[g] <= p[x] /\ p[g] <= p[y]
    BY <1>1, <1>2, <1>7
  <2>2. ASSUME NEW z \in By(w), z # x, z # y PROVE FALSE
    <3>1. p[z] \in Nat /\ p[g] <= p[z] /\ x # y /\ x # z /\ y # z
      BY <1>1, <1>2, <1>7, <2>2
    <3>2. SumOver(p, {x, y} \cup {z}) = p[z] + SumOver(p, {x, y})
      <4>1. z \notin {x, y} /\ \A u \in {x, y} \cup {z} : p[u] \in Nat
        BY <2>1, <3>1
      <4>2. IsFiniteSet({x, y})
        <5>1. IsFiniteSet({x} \cup {y}) /\ {x} \cup {y} = {x, y}
          BY FS_Singleton, FS_AddElement
        <5> QED BY <5>1
      <4> QED BY <4>1, <4>2, SumAdd
    <3>3. SumOver(p, {x, y} \cup {z}) <= SumOver(p, By(w)) /\ SumOver(p, {x, y}) = p[x] + p[y]
      BY <1>4, <2>1, <3>1, SumOfTwo
    <3>4. SumOver(p, By(w)) <= s /\ SumOver(p, By(w)) \in Nat
      BY <1>1, <1>4
    <3> DEFINE pair == SumOver(p, {x, y})
               three == SumOver(p, {x, y} \cup {z})
               all == SumOver(p, By(w))
    <3> HIDE DEF pair, three, all
    <3>5. three = p[z] + pair /\ three <= all /\ pair = p[x] + p[y] /\ all <= s /\ all \in Nat
      BY <3>2, <3>3, <3>4 DEF pair, three, all
    <3>6. p[z] + (p[x] + p[y]) <= s
      BY <1>1, <2>1, <3>1, <3>5
    <3> QED BY <1>1, <2>1, <3>1, <3>6
  <2>3. ASSUME Alone(x) PROVE FALSE
    <3>1. at[x] \in W /\ On(at[x]) = {x}
      BY <1>1, <2>3 DEF Alone
    <3>2. L <= SumOver(p, {x})
      BY <1>1, <3>1
    <3>3. SumOver(p, {x}) = p[x]
      BY <2>1, SumSingleton
    <3>4. SumOver(p, {x, y}) = p[x] + p[y]
      BY <1>7, <2>1, SumOfTwo
    <3>5. SumOver(p, {x, y}) <= SumOver(p, By(w))
      BY <1>4, <1>7
    <3>6. SumOver(p, By(w)) <= s /\ SumOver(p, By(w)) \in Nat
      BY <1>1, <1>4
    <3> QED BY <1>1, <2>1, <3>2, <3>3, <3>4, <3>5, <3>6
  <2> QED BY <2>2, <2>3, <1>7
<1>8. ASSUME NEW w \in W PROVE SumOver(c, By(w)) <= 2
  <2>1. CASE By(w) = {}
    <3>1. SumOver(c, By(w)) = 0
      BY <2>1, SumEmpty
    <3> QED BY <3>1
  <2>2. CASE \E x : By(w) = {x}
    <3>1. PICK x : By(w) = {x}
      BY <2>2
    <3>2. c[x] \in Nat /\ c[x] <= 2
      BY <1>2, <1>3, <3>1
    <3>3. SumOver(c, {x}) = c[x]
      BY <3>2, SumSingleton
    <3> QED BY <3>1, <3>2, <3>3
  <2>3. CASE By(w) # {} /\ ~ \E x : By(w) = {x}
    <3>1. PICK x \in By(w) : TRUE
      BY <2>3
    <3>2. PICK y \in By(w) : y # x
      BY <2>3, <3>1
    <3>3. By(w) = {x, y} /\ ~ Alone(x) /\ ~ Alone(y)
      BY <1>7, <3>1, <3>2
    <3>4. c[x] = 1 /\ c[y] = 1 /\ c[x] \in Nat /\ c[y] \in Nat
      BY <1>2, <1>3, <3>1, <3>2, <3>3
    <3>5. SumOver(c, {x, y}) = c[x] + c[y]
      BY <3>2, <3>4, SumOfTwo
    <3> QED BY <3>3, <3>4, <3>5
  <2> QED BY <2>1, <2>2, <2>3
<1>9. 2 * Cardinality(W) <= SumOver(c, J)
  BY <1>1, <1>3, <1>6, PartsAtLeast DEF On
<1>10. SumOver(c, K) <= 2 * Cardinality(W)
  BY <1>1, <1>3, <1>8, PartsAtMost DEF By
<1>11. SumOver(c, K) = c[g] + SumOver(c, J)
  BY <1>1, <1>3, SumAdd DEF K
<1>12. SumOver(c, J) \in Nat /\ Cardinality(W) \in Nat
  BY <1>1, <1>3, SumType, FS_CardinalityType
<1> QED BY <1>3, <1>9, <1>10, <1>11, <1>12

LEMMA GrahamStep ==
  ASSUME NEW J, NEW W, NEW g, NEW p, NEW at, NEW L, NEW f, NEW s,
         Greedy(J, W, g, p, at, L, f, s)
  PROVE  3 * Cardinality(W) * (L + p[g]) <= (4 * Cardinality(W) - 1) * s
<1> DEFINE q == p[g]
           m == Cardinality(W)
<1>1. q \in Nat /\ L \in Nat /\ s \in Nat /\ m \in Nat /\ m >= 1
  BY FS_CardinalityType, FS_EmptySet DEF Greedy
<1>2. L * m + q <= s * m
  BY GreedyAverage
<1>3. 3 * q > s => L + q <= s
  BY GreedyFits
<1> HIDE DEF q, m
<1>4. PICK n \in Nat : m = n + 1
  <2>1. m - 1 \in Nat /\ m = (m - 1) + 1
    BY <1>1
  <2> QED BY <2>1
<1> DEFINE nL == n * L
           nq == n * q
           ns == n * s
<1>5. nL \in Nat /\ nq \in Nat /\ ns \in Nat
  BY <1>1, <1>4
<1>6. L * m = nL + L /\ s * m = ns + s
  BY <1>1, <1>4
<1>7. 3 * m * (L + q) = 3 * nL + 3 * nq + 3 * L + 3 * q
  BY <1>1, <1>4
<1>8. (4 * m - 1) * s = 4 * ns + 3 * s
  BY <1>1, <1>4
<1>9. CASE 3 * q <= s
  <2>1. 3 * nq <= ns
    <3>1. n * (3 * q) <= n * s
      BY <1>1, <1>4, <1>9
    <3>2. n * (3 * q) = 3 * nq
      BY <1>1, <1>4
    <3> QED BY <3>1, <3>2
  <2> HIDE DEF nL, nq, ns
  <2>2. nL + L + q <= ns + s
    BY <1>2, <1>6
  <2> QED BY <1>1, <1>5, <1>7, <1>8, <2>1, <2>2 DEF q, m
<1>10. CASE 3 * q > s
  <2>1. nL + nq <= ns
    <3>1. n * (L + q) <= n * s
      BY <1>1, <1>3, <1>4, <1>10
    <3>2. n * (L + q) = nL + nq
      BY <1>1, <1>4
    <3> QED BY <3>1, <3>2
  <2> HIDE DEF nL, nq, ns
  <2>2. L + q <= s
    BY <1>3, <1>10
  <2> QED BY <1>1, <1>5, <1>7, <1>8, <2>1, <2>2 DEF q, m
<1> QED BY <1>1, <1>9, <1>10
-----------------------------------------------------------------------------
(***************************************************************************)
(* The greedy loop.  No piece that waits is larger than one that is given  *)
(* out, and no worker has more than Graham's share of what any placement   *)
(* of all the pieces needs.                                                *)
(***************************************************************************)
Placements == [Pieces -> active]

Fits(f, s) == \A v \in active : SumOver(Times, Part(Pieces, f, v)) <= s

Share(ms, s) == 3 * Cardinality(active) * ms <= (4 * Cardinality(active) - 1) * s

LargestFirst == \A w \in active : \A h \in Mine(w), g \in todo : Times[g] <= Times[h]

WithinShare ==
  \A w \in active, f \in Placements, s \in Nat : Fits(f, s) => Share(shards[w].ms, s)

GreedySoFar ==
  NobodyFailed /\ phase \in {"assign", "run"} /\ strategy # "round_robin"
    => LargestFirst /\ WithinShare

LEMMA InitGreedy == Init => GreedySoFar
BY DEF Init, GreedySoFar

LEMMA ActiveIsFinite == TypeOK => IsFiniteSet(active)
<1> SUFFICES ASSUME TypeOK PROVE IsFiniteSet(active)
  OBVIOUS
<1>1. IsFiniteSet(1..MaxWorkers)
  BY ShardingAssumption, FS_Interval
<1> QED BY <1>1, FS_Subset DEF TypeOK

(* The next piece, on the least loaded worker: the pieces given out so far *)
(* and this one are the jobs of Graham's step.                             *)
LEMMA NextPieceIsGreedy ==
  ASSUME IInv, TypeOK, Planned, NobodyFailed, GreedySoFar,
         NEW w \in active, NEW g \in todo, Assign(w, g), strategy # "round_robin",
         NEW f \in Placements, NEW s \in Nat, Fits(f, s)
  PROVE  Share(shards[w].ms + Times[g], s)
<1> DEFINE J == Pieces \ todo
           At(h) == CHOOSE v \in active : h \subseteq shards[v].tests
           at == [h \in J |-> At(h)]
           L == shards[w].ms
<1>1. /\ phase = "assign" /\ Pieces \subseteq SUBSET Tests /\ IsFiniteSet(Pieces)
      /\ \A h \in Pieces : h # {} /\ Times[h] \in Nat
      /\ g \in Pieces /\ todo \subseteq Pieces
  BY PiecesPartition, TestsAreFinite, TimesType DEF Assign, Planned
<1>2. \A h \in J : at[h] \in active /\ h \subseteq shards[at[h]].tests
  BY <1>1 DEF Planned
<1>3. ASSUME NEW v \in active, NEW h \in Pieces, h \subseteq shards[v].tests
      PROVE  h \in J /\ at[h] = v
  <2>1. PICK t \in h : TRUE
    BY <1>1
  <2>2. h \notin todo
    BY <1>3, <2>1 DEF IInv, EveryTestOnce, NoTestTwice, Assigned, Waiting
  <2>3. h \in J
    BY <2>2
  <2>4. at[h] \in active /\ h \subseteq shards[at[h]].tests
    BY <1>2, <2>3
  <2> HIDE DEF at
  <2> QED BY <1>3, <2>1, <2>3, <2>4 DEF IInv, EveryTestOnce, NoTestTwice
<1> HIDE DEF at
<1>4. \A v \in active : Mine(v) = Part(J, at, v)
  BY <1>2, <1>3 DEF Mine, Part
<1>5. IsFiniteSet(J) /\ IsFiniteSet(active) /\ IsFiniteSet(J \cup {g}) /\ J \cup {g} \subseteq Pieces
  BY <1>1, ActiveIsFinite, FS_Subset
<1>6. L \in Nat /\ \A v \in active : L <= SumOver(Times, Part(J, at, v))
  <2>1. \A v \in active : L <= shards[v].ms
    BY DEF Assign, LeastLoaded
  <2>2. \A v \in active : shards[v].ms = SumOver(Times, Mine(v))
    BY <1>1 DEF Planned
  <2> QED BY <1>4, <2>1, <2>2 DEF TypeOK
<1>7. \A h \in J : Times[g] <= Times[h]
  <2>1. \A v \in active : \A h \in Mine(v) : Times[g] <= Times[h]
    BY <1>1 DEF GreedySoFar, LargestFirst
  <2>2. \A h \in J : h \in Mine(at[h])
    BY <1>2 DEF Mine
  <2> QED BY <1>2, <2>1, <2>2
<1>8. ASSUME NEW v \in active PROVE SumOver(Times, Part(J \cup {g}, f, v)) <= s
  <2>1. Part(J \cup {g}, f, v) \subseteq Part(Pieces, f, v) /\ IsFiniteSet(Part(Pieces, f, v))
    BY <1>1, <1>5, FS_Subset DEF Part
  <2>2. \A h \in Part(Pieces, f, v) : Times[h] \in Nat
    BY <1>1 DEF Part
  <2>3. SumOver(Times, Part(J \cup {g}, f, v)) <= SumOver(Times, Part(Pieces, f, v))
    BY <2>1, <2>2, SumSubset
  <2>4. SumOver(Times, Part(Pieces, f, v)) <= s
    BY DEF Fits
  <2>5. /\ SumOver(Times, Part(J \cup {g}, f, v)) \in Nat
        /\ SumOver(Times, Part(Pieces, f, v)) \in Nat
    BY <2>1, <2>2, FS_Subset, SumType
  <2> QED BY <2>3, <2>4, <2>5
<1>9. Greedy(J, active, g, Times, at, L, f, s)
  BY <1>1, <1>2, <1>5, <1>6, <1>7, <1>8 DEF Greedy, Placements
<1> QED BY <1>9, GrahamStep DEF Share

(* An empty shard is within any share. *)
LEMMA NothingIsWithinShare ==
  ASSUME TypeOK, active # {}, NEW s \in Nat
  PROVE  Share(0, s)
<1> DEFINE m == Cardinality(active)
<1>1. m \in Nat /\ m # 0
  BY ActiveIsFinite, FS_CardinalityType, FS_EmptySet
<1> HIDE DEF m
<1>2. 4 * m - 1 \in Nat /\ 3 * m * 0 = 0
  BY <1>1
<1>3. (4 * m - 1) * s \in Nat
  <2> DEFINE k == 4 * m - 1
  <2> HIDE DEF k
  <2>1. k \in Nat
    BY <1>2 DEF k
  <2>2. k * s \in Nat
    BY <2>1
  <2> QED BY <2>2 DEF k
<1> QED BY <1>2, <1>3 DEF Share, m

LEMMA StepGreedy ==
  IInv /\ TypeOK /\ Planned /\ GreedySoFar /\ [Next]_vars => GreedySoFar'
<1> SUFFICES ASSUME IInv, TypeOK, Planned, GreedySoFar, [Next]_vars,
                    NobodyFailed', phase' \in {"assign", "run"}, strategy' # "round_robin"
             PROVE  LargestFirst' /\ WithinShare'
  BY DEF GreedySoFar
<1> USE DEF request
<1>1. ASSUME UNCHANGED <<est, suite, strategy, parent, pairs, phase, todo, shards, active>>
      PROVE  LargestFirst' /\ WithinShare'
  <2>1. Pieces' = Pieces /\ Times' = Times /\ \A w : Mine(w)' = Mine(w)
    BY <1>1, PlanStays, PiecesStay
  <2>2. LargestFirst /\ WithinShare
    BY <1>1 DEF GreedySoFar, NobodyFailed
  <2> QED BY <1>1, <2>1, <2>2 DEF LargestFirst, WithinShare, Placements, Fits, Share
<1>2. ASSUME NEW p \in pairs, Union(p) PROVE FALSE
  BY <1>2 DEF Union
<1>3. CASE MakeGroups
  <2>1. NobodyFailed /\ active' = active /\ shards' = shards /\ active # {}
    BY <1>3 DEF MakeGroups, NobodyFailed, TypeOK
  <2>2. \A w \in active : Mine(w)' = {} /\ shards[w].ms = 0
    BY <1>3, <2>1, NothingGivenYet
  <2>3. \A s \in Nat : Share(0, s)
    BY <2>1, NothingIsWithinShare
  <2> QED BY <2>1, <2>2, <2>3 DEF LargestFirst, WithinShare, Share
<1>4. ASSUME NEW w \in active, NEW g \in todo, Assign(w, g)
      PROVE  LargestFirst' /\ WithinShare'
  <2>1. /\ NobodyFailed /\ strategy # "round_robin" /\ phase = "assign"
        /\ active' = active /\ todo' = todo \ {g} /\ Largest(g)
    BY <1>4 DEF Assign, Give, NobodyFailed
  <2>2. LargestFirst /\ WithinShare
    BY <2>1 DEF GreedySoFar
  <2>3. /\ Pieces' = Pieces /\ Times' = Times /\ g \in Pieces
        /\ \A v \in active :
             /\ Mine(v)' = IF v = w THEN Mine(v) \cup {g} ELSE Mine(v)
             /\ shards'[v].ms = IF v = w THEN shards[v].ms + Times[g] ELSE shards[v].ms
    BY <1>4, <2>1, PieceGiven
  <2>4. \A k \in todo : Times[k] <= Times[g]
    <3>1. todo \subseteq Pieces
      BY <2>1 DEF Planned
    <3> QED BY <2>1, <3>1, TimesType DEF Largest
  <2>5. ASSUME NEW v \in active, NEW h \in Mine(v)', NEW k \in todo'
        PROVE  Times'[k] <= Times'[h]
    <3>1. h \in Mine(v) \/ h = g
      BY <2>3
    <3> QED BY <2>1, <2>2, <2>3, <2>4, <3>1 DEF LargestFirst
  <2>6. ASSUME NEW v \in active, NEW f \in Placements, NEW s \in Nat, Fits(f, s)
        PROVE  Share(shards'[v].ms, s)
    <3>1. CASE v = w
      <4>1. Share(shards[w].ms + Times[g], s)
        BY <1>4, <2>1, <2>6, NextPieceIsGreedy
      <4> QED BY <2>3, <3>1, <4>1
    <3>2. CASE v # w
      BY <2>2, <2>3, <2>6, <3>2 DEF WithinShare
    <3> QED BY <3>1, <3>2
  <2>7. LargestFirst'
    BY <2>1, <2>5 DEF LargestFirst
  <2>8. WithinShare'
    BY <2>1, <2>3, <2>6 DEF WithinShare, Placements, Fits, Share
  <2> QED BY <2>7, <2>8
<1>5. ASSUME NEW w \in active, NEW t \in Tests, RunTest(w, t)
      PROVE  LargestFirst' /\ WithinShare'
  BY <1>1, <1>5 DEF RunTest
<1>6. ASSUME NEW w \in active, Rebalance(w) PROVE FALSE
  BY <1>6 DEF Rebalance, TypeOK, NobodyFailed
<1>7. ASSUME NEW w \in active, NEW g \in todo, Redistribute(w, g) PROVE FALSE
  BY <1>7 DEF Redistribute, Give, Planned, NobodyFailed
<1>8. CASE UNCHANGED vars
  BY <1>1, <1>8 DEF vars
<1> QED BY <1>2, <1>3, <1>4, <1>5, <1>6, <1>7, <1>8 DEF Next

(* The invariant in full.  Its parts are proved one after the other, each  *)
(* with the help of those before it.                                       *)
Inv == IInv /\ Forest /\ TypeOK /\ Planned /\ GreedySoFar

LEMMA InvHolds == Spec => []Inv
<1>1. Init => Inv
  BY InitIInv, InitForest, InitTypes, InitPlanned, InitGreedy DEF Inv
<1>2. Inv /\ [Next]_vars => Inv'
  <2> SUFFICES ASSUME Inv, [Next]_vars PROVE Inv'
    OBVIOUS
  <2>1. IInv /\ Forest /\ TypeOK /\ Planned /\ GreedySoFar
    BY DEF Inv
  <2>2. IInv' /\ Forest' /\ Planned' /\ GreedySoFar'
    BY <2>1, StepIInv, StepForest, StepPlanned, StepGreedy
  <2>3. TypeOK'
    BY <2>1, <2>2, StepTypes
  <2> QED BY <2>2, <2>3 DEF Inv
<1> QED BY <1>1, <1>2, PTL DEF Spec

(***************************************************************************)
(* From the invariant to what the plan promises.                           *)
(***************************************************************************)
LEMMA PiecesAreClosed ==
  ASSUME TypeOK, GroupsAreComponents, pairs = {}
  PROVE  \A g \in Pieces : Closed(g)
<1>1. \A g \in Groups : Closed(g)
  BY DEF GroupsAreComponents
<1>2. \A g \in BySuite : Closed(g)
  <2>1. \A G \in SUBSET Groups : Closed(UNION G)
    <3> SUFFICES ASSUME NEW G \in SUBSET Groups, NEW p \in deps
                 PROVE  p[1] \in UNION G <=> p[2] \in UNION G
      BY DEF Closed
    <3>1. \A g \in G : p[1] \in g <=> p[2] \in g
      BY <1>1 DEF Closed
    <3> QED BY <3>1
  <2>2. \A h \in Groups : {g \in Groups : suite[First(g)] = suite[First(h)]} \in SUBSET Groups
    OBVIOUS
  <2> QED BY <2>1, <2>2 DEF BySuite
<1> QED BY <1>1, <1>2 DEF Pieces

LEMMA TogetherFromInv == Inv => DependentTogether
<1> SUFFICES ASSUME Inv PROVE DependentTogether
  OBVIOUS
<1>1. GroupsAreComponents
  BY ComponentsFound DEF Inv
<1>2. ASSUME phase = "run", active = DOMAIN shards, NEW p \in deps
      PROVE  \E w \in active : p[1] \in shards[w].tests /\ p[2] \in shards[w].tests
  <2>1. pairs = {} /\ todo = {} /\ p[1] \in Tests
    BY <1>2 DEF Inv, Planned, IInv, Shape, TypeOK
  <2>2. PICK h \in Pieces : p[1] \in h
    BY <2>1, PiecesPartition DEF Partition
  <2>3. p[2] \in h
    BY <1>1, <2>1, <2>2, PiecesAreClosed DEF Inv, Closed
  <2>4. PICK w \in active : h \subseteq shards[w].tests
    BY <1>2, <2>1 DEF Inv, Planned, NobodyFailed
  <2> QED BY <2>2, <2>3, <2>4
<1> QED BY <1>1, <1>2 DEF DependentTogether

(* The load of a worker in a placement, and the placement's span.          *)
LEMMA SpanBoundsLoads ==
  ASSUME TypeOK, active # {}, NEW f \in Placements
  PROVE  Span(Times, f) \in Nat /\ Fits(f, Span(Times, f))
<1> DEFINE Loads == {Load(Times, f, w) : w \in active}
<1>1. \A w \in active : Load(Times, f, w) = SumOver(Times, Part(Pieces, f, w))
  BY TimesType DEF Load, SumOver, Part
<1>2. \A w \in active : Load(Times, f, w) \in Nat
  <2>1. ASSUME NEW w \in active PROVE SumOver(Times, Part(Pieces, f, w)) \in Nat
    <3>1. IsFiniteSet(Part(Pieces, f, w))
      BY PiecesPartition, TestsAreFinite, FS_Subset DEF Part
    <3>2. \A h \in Part(Pieces, f, w) : Times[h] \in Nat
      BY TimesType DEF Part
    <3> QED BY <3>1, <3>2, SumType
  <2> QED BY <1>1, <2>1
<1>3. IsFiniteSet(Loads)
  <2> DEFINE load == [w \in active |-> Load(Times, f, w)]
  <2>1. IsFiniteSet({load[w] : w \in active})
    BY ActiveIsFinite, ImageIsFinite
  <2>2. {load[w] : w \in active} = Loads
    OBVIOUS
  <2> QED BY <2>1, <2>2
<1>4. Loads \subseteq Nat /\ Loads # {}
  BY <1>2
<1>5. \A w \in active : Load(Times, f, w) \in Loads
  OBVIOUS
<1>6. Span(Times, f) = Max(Loads)
  BY DEF Span
<1> HIDE DEF Loads
<1>7. \E n \in Loads : \A k \in Loads : k <= n
  BY <1>3, <1>4, GreatestNumber
<1>8. Max(Loads) \in Loads /\ \A k \in Loads : k <= Max(Loads)
  BY <1>4, <1>7 DEF Max
<1> QED BY <1>1, <1>4, <1>5, <1>6, <1>8 DEF Fits

LEMMA BoundFromInv == Inv => GreedyBound
<1> SUFFICES ASSUME Inv PROVE GreedyBound
  OBVIOUS
<1> USE DEF Inv
<1>1. LoadIsSum
  BY DEF Planned
<1>2. ASSUME phase = "run", active = DOMAIN shards, strategy # "round_robin"
      PROVE  Share(Makespan, Optimum)
  <2>1. active # {} /\ WithinShare
    BY <1>2 DEF Planned, GreedySoFar, NobodyFailed
  <2> DEFINE Spans == {Span(Times, f) : f \in Placements}
             Totals == {Total(shards[w].tests) : w \in active}
  <2>2. Spans \subseteq Nat /\ Spans # {}
    <3>1. PICK v \in active : TRUE
      BY <2>1
    <3>2. [h \in Pieces |-> v] \in Placements
      BY DEF Placements
    <3> QED BY <2>1, <3>2, SpanBoundsLoads
  <2>3. Optimum = Min(Spans) /\ Makespan = Max(Totals)
    BY TimesType DEF Optimum, Makespan, Placements
  <2>4. Totals \subseteq Nat /\ Totals # {} /\ IsFiniteSet(Totals)
    <3>1. IsFiniteSet(Totals)
      <4> DEFINE total == [w \in active |-> Total(shards[w].tests)]
      <4>1. IsFiniteSet({total[w] : w \in active})
        BY ActiveIsFinite, ImageIsFinite
      <4>2. {total[w] : w \in active} = Totals
        OBVIOUS
      <4> QED BY <4>1, <4>2
    <3>2. \A w \in active : Total(shards[w].tests) \in Nat
      BY TotalType DEF TypeOK
    <3> QED BY <2>1, <3>1, <3>2
  <2>5. ASSUME NEW a \in Totals, NEW s \in Spans PROVE Share(a, s)
    <3>1. PICK w \in active : a = Total(shards[w].tests)
      OBVIOUS
    <3>2. PICK f \in Placements : s = Span(Times, f)
      OBVIOUS
    <3>3. a = shards[w].ms
      BY <1>1, <1>2, <3>1 DEF LoadIsSum
    <3>4. s \in Nat /\ Fits(f, s)
      BY <2>1, <3>2, SpanBoundsLoads
    <3> QED BY <2>1, <3>3, <3>4 DEF WithinShare
  <2> HIDE DEF Spans, Totals
  <2>6. Min(Spans) \in Spans
    <3>1. \E n \in Spans : \A k \in Spans : n <= k
      BY <2>2, LeastNumber
    <3> QED BY <2>2, <3>1 DEF Min
  <2>7. Max(Totals) \in Totals
    <3>1. \E n \in Totals : \A k \in Totals : k <= n
      BY <2>4, GreatestNumber
    <3> QED BY <2>4, <3>1 DEF Max
  <2> QED BY <2>3, <2>5, <2>6, <2>7
<1> QED BY <1>1, <1>2 DEF GreedyBound, Share

-----------------------------------------------------------------------------
(***************************************************************************)
(* Every variable has its type, and no group is given out without a worker *)
(* to give it to: for any number of tests and workers, any dependencies,   *)
(* history and strategy.                                                   *)
(***************************************************************************)
THEOREM TypeCorrect == Spec => []TypeOK
<1>1. Inv => TypeOK
  BY DEF Inv
<1> QED BY <1>1, InvHolds, PTL

(***************************************************************************)
(* Union-find yields the connected components, whatever the order in which *)
(* it meets the dependencies, and every strategy keeps them on one worker. *)
(***************************************************************************)
THEOREM DependentsStayTogether == Spec => []DependentTogether
<1> QED BY TogetherFromInv, InvHolds, PTL

(***************************************************************************)
(* Graham's bound on the greedy strategies: the plan takes no longer than  *)
(* 4/3 - 1/(3m) of what the best placement of its groups on m workers      *)
(* takes, and states its workers' loads truly.                             *)
(***************************************************************************)
THEOREM GreedyWithinBound == Spec => []GreedyBound
<1> QED BY BoundFromInv, InvHolds, PTL

(***************************************************************************)
(* Every test runs, and runs once, while a worker is left: for any number  *)
(* of tests and workers, any dependencies, history and strategy.           *)
(***************************************************************************)
THEOREM NoTestLostOrRepeated == Spec => []EveryTestOnce
<1>1. IInv => EveryTestOnce
  BY DEF IInv
<1> QED BY <1>1, InitIInv, StepIInv, PTL DEF Spec
=============================================================================
