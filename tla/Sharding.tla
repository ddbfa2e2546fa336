------------------------------ MODULE Sharding ------------------------------
(***************************************************************************)
(* Plans that split the tests of an execution among workers: the           *)
(* dependency groups of union-find, the three strategies, and the          *)
(* rebalancing when a worker fails.                                        *)
(*                                                                         *)
(* One action is one iteration of a loop of package shard, so that the     *)
(* order in which Go walks a map, and in which sort.Slice leaves equal     *)
(* elements, is a free choice.  The handlers keep nothing: the client      *)
(* holds the plan, its workers run the tests, and it sends the plan back   *)
(* when a worker fails.                                                    *)
(***************************************************************************)
EXTENDS Naturals, FiniteSets, FiniteSetsExt

CONSTANTS
  Tests,        \* the names in the request, each once
  Rank,         \* their order in the request
  MaxWorkers,   \* bound: num_workers
  Histories,    \* the rows of test_duration_history: average by test and suite
  DepRelations, \* the dependencies: pairs <<test, what must run before it>>
  Strategies,   \* the strategies asked for
  DefaultEst    \* DefaultEstDurationMs

NoSuite == 0    \* the suite ""; other suites are numbers in their order

ASSUME ShardingAssumption ==
  /\ IsFiniteSet(Tests) /\ Tests # {}
  /\ MaxWorkers \in Nat \ {0}
  /\ DefaultEst \in Nat
  /\ \A d \in DepRelations : d \subseteq Tests \X Tests
  /\ Strategies \subseteq {"duration_balanced", "round_robin", "suite_grouped"}
  /\ \A h \in Histories, t \in Tests :
       /\ IsFiniteSet(DOMAIN h[t]) /\ DOMAIN h[t] \subseteq Nat
       /\ \A x \in DOMAIN h[t] : h[t][x] \in Nat

VARIABLES
  est,       \* EstDurationMs of a test
  suite,     \* its suite
  deps,      \* the request's dependencies
  strategy,  \* the request's strategy
  phase,     \* "union", "assign", "run" or "rebalance"
  pairs,     \* dependencies that union has not seen
  parent,    \* the union-find forest
  todo,      \* groups that have no worker yet
  shards,    \* TestNames and EstDurationMs of a worker's shard
  active,    \* the workers of the plan that have not failed
  done       \* the tests that have run

vars == <<est, suite, deps, strategy, phase, pairs, parent, todo, shards, active, done>>

request == <<est, suite, deps, strategy>>

(***************************************************************************)
(* EnrichWithHistory.  A history gives a test the averages of its rows by  *)
(* suite; a test without rows, or whose averages are all 0, gets the       *)
(* default and no suite.                                                   *)
(***************************************************************************)
Average(h, t)  == MapThenSumSet(LAMBDA x : h[t][x], DOMAIN h[t])
Estimate(h, t) == IF Average(h, t) > 0 THEN Average(h, t) ELSE DefaultEst
SuiteOf(h, t)  == IF Average(h, t) > 0 THEN CHOOSE x \in DOMAIN h[t] : \A y \in DOMAIN h[t] : x <= y
                                       ELSE NoSuite

(***************************************************************************)
(* Union-find in a forest f.  Path is what find walks through and then     *)
(* points at the root; unseen tests are no part of a request and are       *)
(* skipped there.                                                          *)
(***************************************************************************)
Path(f, t) == LET walk[x \in Tests] == IF f[x] = x THEN {x} ELSE {x} \cup walk[f[x]]
              IN  walk[t]
Find(f, t) == CHOOSE r \in Path(f, t) : f[r] = r

Compressed(f, t) == [x \in Tests |-> IF x \in Path(f, t) THEN Find(f, t) ELSE f[x]]

Union_NotRoots(p) ==
  /\ phase = "union"
  /\ p \in pairs
  /\ pairs' = pairs \ {p}
  /\ parent' = [Compressed(parent, p[2]) EXCEPT ![p[1]] = Find(parent, p[2])]
  /\ UNCHANGED <<request, phase, todo, shards, active, done>>

Union(p) ==
  LET a == p[1]
      b == p[2]
      seen == [x \in Tests |-> IF x \in Path(parent, b) THEN Find(parent, b)
                                                        ELSE Compressed(parent, a)[x]]
  IN
  /\ phase = "union"
  /\ p \in pairs
  /\ pairs' = pairs \ {p}
  /\ parent' = [seen EXCEPT ![Find(parent, a)] = Find(parent, b)]
  /\ UNCHANGED <<request, phase, todo, shards, active, done>>

(***************************************************************************)
(* The groups, and for suite_grouped their merger by the suite of their    *)
(* first test.  The total of a group is the sum of its estimates.          *)
(***************************************************************************)
Total(g)     == MapThenSumSet(LAMBDA t : est[t], g)
First(g)     == CHOOSE t \in g : \A u \in g : Rank[t] <= Rank[u]
Groups       == {{t \in Tests : Find(parent, t) = Find(parent, u)} : u \in Tests}

BySuite      == {UNION {g \in Groups : suite[First(g)] = suite[First(h)]} : h \in Groups}

Pieces       == IF strategy = "suite_grouped" THEN BySuite ELSE Groups

MakeGroups ==
  /\ phase = "union" /\ pairs = {}
  /\ todo' = Pieces
  /\ phase' = "assign"
  /\ UNCHANGED <<request, pairs, parent, shards, active, done>>

(***************************************************************************)
(* The next group and its worker.  duration_balanced and suite_grouped     *)
(* take a largest group and give it to the least loaded worker, the first  *)
(* of several; round_robin deals the groups out in the order it finds them *)
(* in, which is the request's if there are no dependencies.                *)
(***************************************************************************)
LeastLoaded(w) ==
  /\ w \in active
  /\ \A v \in active : shards[w].ms <= shards[v].ms
  /\ \A v \in active : shards[v].ms = shards[w].ms => w <= v

Largest_Unsorted(g) == g \in todo

Largest(g) == \A h \in todo : Total(g) >= Total(h)

Earliest(g) == deps = {} => \A h \in todo : Rank[First(g)] <= Rank[First(h)]
Dealt == Cardinality(Groups) - Cardinality(todo)

Give(w, g, ms) ==
  shards' = [shards EXCEPT ![w] = [tests |-> @.tests \cup g, ms |-> @.ms + ms]]

Assign(w, g) ==
  /\ phase = "assign"
  /\ g \in todo
  /\ IF strategy = "round_robin"
       THEN Earliest(g) /\ w = 1 + (Dealt % Cardinality(active))
       ELSE Largest(g) /\ LeastLoaded(w)
  /\ Give(w, g, Total(g))
  /\ todo' = todo \ {g}
  /\ phase' = IF todo' = {} THEN "run" ELSE "assign"
  /\ UNCHANGED <<request, pairs, parent, active, done>>

(***************************************************************************)
(* A worker runs its tests; a worker fails, and the client asks for the    *)
(* tests it has not completed to be spread over the others.                *)
(***************************************************************************)
RunTest(w, t) ==
  /\ phase = "run"
  /\ w \in active /\ t \in shards[w].tests \ done
  /\ done' = done \cup {t}
  /\ UNCHANGED <<request, phase, pairs, parent, todo, shards, active>>

Rebalance_NoWorkers(w) ==
  /\ phase = "run"
  /\ w \in active
  /\ active' = active \ {w}
  /\ todo' = {{t} : t \in shards[w].tests \ done}
  /\ phase' = IF todo' = {} THEN "run" ELSE "rebalance"
  /\ UNCHANGED <<request, pairs, parent, shards, done>>

Rebalance_KeepsFailed(w) ==
  /\ phase = "run"
  /\ w \in active
  /\ todo' = {{t} : t \in shards[w].tests \ done}
  /\ phase' = IF todo' = {} THEN "run" ELSE "rebalance"
  /\ UNCHANGED <<request, pairs, parent, shards, active, done>>

Rebalance(w) ==
  /\ phase = "run"
  /\ w \in active
  /\ active' = active \ {w}
  /\ todo' = IF active' = {} THEN {} ELSE {{t} : t \in shards[w].tests \ done}
  /\ phase' = IF todo' = {} THEN "run" ELSE "rebalance"
  /\ UNCHANGED <<request, pairs, parent, shards, done>>

Redistribute(w, g) ==
  /\ phase = "rebalance"
  /\ g \in todo /\ LeastLoaded(w)
  /\ Give(w, g, DefaultEst)
  /\ todo' = todo \ {g}
  /\ phase' = IF todo' = {} THEN "run" ELSE "rebalance"
  /\ UNCHANGED <<request, pairs, parent, active, done>>

(***************************************************************************)
(* The specification: a request for a plan, and the life of the plan.      *)
(***************************************************************************)
Init ==
  /\ \E h \in Histories :
       /\ est = [t \in Tests |-> Estimate(h, t)]
       /\ suite = [t \in Tests |-> SuiteOf(h, t)]
  /\ deps \in DepRelations
  /\ strategy \in Strategies
  /\ \E n \in 1..MaxWorkers : active = 1..n
  /\ phase = "union"
  /\ pairs = deps
  /\ parent = [t \in Tests |-> t]
  /\ todo = {}
  /\ shards = [w \in active |-> [tests |-> {}, ms |-> 0]]
  /\ done = {}

Next ==
  \/ \E p \in pairs : Union(p)
  \/ MakeGroups
  \/ \E w \in active, g \in todo : Assign(w, g)
  \/ \E w \in active, t \in Tests : RunTest(w, t)
  \/ \E w \in active : Rebalance(w)
  \/ \E w \in active, g \in todo : Redistribute(w, g)

Spec == Init /\ [][Next]_vars

(***************************************************************************)
(* Properties.                                                             *)
(***************************************************************************)
\* Every variable has its type, and there is a worker whenever a group is given
\* out (activeShards is indexed without a check).
TypeOK ==
  /\ est \in [Tests -> Nat]
  /\ suite \in [Tests -> Nat]
  /\ deps \subseteq Tests \X Tests
  /\ strategy \in Strategies
  /\ phase \in {"union", "assign", "run", "rebalance"}
  /\ pairs \subseteq deps
  /\ parent \in [Tests -> Tests]
  /\ todo \subseteq SUBSET Tests
  /\ active \subseteq 1..MaxWorkers
  /\ active \subseteq DOMAIN shards
  /\ \A w \in DOMAIN shards : shards[w].tests \subseteq Tests /\ shards[w].ms \in Nat
  /\ done \subseteq Tests
  /\ phase # "run" => active # {}

\* A set no dependency leaves: the connected components are the smallest ones.
Closed(S) == \A p \in deps : p[1] \in S <=> p[2] \in S

\* When the plan is made, union-find has found the connected components of the
\* dependencies, in whatever order the map gave them.
GroupsAreComponents ==
  pairs = {} => \A g \in Groups :
                  Closed(g) /\ \A S \in SUBSET g : Closed(S) => S \in {{}, g}

\* Tests are kept together because they depend on one another and for no other
\* reason, and they share a worker until a worker fails (Rebalance spreads its
\* tests one by one).
DependentTogether ==
  /\ GroupsAreComponents
  /\ phase = "run" /\ active = DOMAIN shards =>
       \A p \in deps : \E w \in active : p[1] \in shards[w].tests /\ p[2] \in shards[w].tests

\* The tests of the plan's workers and those that wait for one.
Assigned == UNION {shards[w].tests : w \in active}
Waiting  == UNION todo

\* While a worker is left, no test is lost: it has run, or a worker has it, or
\* it is about to get one.
NoTestIsLost ==
  phase # "union" /\ active # {} => Tests \subseteq done \cup Assigned \cup Waiting

\* No two workers hold the same test, nor does a worker hold one that waits,
\* however many workers have failed.
NoTestTwice ==
  /\ \A v, w \in active : v # w => shards[v].tests \cap shards[w].tests = {}
  /\ \A g, h \in todo : g # h => g \cap h = {}
  /\ Assigned \cap Waiting = {}

\* A rebalancing gives out no test that has completed.
NothingRunsAgain == phase = "rebalance" => Waiting \cap done = {}

\* Every test runs, and runs once, as long as a worker is left, whichever workers
\* fail and whenever they do.
EveryTestOnce == NoTestIsLost /\ NoTestTwice /\ NothingRunsAgain

\* EstDurationMs of a shard is the sum of its tests' estimates, in a plan.
LoadIsSum ==
  active = DOMAIN shards => \A w \in active : shards[w].ms = Total(shards[w].tests)

\* The makespan of the plan and of a best one, by trying every assignment.
Times            == [g \in Pieces |-> Total(g)]
Load(times, f, w) == MapThenSumSet(LAMBDA g : times[g], {g \in DOMAIN times : f[g] = w})
Span(times, f)    == Max({Load(times, f, w) : w \in active})

Makespan == Max({Total(shards[w].tests) : w \in active})
Optimum  == LET times == Times IN Min({Span(times, f) : f \in [DOMAIN times -> active]})

\* Graham's bound: the greedy strategies take at most 4/3 - 1/(3m) of the best
\* wall-clock time m workers could reach, and the plan states its times truly.
GreedyBound ==
  /\ LoadIsSum
  /\ LET m == Cardinality(active) IN
     phase = "run" /\ done = {} /\ active = DOMAIN shards /\ strategy # "round_robin"
       => 3 * m * Makespan <= (4 * m - 1) * Optimum
=============================================================================
