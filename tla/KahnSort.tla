------------------------------ MODULE KahnSort ------------------------------
(***************************************************************************)
(* Graph.TopologicalSort and Graph.Levels of internal/dag/graph.go: Kahn's *)
(* loop over in-degrees, with the level each node is given.  Levels runs   *)
(* the same loop again with levelMap added, so one loop stands for both.   *)
(* A step takes one node off the queue and walks all edges.  The queue is  *)
(* filled from a Go map, whose order is random: it is a set here, and any  *)
(* element may come next, which includes every order the code can produce. *)
(***************************************************************************)
EXTENDS Integers, Sequences, FiniteSets

CONSTANT Nodes

ASSUME NodesAssumption == IsFiniteSet(Nodes)

VARIABLES edges, inDegree, queue, sorted, levelMap

sortVars == <<edges, inDegree, queue, sorted, levelMap>>

NoLevel == -1    \* no entry in levelMap

InDegree(n) == Cardinality({m \in Nodes : <<m, n>> \in edges})

\* AddEdge refuses unknown nodes and duplicates, and allows a self-loop.
SortInit ==
  /\ edges \in SUBSET (Nodes \X Nodes)
  /\ inDegree = [n \in Nodes |-> InDegree(n)]
  /\ queue = {n \in Nodes : inDegree[n] = 0}
  /\ levelMap = [n \in Nodes |-> IF inDegree[n] = 0 THEN 0 ELSE NoLevel]
  /\ sorted = <<>>

\* MUTANT: the first parent to reach a node decides its level.
ChildLevel_First(old, parent) == IF old = NoLevel THEN parent + 1 ELSE old
ChildLevel(old, parent) == IF parent + 1 > old THEN parent + 1 ELSE old

\* MUTANT: a node is queued as soon as one parent is done.
Released_Early(before, after) == before > after
Released(before, after) == before > after /\ after = 0

Step(n) ==
  /\ n \in queue
  /\ sorted' = Append(sorted, n)
  /\ inDegree' = [k \in Nodes |-> IF <<n, k>> \in edges THEN inDegree[k] - 1 ELSE inDegree[k]]
  /\ queue' = (queue \ {n}) \cup {k \in Nodes : Released(inDegree[k], inDegree'[k])}
  /\ levelMap' = [k \in Nodes |->
                    IF <<n, k>> \in edges THEN ChildLevel(levelMap[k], levelMap[n])
                    ELSE levelMap[k]]
  /\ UNCHANGED edges

SortNext == \E n \in queue : Step(n)

SortSpec == SortInit /\ [][SortNext]_sortVars
-----------------------------------------------------------------------------
SortedSet == {sorted[i] : i \in 1 .. Len(sorted)}
Done == queue = {}

\* The second result of TopologicalSort.
Incomplete == Len(sorted) # Cardinality(Nodes)

\* Nodes every one of which has a predecessor among them: what a finite graph
\* has exactly when it has a cycle.
Knot(S) == S # {} /\ \A n \in S : \E m \in S : <<m, n>> \in edges

SortType ==
  /\ edges \in SUBSET (Nodes \X Nodes)
  /\ inDegree \in [Nodes -> Nat]
  /\ queue \in SUBSET Nodes
  /\ sorted \in Seq(Nodes)
  /\ levelMap \in [Nodes -> Int]

\* A node's counter is the number of its predecessors not yet sorted (lines
\* 153-186: the counters are never recomputed inside the loop).
CountsUnsorted ==
  \A n \in Nodes :
    inDegree[n] = Cardinality({m \in Nodes : <<m, n>> \in edges /\ m \notin SortedSet})

\* The queue holds exactly the unsorted nodes with nothing left to wait for, so
\* none is lost or queued twice.
QueueExact == queue = {n \in Nodes : n \notin SortedSet /\ inDegree[n] = 0}

\* Every node comes after all its predecessors, and once (lines 169-182).
OrderRespectsEdges ==
  /\ \A j \in 1 .. Len(sorted) : \A m \in Nodes :
       <<m, sorted[j]>> \in edges => \E i \in 1 .. (j - 1) : sorted[i] = m
  /\ \A i, j \in 1 .. Len(sorted) : sorted[i] = sorted[j] => i = j

\* Every edge from a sorted node leads to a strictly higher level, which is what
\* lets the executor run a level concurrently (lines 216-229).
EdgesRaiseLevel ==
  \A m, n \in Nodes :
    (m \in SortedSet /\ <<m, n>> \in edges) => levelMap[n] > levelMap[m]

\* No node of a knot is ever sorted.
KnotsStay == \A S \in SUBSET Nodes : Knot(S) => S \cap SortedSet = {}

\* When the loop ends a cycle is reported exactly if the graph has one (lines
\* 184-186), for every graph, self-loops included.
CycleDetectionExact ==
  Done => (Incomplete <=> \E S \in SUBSET Nodes : Knot(S))
\* One edge more: the longest of the paths that d has to the predecessors of n.
Longer(d) ==
  [n \in Nodes |->
     LET P == {d[m] + 1 : m \in {x \in Nodes : <<x, n>> \in edges}}
     IN  IF P = {} THEN 0 ELSE CHOOSE x \in P : \A y \in P : x >= y]

\* The length of a longest path to n of at most k edges, and of any length: on an
\* acyclic graph a path has fewer edges than there are nodes.
PathLength[k \in 0 .. Cardinality(Nodes)] ==
  IF k = 0 THEN [n \in Nodes |-> 0] ELSE Longer(PathLength[k - 1])
LongestPath == PathLength[Cardinality(Nodes)]

\* On an acyclic graph the level of a node is the length of the longest path to
\* it, so no node runs later than its dependencies force it to (graph.go
\* 189-248).
LevelIsLongestPath == (Done /\ ~Incomplete) => levelMap = LongestPath
=============================================================================
