------------------------------ MODULE DagGraph ------------------------------
(***************************************************************************)
(* dag.Graph as it is edited (internal/dag/graph.go) and the Validator     *)
(* that is asked before an edit or an execution (validator.go).  A caller  *)
(* may edit with or without asking; both happen here, and namesAsked and   *)
(* edgesAsked hold as long as every addition was asked about and found     *)
(* valid first.  AddEdge keeps the list of edges free of duplicates, so a  *)
(* set stands for it.                                                      *)
(***************************************************************************)
EXTENDS Integers, FiniteSets

CONSTANTS
  Ids, Names,
  NoName,     \* not a name
  MaxDepth    \* at least 1: NewValidatorWithMaxDepth raises it

ASSUME GraphAssumption ==
  IsFiniteSet(Ids) /\ NoName \notin Names /\ MaxDepth \in Nat \ {0}

VARIABLES
  name,       \* g.nodes: the name under an id, NoName for no node
  graphEdges, \* g.edges
  namesAsked, edgesAsked

asked == <<namesAsked, edgesAsked>>
graphVars == <<name, graphEdges, asked>>

GraphNodes == {i \in Ids : name[i] # NoName}
Parents(i) == {m \in GraphNodes : <<m, i>> \in graphEdges}
Children(i) == {m \in GraphNodes : <<i, m>> \in graphEdges}

GraphInit == name = [i \in Ids |-> NoName] /\ graphEdges = {} /\ namesAsked = TRUE /\ edgesAsked = TRUE
-----------------------------------------------------------------------------
(* TopologicalSort and Levels, as sets: what rounds of Kahn's loop have sorted
   of the nodes and edges e (module KahnSort has the loop itself). *)

Round(nodes, e, done) == {n \in nodes : \A m \in Ids : <<m, n>> \in e => m \in done}

Sorted(nodes, e) ==
  LET S[k \in 0 .. Cardinality(Ids)] == IF k = 0 THEN {} ELSE Round(nodes, e, S[k - 1])
  IN S

HasCycle(nodes, e) == Sorted(nodes, e)[Cardinality(Ids)] # nodes

Levels == Sorted(GraphNodes, graphEdges)

\* len(levels); an empty graph has one empty level.
LevelCount ==
  IF GraphNodes = {} THEN 1
  ELSE CHOOSE k \in 1 .. Cardinality(Ids) : Levels[k] = GraphNodes /\ Levels[k - 1] # GraphNodes
-----------------------------------------------------------------------------
(* Validator *)

\* The nodes validateCycles names: all that were not sorted.
CycleReport ==
  IF HasCycle(GraphNodes, graphEdges) THEN GraphNodes \ Levels[Cardinality(Ids)] ELSE {}

Orphans == {i \in GraphNodes : Parents(i) = {} /\ Children(i) = {}}

MissingDependencies == {i \in Ids \ GraphNodes : \E m \in Ids : <<i, m>> \in graphEdges \/ <<m, i>> \in graphEdges}

\* Levels has an error on a cyclic graph, and that is reported too.
TooDeep == HasCycle(GraphNodes, graphEdges) \/ LevelCount > MaxDepth

ValidateDAG ==
  CycleReport = {} /\ Orphans = {} /\ MissingDependencies = {} /\ ~TooDeep

ValidateNodeAddition(nm, deps) == deps \subseteq GraphNodes /\ \A i \in GraphNodes : name[i] # nm

\* MUTANT: the test graph is built without the new edge.
ValidateEdgeAddition_Old(from, to) ==
  {from, to} \subseteq GraphNodes /\ ~HasCycle(GraphNodes, graphEdges)
\* The test graph is a copy with the edge appended.
ValidateEdgeAddition(from, to) ==
  {from, to} \subseteq GraphNodes /\ ~HasCycle(GraphNodes, graphEdges \cup {<<from, to>>})
-----------------------------------------------------------------------------
(* Graph *)

\* AddNode with a fresh id, and AddNodeWithID, which refuses an id in use.
AddNode(i, nm) ==
  /\ i \notin GraphNodes
  /\ name' = [name EXCEPT ![i] = nm]
  /\ \E deps \in SUBSET GraphNodes : namesAsked' = (namesAsked /\ ValidateNodeAddition(nm, deps))
  /\ UNCHANGED <<graphEdges, edgesAsked>>

\* A self-loop is not refused.
AddEdge(from, to) ==
  /\ {from, to} \subseteq GraphNodes /\ <<from, to>> \notin graphEdges
  /\ graphEdges' = graphEdges \cup {<<from, to>>}
  /\ edgesAsked' = (edgesAsked /\ ValidateEdgeAddition(from, to))
  /\ UNCHANGED <<name, namesAsked>>

Incident(i) == {e \in graphEdges : e[1] = i \/ e[2] = i}

RemoveNode(i) ==
  /\ i \in GraphNodes
  /\ name' = [name EXCEPT ![i] = NoName]
  /\ graphEdges' = graphEdges \ Incident(i)
  /\ UNCHANGED asked

RemoveEdge(from, to) ==
  /\ <<from, to>> \in graphEdges
  /\ graphEdges' = graphEdges \ {<<from, to>>}
  /\ UNCHANGED <<name, asked>>

Clear ==
  /\ name' = [i \in Ids |-> NoName] /\ graphEdges' = {}
  /\ UNCHANGED asked

GraphNext ==
  \/ \E i \in Ids, nm \in Names : AddNode(i, nm)
  \/ \E i, j \in Ids : AddEdge(i, j) \/ RemoveEdge(i, j)
  \/ \E i \in Ids : RemoveNode(i)
  \/ Clear
-----------------------------------------------------------------------------
\* The pairs of R, and those that one more edge joins.
Extended(R) == R \cup {p \in Ids \X Ids : \E m \in Ids : <<p[1], m>> \in R /\ <<m, p[2]>> \in graphEdges}

\* Pairs that a path of at most k + 1 edges joins.
Reach[k \in 0 .. Cardinality(Ids)] == IF k = 0 THEN graphEdges ELSE Extended(Reach[k - 1])

OnCycle(i) == <<i, i>> \in Reach[Cardinality(Ids)]

\* Paths of MaxDepth edges, one more than a valid graph may have.
Chain == [1 .. (MaxDepth + 1) -> GraphNodes]

\* What the validator's answers mean.  A graph every addition to which was found
\* valid first has no cycle and no two nodes of one name, by which handlers are
\* looked up, however nodes and edges are removed in between.  A graph
\* ValidateDAG accepts can be executed: no node reaches itself, no path has more
\* than MaxDepth nodes, and every node has a neighbour (validator.go 56-257).
ValidatorIsSound ==
  /\ edgesAsked => \A i \in Ids : ~OnCycle(i)
  /\ namesAsked => \A i, j \in GraphNodes : name[i] = name[j] => i = j
  /\ ValidateDAG =>
       /\ \A i \in GraphNodes : ~OnCycle(i) /\ \E j \in GraphNodes : {<<i, j>>, <<j, i>>} \cap graphEdges # {}
       /\ ~ \E c \in Chain : \A k \in 1 .. MaxDepth : <<c[k], c[k + 1]>> \in graphEdges
=============================================================================
