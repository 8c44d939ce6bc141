------------------------------ MODULE DagProofs ------------------------------
(***************************************************************************)
(* The topological sort is correct on every finite graph: the order        *)
(* respects the edges, a cycle is reported exactly when there is one, and  *)
(* a node's level is the length of a longest path to it.  The validator's  *)
(* answers mean what they say for any ids and names and every depth, after *)
(* any edits.  The two parts share no state.                               *)
(***************************************************************************)
EXTENDS KahnSort, DagGraph, FiniteSetTheorems, WellFoundedInduction, TLAPS

\* What the loop maintains.  CountsUnsorted and QueueExact are what make the
\* other three inductive: a queued node has no unsorted predecessor.
SortInv ==
  /\ SortType /\ CountsUnsorted /\ QueueExact
  /\ OrderRespectsEdges /\ EdgesRaiseLevel /\ KnotsStay

Waiting(n) == {m \in Nodes : <<m, n>> \in edges /\ m \notin SortedSet}

\* A set of nodes is finite, with a natural number of elements.
LEMMA NodeSets ==
  ASSUME NEW S, S \subseteq Nodes
  PROVE  IsFiniteSet(S) /\ Cardinality(S) \in Nat /\ (Cardinality(S) = 0 <=> S = {})
BY NodesAssumption, FS_Subset, FS_CardinalityType, FS_EmptySet

\* The loop starts in the invariant.
LEMMA InitSortInv == SortInit => SortInv
<1> SUFFICES ASSUME SortInit PROVE SortInv
  OBVIOUS
<1>1. SortedSet = {} /\ Len(sorted) = 0
  BY DEF SortInit, SortedSet
<1>2. SortType
  <2>1. \A n \in Nodes : Cardinality({m \in Nodes : <<m, n>> \in edges}) \in Nat
    BY NodeSets
  <2> QED BY <2>1 DEF SortInit, InDegree, SortType, NoLevel
<1>3. CountsUnsorted
  <2> SUFFICES ASSUME NEW n \in Nodes
               PROVE  inDegree[n] = Cardinality(Waiting(n))
    BY DEF CountsUnsorted, Waiting
  <2>1. Waiting(n) = {m \in Nodes : <<m, n>> \in edges}
    BY <1>1 DEF Waiting
  <2> QED BY <2>1 DEF SortInit, InDegree
<1>4. QueueExact
  BY <1>1 DEF SortInit, QueueExact
<1>5. OrderRespectsEdges /\ EdgesRaiseLevel /\ KnotsStay
  BY <1>1 DEF OrderRespectsEdges, EdgesRaiseLevel, KnotsStay
<1> QED BY <1>2, <1>3, <1>4, <1>5 DEF SortInv

\* A queued node is unsorted and all its predecessors are sorted.
LEMMA QueuedIsReady ==
  ASSUME SortInv, NEW n \in queue
  PROVE  /\ n \in Nodes /\ n \notin SortedSet
         /\ \A m \in Nodes : <<m, n>> \in edges => m \in SortedSet
<1>1. n \in Nodes /\ n \notin SortedSet /\ inDegree[n] = 0
  BY DEF SortInv, QueueExact
<1>2. Waiting(n) = {}
  <2>1. Waiting(n) \subseteq Nodes
    BY DEF Waiting
  <2>2. Cardinality(Waiting(n)) = 0
    BY <1>1 DEF SortInv, CountsUnsorted, Waiting
  <2> QED BY <2>1, <2>2, NodeSets
<1> QED BY <1>1, <1>2 DEF Waiting

\* The predecessors of a sorted node are sorted.
LEMMA SortedIsClosed ==
  ASSUME SortInv, NEW x \in SortedSet, NEW y \in Nodes, <<y, x>> \in edges
  PROVE  y \in SortedSet
<1>1. PICK j \in 1 .. Len(sorted) : x = sorted[j]
  BY DEF SortedSet
<1>2. PICK i \in 1 .. (j - 1) : sorted[i] = y
  BY <1>1 DEF SortInv, OrderRespectsEdges
<1>3. Len(sorted) \in Nat
  BY DEF SortInv, SortType
<1>4. i \in 1 .. Len(sorted)
  BY <1>1, <1>2, <1>3
<1> QED BY <1>2, <1>4 DEF SortedSet

\* A step adds its node to the sorted ones.
LEMMA StepSorts ==
  ASSUME SortType, NEW n \in Nodes, Step(n)
  PROVE  /\ SortedSet' = SortedSet \cup {n}
         /\ Len(sorted') = Len(sorted) + 1
         /\ sorted'[Len(sorted) + 1] = n
         /\ \A i \in 1 .. Len(sorted) : sorted'[i] = sorted[i]
         /\ Len(sorted) \in Nat
<1>1. /\ Len(sorted') = Len(sorted) + 1 /\ Len(sorted) \in Nat
      /\ sorted'[Len(sorted) + 1] = n
      /\ \A i \in 1 .. Len(sorted) : sorted'[i] = sorted[i]
  BY DEF SortType, Step
<1>2. SortedSet' \subseteq SortedSet \cup {n}
  BY <1>1 DEF SortedSet
<1>3. SortedSet \cup {n} \subseteq SortedSet'
  <2>1. n \in SortedSet'
    BY <1>1 DEF SortedSet
  <2>2. ASSUME NEW m \in SortedSet PROVE m \in SortedSet'
    <3>1. PICK i \in 1 .. Len(sorted) : m = sorted[i]
      BY DEF SortedSet
    <3>2. i \in 1 .. Len(sorted') /\ m = sorted'[i]
      BY <1>1, <3>1
    <3> QED BY <3>2 DEF SortedSet
  <2> QED BY <2>1, <2>2
<1> QED BY <1>1, <1>2, <1>3

\* The counters keep counting the unsorted predecessors, and stay natural.
LEMMA StepCounts ==
  ASSUME SortInv, NEW n \in queue, Step(n)
  PROVE  /\ CountsUnsorted'
         /\ \A k \in Nodes : inDegree'[k] \in Nat
         /\ \A k \in Nodes : <<n, k>> \in edges => inDegree[k] > 0
<1>0. n \in Nodes /\ n \notin SortedSet /\ edges' = edges /\ SortType
  BY QueuedIsReady DEF Step, SortInv
<1>1. SortedSet' = SortedSet \cup {n}
  BY <1>0, StepSorts
<1>2. ASSUME NEW k \in Nodes
      PROVE  /\ inDegree'[k] = Cardinality(Waiting(k)')
             /\ inDegree'[k] \in Nat
             /\ <<n, k>> \in edges => inDegree[k] > 0
  <2>1. /\ Waiting(k) \subseteq Nodes /\ IsFiniteSet(Waiting(k))
        /\ Cardinality(Waiting(k)) \in Nat
    <3>1. Waiting(k) \subseteq Nodes
      BY DEF Waiting
    <3> QED BY <3>1, NodeSets
  <2>2. inDegree[k] = Cardinality(Waiting(k))
    BY DEF SortInv, CountsUnsorted, Waiting
  <2>3. CASE <<n, k>> \in edges
    <3>1. n \in Waiting(k) /\ Waiting(k)' = Waiting(k) \ {n}
      BY <1>0, <1>1, <2>3 DEF Waiting
    <3>2. Cardinality(Waiting(k)') = Cardinality(Waiting(k)) - 1
      BY <2>1, <3>1, FS_RemoveElement
    <3>3. Cardinality(Waiting(k)) # 0
      BY <2>1, <3>1, NodeSets
    <3>4. inDegree'[k] = inDegree[k] - 1
      BY <2>3 DEF Step
    <3> QED BY <2>1, <2>2, <3>2, <3>3, <3>4
  <2>4. CASE <<n, k>> \notin edges
    <3>1. Waiting(k)' = Waiting(k)
      BY <1>0, <1>1, <2>4 DEF Waiting
    <3>2. inDegree'[k] = inDegree[k]
      BY <2>4 DEF Step
    <3> QED BY <2>1, <2>2, <2>4, <3>1, <3>2
  <2> QED BY <2>3, <2>4
<1> QED BY <1>2 DEF CountsUnsorted, Waiting

\* The loop body preserves the invariant.
LEMMA StepSortInv == ASSUME SortInv, NEW n \in queue, Step(n) PROVE SortInv'
<1>0. /\ n \in Nodes /\ n \notin SortedSet /\ edges' = edges /\ SortType
      /\ \A m \in Nodes : <<m, n>> \in edges => m \in SortedSet
  BY QueuedIsReady DEF Step, SortInv
<1>1. /\ SortedSet' = SortedSet \cup {n} /\ Len(sorted) \in Nat
      /\ Len(sorted') = Len(sorted) + 1 /\ sorted'[Len(sorted) + 1] = n
      /\ \A i \in 1 .. Len(sorted) : sorted'[i] = sorted[i]
  BY <1>0, StepSorts
<1>2. CountsUnsorted' /\ \A k \in Nodes : inDegree'[k] \in Nat
  BY StepCounts
<1>3. SortType'
  <2>1. inDegree' \in [Nodes -> Nat]
    BY <1>2 DEF Step
  <2>2. levelMap' \in [Nodes -> Int]
    BY <1>0 DEF Step, SortType, ChildLevel
  <2>3. sorted' \in Seq(Nodes) /\ queue' \in SUBSET Nodes
    BY <1>0 DEF Step, SortType
  <2> QED BY <1>0, <2>1, <2>2, <2>3 DEF SortType
<1>4. QueueExact'
  <2>1. ASSUME NEW k \in Nodes
        PROVE  k \in queue' <=> k \notin SortedSet' /\ inDegree'[k] = 0
    <3>1. /\ inDegree[k] \in Nat /\ inDegree'[k] \in Nat
          /\ k \in queue <=> k \notin SortedSet /\ inDegree[k] = 0
      BY <1>2 DEF SortInv, SortType, QueueExact
    <3>2. k \in queue' <=> \/ k \in queue /\ k # n
                           \/ inDegree[k] > inDegree'[k] /\ inDegree'[k] = 0
      <4> DEFINE freed == {x \in Nodes : Released(inDegree[x], inDegree'[x])}
      <4>1. queue' = (queue \ {n}) \cup freed
        BY DEF Step
      <4>2. k \in freed <=> inDegree[k] > inDegree'[k] /\ inDegree'[k] = 0
        BY <2>1 DEF Released
      <4> HIDE DEF freed
      <4> QED BY <4>1, <4>2
    <3>3. CASE <<n, k>> \in edges
      <4>1. inDegree'[k] = inDegree[k] - 1 /\ inDegree[k] > 0
        BY <3>3, StepCounts DEF Step
      <4>2. k \notin SortedSet
        BY <1>0, <3>3, SortedIsClosed
      <4>3. k # n
        BY <1>0, <3>3
      <4> QED BY <1>1, <3>1, <3>2, <4>1, <4>2, <4>3
    <3>4. CASE <<n, k>> \notin edges
      <4>1. inDegree'[k] = inDegree[k]
        BY <3>4 DEF Step
      <4> QED BY <1>1, <3>1, <3>2, <4>1
    <3> QED BY <3>3, <3>4
  <2> QED BY <1>3, <2>1 DEF QueueExact, SortType
<1>5. OrderRespectsEdges'
  <2>1. ASSUME NEW j \in 1 .. Len(sorted'), NEW m \in Nodes,
               <<m, sorted'[j]>> \in edges'
        PROVE  \E i \in 1 .. (j - 1) : sorted'[i] = m
    <3>1. CASE j = Len(sorted) + 1
      <4>1. m \in SortedSet
        BY <1>0, <1>1, <2>1, <3>1
      <4>2. PICK i \in 1 .. Len(sorted) : m = sorted[i]
        BY <4>1 DEF SortedSet
      <4> QED BY <1>1, <3>1, <4>2
    <3>2. CASE j \in 1 .. Len(sorted)
      <4>1. <<m, sorted[j]>> \in edges
        BY <1>0, <1>1, <2>1, <3>2
      <4>2. PICK i \in 1 .. (j - 1) : sorted[i] = m
        BY <3>2, <4>1 DEF SortInv, OrderRespectsEdges
      <4> QED BY <1>1, <3>2, <4>2
    <3> QED BY <1>1, <2>1, <3>1, <3>2
  <2>2. ASSUME NEW i \in 1 .. Len(sorted'), NEW j \in 1 .. Len(sorted'),
               sorted'[i] = sorted'[j]
        PROVE  i = j
    <3>1. \A k \in 1 .. Len(sorted) : sorted[k] # n
      BY <1>0 DEF SortedSet
    <3>2. \A k \in 1 .. Len(sorted'): k = Len(sorted) + 1 \/ k \in 1 .. Len(sorted)
      BY <1>1
    <3> QED BY <1>1, <2>2, <3>1, <3>2 DEF SortInv, OrderRespectsEdges
  <2> QED BY <2>1, <2>2 DEF OrderRespectsEdges
<1>6. EdgesRaiseLevel'
  <2> SUFFICES ASSUME NEW m \in Nodes, NEW k \in Nodes, m \in SortedSet',
                      <<m, k>> \in edges
               PROVE  levelMap'[k] > levelMap'[m]
    BY <1>0 DEF EdgesRaiseLevel
  <2>1. levelMap'[m] = levelMap[m]
    <3>1. <<n, m>> \notin edges
      BY <1>0, <1>1, SortedIsClosed
    <3> QED BY <3>1 DEF Step
  <2>2. levelMap[m] \in Int /\ levelMap[k] \in Int /\ levelMap[n] \in Int
    BY <1>0 DEF SortType
  <2>3. CASE m = n
    BY <2>1, <2>2, <2>3 DEF Step, ChildLevel
  <2>4. CASE m \in SortedSet
    <3>1. levelMap[k] > levelMap[m]
      BY <2>4 DEF SortInv, EdgesRaiseLevel
    <3>2. levelMap'[k] \in Int /\ levelMap'[k] >= levelMap[k]
      BY <2>2 DEF Step, ChildLevel
    <3> QED BY <2>1, <2>2, <3>1, <3>2
  <2> QED BY <1>1, <2>3, <2>4
<1>7. KnotsStay'
  BY <1>0, <1>1 DEF SortInv, KnotsStay, Knot
<1> QED BY <1>2, <1>3, <1>4, <1>5, <1>6, <1>7 DEF SortInv

\* The invariant holds in every state of the loop, on every graph.
LEMMA SortInvariant == SortSpec => []SortInv
<1>1. SortInv /\ [SortNext]_sortVars => SortInv'
  <2> SUFFICES ASSUME SortInv, [SortNext]_sortVars PROVE SortInv'
    OBVIOUS
  <2>1. CASE SortNext BY <2>1, StepSortInv DEF SortNext
  <2>2. CASE UNCHANGED sortVars
    <3>1. SortedSet' = SortedSet
      BY <2>2 DEF sortVars, SortedSet
    <3>2. SortType' /\ CountsUnsorted' /\ QueueExact'
      BY <2>2, <3>1 DEF sortVars, SortInv, SortType, CountsUnsorted, QueueExact
    <3>3. OrderRespectsEdges'
      BY <2>2 DEF sortVars, SortInv, OrderRespectsEdges
    <3>4. EdgesRaiseLevel' /\ KnotsStay'
      BY <2>2, <3>1 DEF sortVars, SortInv, EdgesRaiseLevel, KnotsStay, Knot
    <3> QED BY <3>2, <3>3, <3>4 DEF SortInv
  <2> QED BY <2>1, <2>2
<1> QED BY <1>1, InitSortInv, PTL DEF SortSpec

\* TopologicalSort lists every node after all its predecessors and once.
THEOREM SortIsTopological == SortSpec => []OrderRespectsEdges
<1>1. SortInv => OrderRespectsEdges BY DEF SortInv
<1> QED BY <1>1, SortInvariant, PTL

\* Levels gives the head of every edge a higher level than its tail, so nodes of
\* one level never depend on each other.
THEOREM LevelsRise == SortSpec => []EdgesRaiseLevel
<1>1. SortInv => EdgesRaiseLevel BY DEF SortInv
<1> QED BY <1>1, SortInvariant, PTL

\* As many nodes are listed as have been sorted.
LEMMA LengthIsCount == SortInv => Len(sorted) = Cardinality(SortedSet)
<1> SUFFICES ASSUME SortInv PROVE Len(sorted) = Cardinality(SortedSet)
  OBVIOUS
<1>1. sorted \in Bijection(1 .. Len(sorted), SortedSet)
  <2>1. sorted \in [1 .. Len(sorted) -> Nodes] /\ Len(sorted) \in Nat
    BY DEF SortInv, SortType
  <2>2. sorted \in [1 .. Len(sorted) -> SortedSet]
    BY <2>1 DEF SortedSet
  <2>3. \A i, j \in 1 .. Len(sorted) : sorted[i] = sorted[j] => i = j
    BY DEF SortInv, OrderRespectsEdges
  <2>4. \A x \in SortedSet : \E i \in 1 .. Len(sorted) : sorted[i] = x
    BY DEF SortedSet
  <2> QED
    BY <2>2, <2>3, <2>4 DEF Bijection, Injection, Surjection, IsInjective
<1>2. Len(sorted) \in Nat
  BY DEF SortInv, SortType
<1> QED BY <1>1, <1>2, FS_CountingElements DEF ExistsBijection

\* TopologicalSort reports a cycle exactly when some nonempty set of nodes has
\* in it a predecessor of each of its members, on every finite graph.
THEOREM CycleDetection == SortSpec => []CycleDetectionExact
<1>1. SortInv => CycleDetectionExact
  <2> SUFFICES ASSUME SortInv, Done
               PROVE  Incomplete <=> \E S \in SUBSET Nodes : Knot(S)
    BY DEF CycleDetectionExact
  <2> DEFINE Rest == Nodes \ SortedSet
  <2>0. SortedSet \subseteq Nodes
    BY DEF SortInv, SortType, SortedSet
  <2>1. Incomplete <=> Rest # {}
    <3>1. Len(sorted) = Cardinality(SortedSet)
      BY LengthIsCount
    <3>2. Rest = {} => Cardinality(SortedSet) = Cardinality(Nodes)
      BY <2>0
    <3>3. Rest # {} => Cardinality(SortedSet) # Cardinality(Nodes)
      BY <2>0, NodesAssumption, FS_Subset
    <3> QED BY <3>1, <3>2, <3>3 DEF Incomplete
  <2>2. Rest # {} => Knot(Rest)
    <3> SUFFICES ASSUME NEW n \in Rest PROVE \E m \in Rest : <<m, n>> \in edges
      BY DEF Knot
    <3>1. inDegree[n] # 0
      BY DEF SortInv, QueueExact, Done
    <3>2. inDegree[n] = Cardinality(Waiting(n)) /\ Waiting(n) \subseteq Nodes
      BY DEF SortInv, CountsUnsorted, Waiting
    <3>3. Waiting(n) # {}
      BY <3>1, <3>2, NodeSets
    <3> QED BY <3>3 DEF Waiting
  <2>3. ASSUME NEW S \in SUBSET Nodes, Knot(S) PROVE Rest # {}
    BY <2>3 DEF SortInv, KnotsStay, Knot
  <2> QED BY <2>1, <2>2, <2>3
<1> QED BY <1>1, SortInvariant, PTL
-----------------------------------------------------------------------------
(* Induction over the natural numbers, as a search for the least exception. *)

Less == OpToRel(<, Nat)

\* A set of natural numbers that is not empty has a least element.
LEMMA LeastNat ==
  ASSUME NEW T, T \subseteq Nat, T # {}
  PROVE  \E n \in T : \A m \in T : n <= m
<1>1. IsWellFoundedOn(Less, Nat)
  BY NatLessThanWellFounded, Zenon DEF Less
<1>2. Less = {ss \in Nat \X Nat : ss[1] < ss[2]}
  BY Zenon DEF Less, OpToRel
<1>3. PICK n \in T : \A m \in T : ~(<<m, n>> \in Less)
  BY <1>1, WFMin
<1>4. \A m \in T : ~(m < n)
  BY <1>2, <1>3
<1> QED BY <1>4

\* So a set that has 0 and with each number the next has them all.
LEMMA NatIn ==
  ASSUME NEW T, 0 \in T, \A n \in Nat : n \in T => n + 1 \in T
  PROVE  Nat \subseteq T
<1> DEFINE U == Nat \ T
<1> SUFFICES ASSUME U # {} PROVE FALSE
  OBVIOUS
<1>1. PICK n \in U : \A m \in U : n <= m
  BY LeastNat
<1>2. n \in Nat /\ n # 0 /\ n - 1 \in T
  BY <1>1
<1> QED BY <1>1, <1>2

\* PathLength satisfies its definition.
LEMMA PathLengthIs ==
  PathLength = [k \in 0 .. Cardinality(Nodes) |->
                  IF k = 0 THEN [n \in Nodes |-> 0] ELSE Longer(PathLength[k - 1])]
<1> DEFINE N == Cardinality(Nodes)
           Fits(g, k) == g = [i \in 0 .. k |-> IF i = 0 THEN [n \in Nodes |-> 0] ELSE Longer(g[i - 1])]
           T == {k \in Nat : \E g : Fits(g, k)}
<1>0. N \in Nat
  BY NodeSets
<1>1. 0 \in T
  <2> DEFINE g == [i \in 0 .. 0 |-> [n \in Nodes |-> 0]]
  <2>1. Fits(g, 0)
    OBVIOUS
  <2> HIDE DEF Fits, g
  <2> QED BY <2>1
<1>2. ASSUME NEW k \in Nat, NEW g, Fits(g, k) PROVE \E h : Fits(h, k + 1)
  <2> DEFINE h == [i \in 0 .. k + 1 |-> IF i <= k THEN g[i] ELSE Longer(g[k])]
  <2>1. \A i \in 0 .. k : h[i] = g[i] /\ g[i] = IF i = 0 THEN [n \in Nodes |-> 0] ELSE Longer(g[i - 1])
    BY <1>2
  <2>2. h[k + 1] = Longer(h[k])
    BY <2>1
  <2>3. \A i \in 0 .. k + 1 : h[i] = IF i = 0 THEN [n \in Nodes |-> 0] ELSE Longer(h[i - 1])
    <3> TAKE i \in 0 .. k + 1
    <3> HIDE DEF h
    <3>1. CASE i = k + 1
      BY <2>2, <3>1
    <3>2. CASE i \in 0 .. k
      BY <2>1, <3>2
    <3> QED BY <3>1, <3>2
  <2>4. Fits(h, k + 1)
    BY <2>3
  <2> QED BY <2>4
<1>3. \E g : Fits(g, N)
  <2> HIDE DEF Fits
  <2>1. \A k \in Nat : k \in T => k + 1 \in T
    BY <1>2
  <2> HIDE DEF T
  <2>2. N \in T
    BY <1>0, <1>1, <2>1, NatIn
  <2> QED BY <2>2 DEF T
<1> QED BY <1>3 DEF PathLength

Preds(n) == {m \in Nodes : <<m, n>> \in edges}

\* Where the level of a node comes from: it has no predecessor, none of them is
\* sorted yet, or it is one above a sorted one; and a level is below the place.
LevelExact ==
  /\ \A n \in Nodes :
       \/ Preds(n) = {} /\ levelMap[n] = 0
       \/ Preds(n) # {} /\ levelMap[n] = NoLevel /\ Preds(n) \cap SortedSet = {}
       \/ \E m \in Preds(n) \cap SortedSet : levelMap[n] = levelMap[m] + 1
  /\ \A i \in 1 .. Len(sorted) : levelMap[sorted[i]] \in 0 .. (i - 1)

\* The loop starts with the levels of the nodes without predecessors.
LEMMA InitLevelExact == SortInit => LevelExact
<1> SUFFICES ASSUME SortInit, NEW n \in Nodes
             PROVE  \/ Preds(n) = {} /\ levelMap[n] = 0
                    \/ Preds(n) # {} /\ levelMap[n] = NoLevel /\ Preds(n) \cap SortedSet = {}
  BY DEF SortInit, LevelExact
<1>1. inDegree[n] = Cardinality(Preds(n)) /\ Preds(n) \subseteq Nodes
  BY DEF SortInit, InDegree, Preds
<1>2. inDegree[n] = 0 <=> Preds(n) = {}
  BY <1>1, NodeSets
<1>3. SortedSet = {}
  BY DEF SortInit, SortedSet
<1> QED BY <1>2, <1>3 DEF SortInit

\* The loop body keeps the levels exact.
LEMMA StepLevelExact ==
  ASSUME SortInv, LevelExact, NEW n \in queue, Step(n)
  PROVE  LevelExact'
<1>0. /\ n \in Nodes /\ n \notin SortedSet /\ edges' = edges /\ SortType
      /\ \A m \in Nodes : <<m, n>> \in edges => m \in SortedSet
  BY QueuedIsReady DEF Step, SortInv
<1>1. /\ SortedSet' = SortedSet \cup {n} /\ Len(sorted) \in Nat
      /\ Len(sorted') = Len(sorted) + 1 /\ sorted'[Len(sorted) + 1] = n
      /\ \A i \in 1 .. Len(sorted) : sorted'[i] = sorted[i]
  BY <1>0, StepSorts
<1>2. /\ \A k \in Nodes : Preds(k)' = Preds(k) /\ levelMap[k] \in Int
      /\ SortedSet \subseteq Nodes
  BY <1>0 DEF Preds, SortType, SortedSet
<1>3. levelMap[n] \in 0 .. Len(sorted)
  <2>1. ASSUME NEW m \in Preds(n) \cap SortedSet, levelMap[n] = levelMap[m] + 1
        PROVE  levelMap[n] \in 0 .. Len(sorted)
    <3>1. PICK i \in 1 .. Len(sorted) : m = sorted[i]
      BY DEF SortedSet
    <3>2. levelMap[m] \in 0 .. (i - 1)
      BY <3>1 DEF LevelExact
    <3> QED BY <1>1, <2>1, <3>1, <3>2
  <2>2. Preds(n) # {} => Preds(n) \cap SortedSet # {}
    BY <1>0 DEF Preds
  <2> QED BY <1>0, <1>1, <2>1, <2>2 DEF LevelExact
<1>4. \A m \in SortedSet \cup {n} : levelMap'[m] = levelMap[m]
  <2>1. ASSUME NEW m \in SortedSet \cup {n} PROVE <<n, m>> \notin edges
    BY <1>0, SortedIsClosed
  <2> QED BY <1>0, <1>2, <2>1 DEF Step
<1>5. ASSUME NEW k \in Nodes
      PROVE  \/ Preds(k) = {} /\ levelMap'[k] = 0
             \/ Preds(k) # {} /\ levelMap'[k] = NoLevel /\ Preds(k) \cap SortedSet' = {}
             \/ \E m \in Preds(k) \cap SortedSet' : levelMap'[k] = levelMap'[m] + 1
  <2>1. CASE <<n, k>> \notin edges
    <3>1. levelMap'[k] = levelMap[k] /\ Preds(k) \cap SortedSet' = Preds(k) \cap SortedSet
      BY <1>1, <2>1 DEF Step, Preds
    <3> QED BY <1>4, <3>1 DEF LevelExact
  <2>2. CASE <<n, k>> \in edges /\ levelMap[n] + 1 > levelMap[k]
    <3>1. levelMap'[k] = levelMap[n] + 1 /\ n \in Preds(k) \cap SortedSet'
      BY <1>0, <1>1, <2>2 DEF Step, ChildLevel, Preds
    <3> QED BY <1>4, <3>1
  <2>3. CASE <<n, k>> \in edges /\ ~(levelMap[n] + 1 > levelMap[k])
    <3>1. levelMap'[k] = levelMap[k]
      BY <2>3 DEF Step, ChildLevel
    <3>2. levelMap[k] > 0
      BY <1>1, <1>2, <1>3, <2>3
    <3>3. PICK m \in Preds(k) \cap SortedSet : levelMap[k] = levelMap[m] + 1
      BY <3>2 DEF LevelExact, NoLevel
    <3> QED BY <1>1, <1>4, <3>1, <3>3
  <2> QED BY <2>1, <2>2, <2>3
<1>6. ASSUME NEW i \in 1 .. Len(sorted') PROVE levelMap'[sorted'[i]] \in 0 .. (i - 1)
  <2>1. CASE i = Len(sorted) + 1
    BY <1>1, <1>3, <1>4, <2>1
  <2>2. CASE i \in 1 .. Len(sorted)
    <3>1. sorted'[i] = sorted[i] /\ sorted[i] \in SortedSet
      BY <1>1, <2>2 DEF SortedSet
    <3> QED BY <1>4, <2>2, <3>1 DEF LevelExact
  <2> QED BY <1>1, <2>1, <2>2
<1> QED BY <1>2, <1>5, <1>6 DEF LevelExact

\* Exact levels of a sorted graph are the lengths of its longest paths: cut off at
\* k, they are what k rounds of Longer give.
LEMMA LevelsAreLongest ==
  ASSUME SortInv, LevelExact, Done, ~Incomplete
  PROVE  levelMap = LongestPath
<1> DEFINE N == Cardinality(Nodes)
           Cut(k, n) == IF levelMap[n] < k THEN levelMap[n] ELSE k
           T == {k \in 0 .. N : \E n \in Nodes : PathLength[k][n] # Cut(k, n)}
<1>0. N \in Nat /\ Len(sorted) = N /\ SortType
  BY NodeSets DEF Incomplete, SortInv
<1>1. SortedSet = Nodes
  <2>1. SortedSet \subseteq Nodes /\ Cardinality(SortedSet) = N
    BY <1>0, LengthIsCount DEF SortInv, SortType, SortedSet
  <2> QED BY <2>1, NodesAssumption, FS_Subset
<1>2. ASSUME NEW n \in Nodes
      PROVE  /\ levelMap[n] \in 0 .. N
             /\ \A m \in Preds(n) : levelMap[m] \in 0 .. N /\ levelMap[n] >= levelMap[m] + 1
             /\ IF Preds(n) = {} THEN levelMap[n] = 0
                ELSE \E m \in Preds(n) : levelMap[n] = levelMap[m] + 1
  <2>1. \A m \in Nodes : levelMap[m] \in 0 .. N
    <3> TAKE m \in Nodes
    <3>1. PICK i \in 1 .. Len(sorted) : m = sorted[i]
      BY <1>1 DEF SortedSet
    <3> QED BY <1>0, <3>1 DEF LevelExact
  <2>2. \A m \in Preds(n) : levelMap[n] > levelMap[m] /\ m \in Nodes
    BY <1>1 DEF SortInv, EdgesRaiseLevel, Preds
  <2>3. Preds(n) \cap SortedSet = Preds(n)
    BY <1>1 DEF Preds
  <2> QED BY <1>0, <2>1, <2>2, <2>3 DEF LevelExact
<1>3. ASSUME NEW k \in 1 .. N, \A n \in Nodes : PathLength[k - 1][n] = Cut(k - 1, n),
             NEW n \in Nodes
      PROVE  PathLength[k][n] = Cut(k, n)
  <2> DEFINE P == {PathLength[k - 1][m] + 1 : m \in Preds(n)}
  <2>1. PathLength[k][n] = IF P = {} THEN 0 ELSE CHOOSE x \in P : \A y \in P : x >= y
    <3>1. PathLength[k] = Longer(PathLength[k - 1])
      BY <1>0, PathLengthIs
    <3>2. \A d : Longer(d)[n] = LET Q == {d[m] + 1 : m \in Preds(n)}
                                 IN  IF Q = {} THEN 0 ELSE CHOOSE x \in Q : \A y \in Q : x >= y
      BY Zenon DEF Longer, Preds
    <3> QED BY <3>1, <3>2, Zenon
  <2>2. CASE Preds(n) = {}
    BY <1>0, <1>2, <2>1, <2>2
  <2>3. CASE Preds(n) # {}
    <3>1. \A m \in Preds(n) : m \in Nodes
      BY DEF Preds
    <3>2. Cut(k, n) \in P
      <4>1. PICK m \in Preds(n) : levelMap[n] = levelMap[m] + 1
        BY <1>2, <2>3
      <4>2. PathLength[k - 1][m] + 1 = Cut(k, n)
        BY <1>0, <1>2, <1>3, <3>1, <4>1
      <4> QED BY <4>1, <4>2
    <3>3. \A y \in P : y \in Nat /\ Cut(k, n) >= y
      <4> SUFFICES ASSUME NEW m \in Preds(n)
                   PROVE  PathLength[k - 1][m] + 1 \in Nat /\ Cut(k, n) >= PathLength[k - 1][m] + 1
        OBVIOUS
      <4> QED BY <1>0, <1>2, <1>3, <3>1
    <3> HIDE DEF P
    <3>4. \A x \in P : (\A y \in P : x >= y) => x = Cut(k, n)
      BY <3>2, <3>3
    <3> QED BY <2>1, <3>2, <3>3, <3>4
  <2> QED BY <2>2, <2>3
<1>4. T = {}
  <2> SUFFICES ASSUME T # {} PROVE FALSE
    OBVIOUS
  <2>0. T \subseteq Nat
    BY <1>0
  <2>1. PICK k \in T : \A m \in T : k <= m
    <3> HIDE DEF T
    <3> QED BY <2>0, LeastNat
  <2>2. k # 0
    BY <1>0, <1>2, PathLengthIs
  <2>3. \A n \in Nodes : PathLength[k - 1][n] = Cut(k - 1, n)
    BY <1>0, <2>1, <2>2
  <2> QED BY <1>0, <1>3, <2>2, <2>3
<1>5. \A n \in Nodes : LongestPath[n] = levelMap[n]
  BY <1>0, <1>2, <1>4 DEF LongestPath
<1>6. LongestPath = [n \in Nodes |-> LongestPath[n]]
  <2>1. LongestPath = IF N = 0 THEN [n \in Nodes |-> 0] ELSE Longer(PathLength[N - 1])
    BY <1>0, PathLengthIs DEF LongestPath
  <2>2. ASSUME NEW d PROVE Longer(d) = [n \in Nodes |-> Longer(d)[n]]
    <3> DEFINE F(n) == LET P == {d[m] + 1 : m \in {x \in Nodes : <<x, n>> \in edges}}
                       IN  IF P = {} THEN 0 ELSE CHOOSE x \in P : \A y \in P : x >= y
    <3>1. Longer(d) = [n \in Nodes |-> F(n)]
      BY Zenon DEF Longer
    <3> HIDE DEF F
    <3> QED BY <3>1
  <2> HIDE DEF N
  <2> QED BY <2>1, <2>2
<1> QED BY <1>0, <1>5, <1>6 DEF SortType

(***************************************************************************)
(* On every finite acyclic graph Levels gives each node the length of a    *)
(* longest path to it: the lowest level that its dependencies allow.       *)
(***************************************************************************)
THEOREM LevelsAreExact == SortSpec => []LevelIsLongestPath
<1>1. SortInv /\ LevelExact => LevelIsLongestPath
  BY LevelsAreLongest DEF LevelIsLongestPath
<1>2. SortInv /\ LevelExact /\ [SortNext]_sortVars => LevelExact'
  <2> SUFFICES ASSUME SortInv, LevelExact, [SortNext]_sortVars PROVE LevelExact'
    OBVIOUS
  <2>1. CASE SortNext
    BY <2>1, StepLevelExact DEF SortNext
  <2>2. CASE UNCHANGED sortVars
    <3>1. SortedSet' = SortedSet /\ \A n \in Nodes : Preds(n)' = Preds(n)
      BY <2>2 DEF sortVars, Preds, SortedSet
    <3> QED BY <2>2, <3>1 DEF sortVars, LevelExact
  <2> QED BY <2>1, <2>2
<1> QED BY <1>1, <1>2, InitLevelExact, SortInvariant, PTL DEF SortSpec
-----------------------------------------------------------------------------
(* The graph under edits, and its validator. *)

\* The number of ids is natural, and a set of ids has fewer unless it is all.
LEMMA IdSets ==
  /\ Cardinality(Ids) \in Nat
  /\ \A S \in SUBSET Ids : /\ IsFiniteSet(S) /\ Cardinality(S) \in 0 .. Cardinality(Ids)
                           /\ Cardinality(S) = Cardinality(Ids) => S = Ids
BY GraphAssumption, FS_Subset, FS_CardinalityType

\* Sorted satisfies its definition.
LEMMA SortedIs ==
  ASSUME NEW V, NEW e
  PROVE  Sorted(V, e) = [k \in 0 .. Cardinality(Ids) |->
                           IF k = 0 THEN {} ELSE Round(V, e, Sorted(V, e)[k - 1])]
<1> DEFINE N == Cardinality(Ids)
           Fits(g, k) == g = [i \in 0 .. k |-> IF i = 0 THEN {} ELSE Round(V, e, g[i - 1])]
           T == {k \in Nat : \E g : Fits(g, k)}
<1>0. N \in Nat
  BY IdSets
<1>1. 0 \in T
  <2> DEFINE g == [i \in 0 .. 0 |-> {}]
  <2>1. Fits(g, 0)
    OBVIOUS
  <2> HIDE DEF Fits, g
  <2> QED BY <2>1
<1>2. ASSUME NEW k \in Nat, NEW g, Fits(g, k) PROVE \E h : Fits(h, k + 1)
  <2> DEFINE h == [i \in 0 .. k + 1 |-> IF i <= k THEN g[i] ELSE Round(V, e, g[k])]
  <2>0. \A i \in 0 .. k : g[i] = IF i = 0 THEN {} ELSE Round(V, e, g[i - 1])
    BY <1>2
  <2>1. \A i \in 0 .. k : h[i] = g[i] /\ g[i] = IF i = 0 THEN {} ELSE Round(V, e, g[i - 1])
    <3> HIDE DEF Fits
    <3>1. \A i \in 0 .. k : h[i] = g[i]
      OBVIOUS
    <3> QED BY <2>0, <3>1
  <2>2. h[k + 1] = Round(V, e, h[k])
    BY <2>1
  <2>3. \A i \in 0 .. k + 1 : h[i] = IF i = 0 THEN {} ELSE Round(V, e, h[i - 1])
    <3> TAKE i \in 0 .. k + 1
    <3> HIDE DEF h
    <3>1. CASE i = k + 1
      BY <2>2, <3>1
    <3>2. CASE i \in 0 .. k
      BY <2>1, <3>2
    <3> QED BY <3>1, <3>2
  <2>4. Fits(h, k + 1)
    BY <2>3
  <2> QED BY <2>4
<1>3. \E g : Fits(g, N)
  <2> HIDE DEF Fits
  <2>1. \A k \in Nat : k \in T => k + 1 \in T
    BY <1>2
  <2> HIDE DEF T
  <2>2. N \in T
    BY <1>0, <1>1, <2>1, NatIn
  <2> QED BY <2>2 DEF T
<1> QED BY <1>3 DEF Sorted

\* Each round keeps what the one before has sorted.
LEMMA RoundsGrow ==
  ASSUME NEW V \in SUBSET Ids, NEW e
  PROVE  \A k \in 1 .. Cardinality(Ids) :
           Sorted(V, e)[k - 1] \subseteq Sorted(V, e)[k] /\ Sorted(V, e)[k] \subseteq V
<1> DEFINE N == Cardinality(Ids)
           S == Sorted(V, e)
           T == {k \in 1 .. N : ~(S[k - 1] \subseteq S[k])}
<1>0. N \in Nat
  BY IdSets
<1>1. S[0] = {} /\ \A k \in 1 .. N : S[k] = Round(V, e, S[k - 1])
  BY <1>0, SortedIs
<1> HIDE DEF S, N
<1>2. T = {}
  <2> SUFFICES ASSUME T # {} PROVE FALSE
    OBVIOUS
  <2>0. T \subseteq Nat
    BY <1>0
  <2>1. PICK k \in T : \A m \in T : k <= m
    <3> HIDE DEF T
    <3> QED BY <2>0, LeastNat
  <2>2. k # 1
    BY <1>0, <1>1, <2>1
  <2>3. S[k - 1 - 1] \subseteq S[k - 1] /\ k - 1 \in 1 .. N
    BY <1>0, <2>1, <2>2
  <2>4. Round(V, e, S[k - 1 - 1]) \subseteq Round(V, e, S[k - 1])
    BY <2>3 DEF Round
  <2> QED BY <1>0, <1>1, <2>1, <2>3, <2>4
<1> QED BY <1>0, <1>1, <1>2 DEF S, N, Round

\* As many rounds as there are ids are enough: each sorts a node, or there is
\* nothing left to sort.
LEMMA RoundsEnd ==
  ASSUME NEW V \in SUBSET Ids, NEW e
  PROVE  Round(V, e, Sorted(V, e)[Cardinality(Ids)]) = Sorted(V, e)[Cardinality(Ids)]
<1> DEFINE N == Cardinality(Ids)
           S == Sorted(V, e)
           T == {k \in 0 .. N : ~(Cardinality(S[k]) >= k \/ Round(V, e, S[k]) = S[k])}
<1>0. N \in Nat
  BY IdSets
<1>1. S[0] = {} /\ \A k \in 1 .. N : S[k] = Round(V, e, S[k - 1])
  BY <1>0, SortedIs
<1>2. \A k \in 1 .. N : S[k - 1] \subseteq S[k] /\ S[k] \subseteq V
  BY RoundsGrow
<1> HIDE DEF S
<1>3. \A k \in 0 .. N : S[k] \in SUBSET Ids /\ IsFiniteSet(S[k]) /\ Cardinality(S[k]) \in 0 .. N
  <2> TAKE k \in 0 .. N
  <2>1. S[k] \in SUBSET Ids
    BY <1>0, <1>1, <1>2
  <2> QED BY <2>1, IdSets
<1> HIDE DEF N
<1>4. T = {}
  <2> SUFFICES ASSUME T # {} PROVE FALSE
    OBVIOUS
  <2>0. T \subseteq Nat
    BY <1>0
  <2>1. PICK k \in T : \A m \in T : k <= m
    <3> HIDE DEF T
    <3> QED BY <2>0, LeastNat
  <2>2. k # 0 /\ k \in 0 .. N
    BY <1>0, <1>3, <2>1
  <2>3. k - 1 \in 0 .. N /\ k \in 1 .. N /\ (Cardinality(S[k - 1]) >= k - 1 \/ Round(V, e, S[k - 1]) = S[k - 1])
    BY <1>0, <2>1, <2>2
  <2>4. CASE S[k - 1] = S[k]
    BY <1>1, <2>1, <2>3, <2>4
  <2>5. CASE S[k - 1] # S[k]
    <3>1. Cardinality(S[k - 1]) < Cardinality(S[k])
      BY <1>2, <1>3, <2>2, <2>3, <2>5, FS_Subset
    <3> QED BY <1>0, <1>1, <1>3, <2>1, <2>2, <2>3, <2>5, <3>1
  <2> QED BY <2>4, <2>5
<1>5. CASE Round(V, e, S[N]) = S[N]
  BY <1>5 DEF S, N
<1>6. CASE Cardinality(S[N]) >= N
  <2>1. S[N] = Ids
    BY <1>0, <1>3, <1>6, IdSets DEF N
  <2>2. V = Ids
    BY <1>0, <1>1, <1>2, <2>1
  <2>3. Round(V, e, Ids) = V
    BY DEF Round
  <2> QED BY <2>1, <2>2, <2>3 DEF S, N
<1> QED BY <1>0, <1>4, <1>5, <1>6


\* A set of nodes none of which can be the first to be sorted.
HasKnot(V, e) == \E K \in SUBSET V : K # {} /\ \A n \in K : \E m \in K : <<m, n>> \in e

\* TopologicalSort has an error exactly on the graphs with a knot.
LEMMA CycleIsKnot ==
  ASSUME NEW V \in SUBSET Ids, NEW e, e \subseteq V \X V
  PROVE  HasCycle(V, e) <=> HasKnot(V, e)
<1> DEFINE N == Cardinality(Ids)
           S == Sorted(V, e)
<1>0. N \in Nat
  BY IdSets
<1>1. S[0] = {} /\ \A k \in 1 .. N : S[k] = Round(V, e, S[k - 1])
  BY <1>0, SortedIs
<1>2. \A k \in 1 .. N : S[k - 1] \subseteq S[k] /\ S[k] \subseteq V
  BY RoundsGrow
<1>3. Round(V, e, S[N]) = S[N]
  BY RoundsEnd
<1> HIDE DEF S, N
<1>4. S[N] \subseteq V
  BY <1>3 DEF Round
<1>5. ASSUME S[N] # V PROVE HasKnot(V, e)
  <2> DEFINE K == V \ S[N]
  <2>1. K \in SUBSET V /\ K # {}
    BY <1>4, <1>5
  <2>2. \A n \in K : \E m \in K : <<m, n>> \in e
    <3> TAKE n \in K
    <3>1. PICK m \in Ids : <<m, n>> \in e /\ m \notin S[N]
      BY <1>3 DEF Round
    <3>2. m \in V
      BY <3>1
    <3> QED BY <3>1, <3>2
  <2> HIDE DEF K
  <2> QED BY <2>1, <2>2 DEF HasKnot
<1>6. ASSUME HasKnot(V, e) PROVE S[N] # V
  <2>1. PICK K \in SUBSET V : K # {} /\ \A n \in K : \E m \in K : <<m, n>> \in e
    BY <1>6 DEF HasKnot
  <2> DEFINE T == {k \in 0 .. N : K \cap S[k] # {}}
  <2>2. T = {}
    <3> SUFFICES ASSUME T # {} PROVE FALSE
      OBVIOUS
    <3>0. T \subseteq Nat
      BY <1>0
    <3>1. PICK k \in T : \A m \in T : k <= m
      <4> HIDE DEF T
      <4> QED BY <3>0, LeastNat
    <3>2. k \in 1 .. N
      BY <1>0, <1>1, <3>1
    <3>3. PICK n \in K : n \in S[k]
      BY <3>1
    <3>4. PICK m \in K : <<m, n>> \in e
      BY <2>1
    <3>5. m \in S[k - 1]
      BY <1>1, <3>2, <3>3, <3>4 DEF Round
    <3>6. k - 1 \in T
      BY <1>0, <3>2, <3>5
    <3> QED BY <1>0, <3>1, <3>2, <3>6
  <2> QED BY <1>0, <2>1, <2>2
<1> QED BY <1>5, <1>6 DEF HasCycle, S, N

\* Reach satisfies its definition.
LEMMA ReachIs ==
  Reach = [k \in 0 .. Cardinality(Ids) |->
             IF k = 0 THEN graphEdges ELSE Extended(Reach[k - 1])]
<1> DEFINE N == Cardinality(Ids)
           Fits(g, k) == g = [i \in 0 .. k |-> IF i = 0 THEN graphEdges ELSE Extended(g[i - 1])]
           T == {k \in Nat : \E g : Fits(g, k)}
<1>0. N \in Nat
  BY IdSets
<1>1. 0 \in T
  <2> DEFINE g == [i \in 0 .. 0 |-> graphEdges]
  <2>1. Fits(g, 0)
    OBVIOUS
  <2> HIDE DEF Fits, g
  <2> QED BY <2>1
<1>2. ASSUME NEW k \in Nat, NEW g, Fits(g, k) PROVE \E h : Fits(h, k + 1)
  <2> DEFINE h == [i \in 0 .. k + 1 |-> IF i <= k THEN g[i] ELSE Extended(g[k])]
  <2>0. \A i \in 0 .. k : g[i] = IF i = 0 THEN graphEdges ELSE Extended(g[i - 1])
    BY <1>2
  <2>1. \A i \in 0 .. k : h[i] = g[i] /\ g[i] = IF i = 0 THEN graphEdges ELSE Extended(g[i - 1])
    <3> HIDE DEF Fits
    <3>1. \A i \in 0 .. k : h[i] = g[i]
      OBVIOUS
    <3> QED BY <2>0, <3>1
  <2>2. h[k + 1] = Extended(h[k])
    BY <2>1
  <2>3. \A i \in 0 .. k + 1 : h[i] = IF i = 0 THEN graphEdges ELSE Extended(h[i - 1])
    <3> TAKE i \in 0 .. k + 1
    <3> HIDE DEF h
    <3>1. CASE i = k + 1
      BY <2>2, <3>1
    <3>2. CASE i \in 0 .. k
      BY <2>1, <3>2
    <3> QED BY <3>1, <3>2
  <2>4. Fits(h, k + 1)
    BY <2>3
  <2> QED BY <2>4
<1>3. \E g : Fits(g, N)
  <2> HIDE DEF Fits
  <2>1. \A k \in Nat : k \in T => k + 1 \in T
    BY <1>2
  <2> HIDE DEF T
  <2>2. N \in T
    BY <1>0, <1>1, <2>1, NatIn
  <2> QED BY <2>2 DEF T
<1> QED BY <1>3 DEF Reach

\* A path leads from an earlier level to a later one.
LEMMA PathsClimb ==
  ASSUME graphEdges \subseteq GraphNodes \X GraphNodes
  PROVE  \A k \in 0 .. Cardinality(Ids) : \A x, y \in Ids : <<x, y>> \in Reach[k] =>
           /\ y \in GraphNodes
           /\ \A j \in 0 .. Cardinality(Ids) : y \in Levels[j] => j # 0 /\ x \in Levels[j - 1]
<1> DEFINE N == Cardinality(Ids)
           P(k) == \A x, y \in Ids : <<x, y>> \in Reach[k] =>
                     y \in GraphNodes /\ \A j \in 0 .. N : y \in Levels[j] => j # 0 /\ x \in Levels[j - 1]
           T == {k \in 0 .. N : ~P(k)}
<1>0. N \in Nat /\ GraphNodes \in SUBSET Ids
  BY IdSets DEF GraphNodes
<1>1. Levels[0] = {} /\ \A k \in 1 .. N : Levels[k] = Round(GraphNodes, graphEdges, Levels[k - 1])
  BY <1>0, SortedIs DEF Levels
<1>2. \A k \in 1 .. N : Levels[k - 1] \subseteq Levels[k]
  BY <1>0, RoundsGrow DEF Levels
<1>3. /\ Reach[0] = graphEdges
      /\ \A k \in 1 .. N : Reach[k] = Extended(Reach[k - 1])
  BY <1>0, ReachIs
<1> HIDE DEF N
<1>4. \A x, y \in Ids : <<x, y>> \in graphEdges =>
        y \in GraphNodes /\ \A j \in 0 .. N : y \in Levels[j] => j # 0 /\ x \in Levels[j - 1]
  BY <1>0, <1>1 DEF Round
<1>5. T = {}
  <2> SUFFICES ASSUME T # {} PROVE FALSE
    OBVIOUS
  <2>0. T \subseteq Nat
    BY <1>0
  <2>1. PICK k \in T : \A m \in T : k <= m
    <3> HIDE DEF T
    <3> QED BY <2>0, LeastNat
  <2>2. k \in 1 .. N
    BY <1>0, <1>3, <1>4, <2>1
  <2>3. P(k - 1)
    <3> HIDE DEF P
    <3> QED BY <1>0, <2>1, <2>2
  <2>4. ASSUME NEW x \in Ids, NEW y \in Ids, <<x, y>> \in Reach[k]
        PROVE  y \in GraphNodes /\ \A j \in 0 .. N : y \in Levels[j] => j # 0 /\ x \in Levels[j - 1]
    <3>1. CASE <<x, y>> \in Reach[k - 1]
      BY <2>3, <3>1
    <3>2. CASE <<x, y>> \notin Reach[k - 1]
      <4>1. PICK m \in Ids : <<x, m>> \in Reach[k - 1] /\ <<m, y>> \in graphEdges
        BY <1>3, <2>2, <2>4, <3>2 DEF Extended
      <4>2. y \in GraphNodes
        BY <1>4, <4>1
      <4>3. ASSUME NEW j \in 0 .. N, y \in Levels[j] PROVE j # 0 /\ x \in Levels[j - 1]
        <5>1. j # 0 /\ m \in Levels[j - 1]
          BY <1>4, <4>1, <4>3
        <5>2. j - 1 \in 0 .. N
          BY <1>0, <5>1
        <5>3. j - 1 # 0 /\ x \in Levels[j - 1 - 1]
          BY <2>3, <4>1, <5>1, <5>2
        <5>4. j - 1 \in 1 .. N
          BY <1>0, <5>2, <5>3
        <5> QED BY <1>2, <5>1, <5>3, <5>4
      <4> QED BY <4>2, <4>3
    <3> QED BY <3>1, <3>2
  <2> QED BY <2>1, <2>4
<1> QED BY <1>5 DEF N

\* No node of a graph that TopologicalSort sorts reaches itself.
LEMMA SortedHasNoCycle ==
  ASSUME graphEdges \subseteq GraphNodes \X GraphNodes, ~HasCycle(GraphNodes, graphEdges)
  PROVE  \A i \in Ids : ~OnCycle(i)
<1> DEFINE N == Cardinality(Ids)
<1>0. N \in Nat
  BY IdSets
<1> SUFFICES ASSUME NEW i \in Ids, OnCycle(i) PROVE FALSE
  OBVIOUS
<1>1. i \in GraphNodes /\ \A j \in 0 .. N : i \in Levels[j] => j # 0 /\ i \in Levels[j - 1]
  BY <1>0, PathsClimb DEF OnCycle
<1>2. Levels[N] = GraphNodes
  BY DEF HasCycle, Levels
<1> HIDE DEF N
<1> DEFINE T == {j \in 0 .. N : i \in Levels[j]}
<1>3. T # {} /\ T \subseteq Nat
  BY <1>0, <1>1, <1>2
<1>4. PICK j \in T : \A m \in T : j <= m
  <2> HIDE DEF T
  <2> QED BY <1>3, LeastNat
<1>5. j - 1 \in T
  BY <1>0, <1>1, <1>4
<1> QED BY <1>0, <1>4, <1>5

\* The number of levels of a graph that has nodes and can be sorted.
LEMMA LevelCountIs ==
  ASSUME GraphNodes # {}, ~HasCycle(GraphNodes, graphEdges)
  PROVE  LevelCount \in 1 .. Cardinality(Ids) /\ Levels[LevelCount] = GraphNodes
<1> DEFINE N == Cardinality(Ids)
           T == {k \in 0 .. N : Levels[k] = GraphNodes}
<1>0. N \in Nat
  BY IdSets
<1>1. Levels[0] = {} /\ Levels[N] = GraphNodes
  BY <1>0, SortedIs DEF HasCycle, Levels
<1> HIDE DEF N
<1>2. T # {} /\ T \subseteq Nat
  BY <1>0, <1>1
<1>3. PICK k \in T : \A m \in T : k <= m
  <2> HIDE DEF T
  <2> QED BY <1>2, LeastNat
<1>4. k \in 1 .. N /\ Levels[k] = GraphNodes /\ Levels[k - 1] # GraphNodes
  BY <1>0, <1>1, <1>3
<1>5. LevelCount = CHOOSE i \in 1 .. N : Levels[i] = GraphNodes /\ Levels[i - 1] # GraphNodes
  BY Zenon DEF LevelCount, N
<1> QED BY <1>4, <1>5 DEF N

\* The k-th level holds no node that k edges lead to.
LEMMA ChainsAreShort ==
  ASSUME GraphNodes # {}, ~HasCycle(GraphNodes, graphEdges), LevelCount <= MaxDepth,
         NEW c \in Chain, \A k \in 1 .. MaxDepth : <<c[k], c[k + 1]>> \in graphEdges
  PROVE  FALSE
<1> DEFINE N == Cardinality(Ids)
           L == LevelCount
           T == {k \in 0 .. L : c[k + 1] \in Levels[k]}
<1>0. N \in Nat /\ MaxDepth \in Nat /\ L \in 1 .. N /\ Levels[L] = GraphNodes /\ L <= MaxDepth
  BY IdSets, LevelCountIs, GraphAssumption
<1>1. Levels[0] = {} /\ \A k \in 1 .. N : Levels[k] = Round(GraphNodes, graphEdges, Levels[k - 1])
  BY <1>0, SortedIs DEF Levels
<1> HIDE DEF N, L
<1>2. \A k \in 1 .. MaxDepth + 1 : c[k] \in GraphNodes /\ c[k] \in Ids
  BY <1>0 DEF Chain, GraphNodes
<1>3. L \in T
  BY <1>0, <1>2
<1>4. PICK k \in T : \A m \in T : k <= m
  <2>1. T # {} /\ T \subseteq Nat
    BY <1>0, <1>3
  <2> HIDE DEF T
  <2> QED BY <2>1, LeastNat
<1>5. k \in 1 .. L /\ c[k + 1] \in Levels[k]
  BY <1>0, <1>1, <1>4
<1>6. k \in 1 .. N /\ k \in 1 .. MaxDepth
  BY <1>0, <1>5
<1>7. c[k] \in Levels[k - 1]
  <2>1. c[k + 1] \in Round(GraphNodes, graphEdges, Levels[k - 1])
    BY <1>1, <1>5, <1>6
  <2>2. c[k] \in Ids /\ <<c[k], c[k + 1]>> \in graphEdges
    BY <1>0, <1>2, <1>6
  <2> HIDE DEF T
  <2> QED BY <2>1, <2>2 DEF Round
<1>8. k - 1 \in T
  BY <1>0, <1>5, <1>7
<1> QED BY <1>0, <1>4, <1>5, <1>8

(***************************************************************************)
(* What edits keep: edges join nodes, and a graph all of whose additions   *)
(* the validator was asked about has neither a knot nor two nodes of one   *)
(* name.                                                                   *)
(***************************************************************************)
GraphInv ==
  /\ name \in [Ids -> Names \cup {NoName}]
  /\ graphEdges \subseteq GraphNodes \X GraphNodes
  /\ namesAsked \in BOOLEAN /\ edgesAsked \in BOOLEAN
  /\ edgesAsked => ~HasKnot(GraphNodes, graphEdges)
  /\ namesAsked => \A i, j \in GraphNodes : name[i] = name[j] => i = j

LEMMA InitGraphInv == GraphInit => GraphInv
<1> SUFFICES ASSUME GraphInit PROVE GraphInv
  OBVIOUS
<1>1. GraphNodes = {}
  BY DEF GraphInit, GraphNodes
<1> QED BY <1>1 DEF GraphInit, GraphInv, HasKnot

LEMMA StepGraphInv == GraphInv /\ [GraphNext]_graphVars => GraphInv'
<1> SUFFICES ASSUME GraphInv, [GraphNext]_graphVars PROVE GraphInv'
  OBVIOUS
<1> USE DEF GraphInv
<1>1. ASSUME NEW i \in Ids, NEW nm \in Names, AddNode(i, nm) PROVE GraphInv'
  <2>1. i \notin GraphNodes /\ GraphNodes' = GraphNodes \cup {i}
    BY <1>1, GraphAssumption DEF AddNode, GraphNodes
  <2>2. name' \in [Ids -> Names \cup {NoName}] /\ graphEdges' = graphEdges /\ edgesAsked' = edgesAsked
    BY <1>1 DEF AddNode
  <2>3. graphEdges' \subseteq GraphNodes' \X GraphNodes'
    BY <2>1, <2>2
  <2>4. ASSUME HasKnot(GraphNodes', graphEdges') PROVE HasKnot(GraphNodes, graphEdges)
    <3>1. PICK K \in SUBSET GraphNodes' : K # {} /\ \A n \in K : \E m \in K : <<m, n>> \in graphEdges
      BY <2>2, <2>4 DEF HasKnot
    <3>2. K \in SUBSET GraphNodes
      BY <2>1, <3>1
    <3> QED BY <3>1, <3>2 DEF HasKnot
  <2>5. PICK deps \in SUBSET GraphNodes : namesAsked' = (namesAsked /\ ValidateNodeAddition(nm, deps))
    BY <1>1 DEF AddNode
  <2>6. namesAsked' \in BOOLEAN
    BY Zenon, <2>5
  <2>7. ASSUME namesAsked' PROVE \A a, b \in GraphNodes' : name'[a] = name'[b] => a = b
    <3>1. namesAsked /\ \A a \in GraphNodes : name[a] # nm
      BY Zenon, <2>5, <2>7 DEF ValidateNodeAddition
    <3>2. name'[i] = nm /\ \A a \in GraphNodes : name'[a] = name[a]
      BY <1>1, <2>1 DEF AddNode, GraphNodes
    <3> QED BY <2>1, <3>1, <3>2
  <2> QED BY <2>2, <2>3, <2>4, <2>6, <2>7
<1>2. ASSUME NEW i \in Ids, NEW j \in Ids, AddEdge(i, j) PROVE GraphInv'
  <2>1. /\ {i, j} \subseteq GraphNodes /\ name' = name /\ namesAsked' = namesAsked
        /\ graphEdges' = graphEdges \cup {<<i, j>>}
        /\ edgesAsked' = (edgesAsked /\ ValidateEdgeAddition(i, j))
    BY <1>2 DEF AddEdge
  <2>2. GraphNodes' = GraphNodes /\ GraphNodes \in SUBSET Ids
    BY <2>1 DEF GraphNodes
  <2>3. edgesAsked' \in BOOLEAN
    BY Zenon, <2>1
  <2>4. ASSUME edgesAsked' PROVE ~HasKnot(GraphNodes, graphEdges \cup {<<i, j>>})
    <3>1. ~HasCycle(GraphNodes, graphEdges \cup {<<i, j>>})
      BY Zenon, <2>1, <2>4 DEF ValidateEdgeAddition
    <3>2. graphEdges \cup {<<i, j>>} \subseteq GraphNodes \X GraphNodes
      BY <2>1
    <3> QED BY <2>2, <3>1, <3>2, CycleIsKnot
  <2> QED BY <2>1, <2>2, <2>3, <2>4
<1>3. ASSUME NEW i \in Ids, NEW j \in Ids, RemoveEdge(i, j) PROVE GraphInv'
  <2>1. /\ graphEdges' \subseteq graphEdges /\ name' = name /\ namesAsked' = namesAsked /\ edgesAsked' = edgesAsked
    BY <1>3 DEF RemoveEdge, asked
  <2>2. GraphNodes' = GraphNodes
    BY <2>1 DEF GraphNodes
  <2>3. HasKnot(GraphNodes', graphEdges') => HasKnot(GraphNodes, graphEdges)
    BY <2>1, <2>2 DEF HasKnot
  <2> QED BY <2>1, <2>2, <2>3
<1>4. ASSUME NEW i \in Ids, RemoveNode(i) PROVE GraphInv'
  <2>1. /\ i \in GraphNodes /\ name' = [name EXCEPT ![i] = NoName] /\ graphEdges' = graphEdges \ Incident(i)
        /\ namesAsked' = namesAsked /\ edgesAsked' = edgesAsked
    BY <1>4 DEF RemoveNode, asked
  <2>2. GraphNodes' = GraphNodes \ {i}
    BY <2>1 DEF GraphNodes
  <2>3. name' \in [Ids -> Names \cup {NoName}]
    BY <2>1
  <2>4. graphEdges' \subseteq GraphNodes' \X GraphNodes' /\ graphEdges' \subseteq graphEdges
    BY <2>1, <2>2 DEF Incident
  <2>5. HasKnot(GraphNodes', graphEdges') => HasKnot(GraphNodes, graphEdges)
    BY <2>2, <2>4 DEF HasKnot
  <2>6. \A a \in GraphNodes' : name'[a] = name[a] /\ a \in GraphNodes
    BY <2>1, <2>2 DEF GraphNodes
  <2> QED BY <2>1, <2>3, <2>4, <2>5, <2>6
<1>5. ASSUME Clear PROVE GraphInv'
  <2>1. /\ name' = [i \in Ids |-> NoName] /\ graphEdges' = {} /\ namesAsked' = namesAsked /\ edgesAsked' = edgesAsked
    BY <1>5 DEF Clear, asked
  <2>2. GraphNodes' = {}
    BY <2>1 DEF GraphNodes
  <2>3. ~HasKnot(GraphNodes', graphEdges')
    BY <2>1, <2>2 DEF HasKnot
  <2> QED BY <2>1, <2>2, <2>3
<1>6. CASE UNCHANGED graphVars
  <2>1. name' = name /\ graphEdges' = graphEdges /\ namesAsked' = namesAsked /\ edgesAsked' = edgesAsked
    BY <1>6 DEF graphVars, asked
  <2>2. GraphNodes' = GraphNodes
    BY <2>1 DEF GraphNodes
  <2> QED BY <2>1, <2>2
<1> HIDE DEF GraphInv
<1> QED BY <1>1, <1>2, <1>3, <1>4, <1>5, <1>6 DEF GraphNext

(***************************************************************************)
(* For every set of ids, every set of names and every maximal depth, after *)
(* any edits: what the validator accepts has no cycle, no path that is too *)
(* long, no node alone and no name twice.                                  *)
(***************************************************************************)
THEOREM ValidatorSound == GraphInit /\ [][GraphNext]_graphVars => []ValidatorIsSound
<1>1. ASSUME GraphInv PROVE ValidatorIsSound
  <2> USE <1>1 DEF GraphInv
  <2>0. GraphNodes \in SUBSET Ids
    BY DEF GraphNodes
  <2>1. ASSUME edgesAsked PROVE \A i \in Ids : ~OnCycle(i)
    BY <2>0, <2>1, CycleIsKnot, SortedHasNoCycle
  <2>2. ASSUME ValidateDAG PROVE ~HasCycle(GraphNodes, graphEdges) /\ LevelCount <= MaxDepth /\ Orphans = {}
    <3>1. ~HasCycle(GraphNodes, graphEdges) /\ ~(LevelCount > MaxDepth) /\ Orphans = {}
      BY Zenon, <2>2 DEF ValidateDAG, TooDeep
    <3>2. LevelCount \in Nat /\ MaxDepth \in Nat
      <4>1. CASE GraphNodes = {}
        BY <4>1, GraphAssumption DEF LevelCount
      <4>2. CASE GraphNodes # {}
        BY <3>1, <4>2, LevelCountIs, GraphAssumption, IdSets
      <4> QED BY <4>1, <4>2
    <3> QED BY <3>1, <3>2
  <2>3. ASSUME ValidateDAG, NEW i \in GraphNodes
        PROVE  ~OnCycle(i) /\ \E j \in GraphNodes : {<<i, j>>, <<j, i>>} \cap graphEdges # {}
    <3>1. ~OnCycle(i)
      BY <2>0, <2>2, <2>3, SortedHasNoCycle
    <3>2. \E j \in GraphNodes : <<i, j>> \in graphEdges \/ <<j, i>> \in graphEdges
      BY <2>2, <2>3 DEF Orphans, Parents, Children
    <3> QED BY <3>1, <3>2
  <2>4. ASSUME ValidateDAG, NEW c \in Chain, \A k \in 1 .. MaxDepth : <<c[k], c[k + 1]>> \in graphEdges
        PROVE  FALSE
    <3>1. GraphNodes # {}
      BY <2>4, GraphAssumption DEF Chain
    <3> QED BY <2>2, <2>4, <3>1, ChainsAreShort
  <2> QED BY <2>1, <2>3, <2>4 DEF ValidatorIsSound
<1> QED BY <1>1, InitGraphInv, StepGraphInv, PTL
=============================================================================
