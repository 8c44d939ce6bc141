---------------------------- MODULE ExecutorProofs ---------------------------
(***************************************************************************)
(* Proofs about the two executors, which share no state: DagExecutor, for  *)
(* every finite set of nodes, every acyclic graph on it and any number of  *)
(* policy changes; StageExecutor with its builders, for any stages and any *)
(* number of calls.                                                        *)
(***************************************************************************)
EXTENDS DagExecutor, StageExecutor, FiniteSetTheorems, SequenceTheorems, TLAPS
-----------------------------------------------------------------------------
(* DagExecutor *)

\* The loop and its goroutines keep in step: everything below the current level
\* is done and merged, nothing above it has started, and only a level that was
\* interrupted leaves a skipped node behind.
InStep ==
  \A n \in Nodes :
    /\ level[n] < cur => task[n] = "done" /\ results[n] # "none"
    /\ level[n] > cur => task[n] = "none"
    /\ (level[n] = cur /\ pc \notin {"wait", "stopped"}) => task[n] = "none"
    /\ task[n] \in {"publish", "done"} => levelResults[n] # "none"
    /\ task[n] = "none" => results[n] = "none"
    /\ levelResults[n] = "skipped" => cancelled
    /\ results[n] = "skipped" => cancelled /\ pc # "wait"
    /\ (results[n] = "skipped" /\ pc # "stopped") => level[n] = cur - 1

\* The levels, and where the executor is when a level has failed under an unchanged fail-fast
\* policy, and what the result says.
Verdict ==
  /\ IsLevelMap(edges, level)
  /\ pc = "wait" => MoreLevels
  /\ (policy = "FailFast" /\ switches = 0) =>
       \A n \in Nodes : results[n] = "failed" => pc = "stopped" /\ level[n] = cur
  /\ pc = "finished" => (~MoreLevels /\ success = NoFailure(results))

IInv == TypeOK /\ InStep /\ Verdict

\* Execute starts in the invariant.
LEMMA InitIInv == Init => IInv
<1> SUFFICES ASSUME Init PROVE IInv
  OBVIOUS
<1>1. Cardinality(Nodes) \in Nat
  BY ExecutorAssumption, FS_CardinalityType
<1>2. TypeOK
  <2>1. /\ task \in [Nodes -> {"none", "ready", "handler", "publish", "done"}]
        /\ levelResults \in [Nodes -> Statuses] /\ results \in [Nodes -> Statuses]
        /\ inputs \in [Nodes -> SUBSET Nodes]
    BY DEF Init, Statuses
  <2>2. switches \in 0 .. MaxSwitches /\ cur \in 0 .. Cardinality(Nodes)
    BY <1>1, ExecutorAssumption DEF Init
  <2> QED BY <2>1, <2>2 DEF Init, TypeOK
<1>3. InStep
  BY <1>1 DEF Init, InStep, Levels
<1>4. Verdict
  BY DEF Init, Verdict
<1> QED BY <1>2, <1>3, <1>4 DEF IInv

\* The calls of other goroutines touch neither the loop nor its results.
LEMMA CallsIInv ==
  ASSUME IInv,
         \/ \E p \in {"FailFast", "ContinueOnFailure"} : SetExecutionPolicy(p)
         \/ \E n \in Nodes : RegisterHandler(n)
         \/ CancelContext
  PROVE  IInv'
<1>1. UNCHANGED <<edges, level, pc, cur, task, levelResults, results, outputs, inputs, success>>
  BY DEF SetExecutionPolicy, RegisterHandler, CancelContext, graph
<1>2. cancelled => cancelled'
  BY DEF SetExecutionPolicy, RegisterHandler, CancelContext
<1>3. /\ policy' \in {"FailFast", "ContinueOnFailure"} /\ switches' \in 0 .. MaxSwitches
      /\ handlers' \in SUBSET Nodes /\ cancelled' \in BOOLEAN
      /\ switches' = 0 => (switches = 0 /\ policy' = policy)
  <2>1. CASE \E p \in {"FailFast", "ContinueOnFailure"} : SetExecutionPolicy(p)
    BY <2>1, ExecutorAssumption DEF SetExecutionPolicy, IInv, TypeOK
  <2>2. CASE \E n \in Nodes : RegisterHandler(n)
    BY <2>2 DEF RegisterHandler, IInv, TypeOK
  <2>3. CASE CancelContext
    BY <2>3 DEF CancelContext, IInv, TypeOK
  <2> QED BY <2>1, <2>2, <2>3
<1>4. TypeOK'
  BY <1>1, <1>3 DEF IInv, TypeOK, Statuses, Levels
<1>5. InStep'
  BY <1>1, <1>2 DEF IInv, InStep
<1>6. Verdict'
  BY <1>1, <1>3 DEF IInv, Verdict, MoreLevels, NoFailure, IsLevelMap
<1> QED BY <1>4, <1>5, <1>6 DEF IInv

\* A goroutine changes only its own node's entries, and only while Execute waits.
LEMMA NodeIInv ==
  ASSUME IInv, NEW n \in Nodes,
         NodeStarts(n) \/ HandlerReturns(n) \/ StoreOutput(n)
  PROVE  IInv'
<1> USE DEF IInv, graph, config
<1>1. /\ UNCHANGED <<edges, level, policy, switches, handlers, cancelled, pc, cur, results, success>>
      /\ task[n] \in {"ready", "handler", "publish"}
  BY DEF NodeStarts, HandlerReturns, StoreOutput
<1>2. /\ task' \in [Nodes -> {"none", "ready", "handler", "publish", "done"}]
      /\ levelResults' \in [Nodes -> Statuses]
      /\ task'[n] \in {"handler", "publish", "done"}
      /\ \A k \in Nodes \ {n} : task'[k] = task[k] /\ levelResults'[k] = levelResults[k]
  BY DEF NodeStarts, HandlerReturns, StoreOutput, TypeOK, Statuses
<1>3. outputs' \in SUBSET Nodes /\ inputs' \in [Nodes -> SUBSET Nodes]
  BY DEF NodeStarts, HandlerReturns, StoreOutput, TypeOK, CollectInputs
<1>4. TypeOK'
  BY <1>1, <1>2, <1>3 DEF TypeOK, Statuses, Levels
<1>5. /\ levelResults'[n] = "skipped" => cancelled
      /\ task'[n] \in {"publish", "done"} => levelResults'[n] # "none"
  <2>1. CASE NodeStarts(n)
    BY <2>1 DEF NodeStarts, TypeOK, InStep
  <2>2. CASE HandlerReturns(n)
    BY <2>2 DEF HandlerReturns, TypeOK, InStep
  <2>3. CASE StoreOutput(n)
    BY <2>3 DEF StoreOutput, TypeOK, InStep
  <2> QED BY <2>1, <2>2, <2>3
<1>6. InStep'
  BY <1>1, <1>2, <1>5 DEF InStep, TypeOK
<1>7. Verdict'
  BY <1>1 DEF Verdict, MoreLevels, NoFailure, IsLevelMap
<1> QED BY <1>4, <1>6, <1>7

\* The head of the loop: starting a level and the two returns.
LEMMA LoopIInv == ASSUME IInv, ExecuteLevel PROVE IInv'
<1> USE DEF IInv, graph, config
<1>1. /\ UNCHANGED <<edges, level, policy, switches, handlers, cancelled, cur,
                     levelResults, results, outputs, inputs>>
      /\ pc = "loop" /\ pc' \in {"wait", "cancelled", "finished"}
  BY DEF ExecuteLevel
<1>2. Cardinality(Nodes) \in Nat /\ cur \in Nat /\ \A n \in Nodes : level[n] \in Nat
  BY ExecutorAssumption, FS_CardinalityType DEF TypeOK, Levels
<1>3. TypeOK'
  <2>1. task' \in [Nodes -> {"none", "ready", "handler", "publish", "done"}]
    BY DEF ExecuteLevel, TypeOK
  <2>2. success' \in BOOLEAN
    BY DEF ExecuteLevel, TypeOK, NoFailure
  <2> QED BY <1>1, <2>1, <2>2 DEF TypeOK, Statuses, Levels
<1>4. CASE pc' = "wait"
  <2>1. /\ ~cancelled
        /\ task' = [n \in Nodes |-> IF level[n] = cur THEN "ready" ELSE task[n]]
    BY <1>4 DEF ExecuteLevel, StopsLoop
  <2>2. InStep'
    BY <1>1, <1>2, <1>4, <2>1 DEF InStep, TypeOK
  <2>3. Verdict'
    BY <1>1, <1>4 DEF Verdict, ExecuteLevel, MoreLevels, IsLevelMap
  <2> QED BY <1>3, <2>2, <2>3
<1>5. CASE pc' \in {"cancelled", "finished"}
  <2>1. task' = task /\ (pc' = "finished" => ~MoreLevels /\ success' = NoFailure(results))
    BY <1>5 DEF ExecuteLevel
  <2>2. InStep'
    BY <1>1, <1>5, <2>1 DEF InStep
  <2>3. Verdict'
    BY <1>1, <1>5, <2>1 DEF Verdict, MoreLevels, NoFailure, IsLevelMap
  <2> QED BY <1>3, <2>2, <2>3
<1> QED BY <1>1, <1>4, <1>5

\* The end of a level: results are merged, and a failure stops the loop or not.
LEMMA LevelIInv == ASSUME IInv, LevelEnds PROVE IInv'
<1> USE DEF IInv, graph, config
<1>1. /\ UNCHANGED <<edges, level, policy, switches, handlers, cancelled, task,
                     levelResults, outputs, inputs>>
      /\ pc = "wait" /\ LevelDone
      /\ results' = [n \in Nodes |-> IF level[n] = cur THEN levelResults[n] ELSE results[n]]
  BY DEF LevelEnds
<1>2. Cardinality(Nodes) \in Nat /\ cur \in Nat
      /\ \A n \in Nodes : level[n] \in 0 .. (Cardinality(Nodes) - 1)
  BY ExecutorAssumption, FS_CardinalityType DEF TypeOK, Levels
<1>3. results' \in [Nodes -> Statuses]
  BY <1>1 DEF TypeOK
<1>4. CASE pc' = "stopped"
  <2>1. StopsAt(results') /\ cur' = cur /\ success' \in BOOLEAN
    BY <1>4 DEF LevelEnds, NoFailure
  <2>2. TypeOK'
    BY <1>1, <1>3, <1>4, <2>1 DEF TypeOK, Statuses, Levels
  <2>3. InStep'
    BY <1>1, <1>2, <1>4, <2>1 DEF InStep, LevelDone, AtLevel
  <2>4. Verdict'
    BY <1>1, <1>4, <2>1 DEF Verdict, IsLevelMap
  <2> QED BY <2>2, <2>3, <2>4
<1>5. CASE pc' = "loop"
  <2>1. ~StopsAt(results') /\ cur' = cur + 1 /\ success' = success
    BY <1>5 DEF LevelEnds
  <2>2. cur < Cardinality(Nodes)
    <3>1. \E n \in Nodes : level[n] >= cur
      BY <1>1 DEF Verdict, MoreLevels
    <3> QED BY <1>2, <3>1
  <2>3. TypeOK'
    BY <1>1, <1>2, <1>3, <1>5, <2>1, <2>2 DEF TypeOK, Statuses, Levels
  <2>4. InStep'
    BY <1>1, <1>2, <1>5, <2>1 DEF InStep, LevelDone, AtLevel
  <2>5. Verdict'
    BY <1>1, <1>5, <2>1 DEF Verdict, StopsAt, AtLevel, IsLevelMap
  <2> QED BY <2>3, <2>4, <2>5
<1> QED BY <1>4, <1>5 DEF LevelEnds

\* Every step keeps the invariant.
LEMMA StepIInv == IInv /\ [Next]_vars => IInv'
<1> SUFFICES ASSUME IInv, [Next]_vars PROVE IInv'
  OBVIOUS
<1>1. CASE UNCHANGED vars
  BY <1>1 DEF vars, graph, config, IInv, TypeOK, InStep, Verdict, MoreLevels, NoFailure,
              IsLevelMap, Statuses, Levels
<1>2. CASE Next
  BY <1>2, CallsIInv, NodeIInv, LoopIInv, LevelIInv DEF Next, Execute
<1> QED BY <1>1, <1>2

\* The invariant holds throughout an execution.
LEMMA Invariance == Spec => []IInv
BY InitIInv, StepIInv, PTL DEF Spec

\* The types of the executor's state (executor.go 83-340).
THEOREM TypeCorrect == Spec => []TypeOK
<1>1. IInv => TypeOK
  BY DEF IInv
<1> QED BY <1>1, Invariance, PTL

\* The level barrier orders every node after all its parents, on every graph
\* (executor.go 98-113, 162-203).
THEOREM ParentsFirst == Spec => []StartsAfterParents
<1>1. IInv => StartsAfterParents
  <2> SUFFICES ASSUME IInv, NEW n \in Nodes, NEW m \in Nodes, task[n] # "none",
                      <<m, n>> \in edges
               PROVE  task[m] = "done" /\ results[m] # "none"
    BY DEF StartsAfterParents, Parents
  <2>1. level[m] < level[n]
    BY DEF IInv, Verdict, IsLevelMap
  <2>2. level[n] <= cur /\ level[n] \in Int /\ level[m] \in Int /\ cur \in Int
    BY DEF IInv, InStep, TypeOK, Levels
  <2> QED BY <2>1, <2>2 DEF IInv, InStep
<1> QED BY <1>1, Invariance, PTL

\* Fail-fast contains a failure to its level (executor.go 115-143).
THEOREM FailFastStops == Spec => []FailFastContains
<1>1. IInv => FailFastContains
  BY DEF IInv, Verdict, InStep, FailFastContains
<1> QED BY <1>1, Invariance, PTL

\* A nil error with Success covers the whole graph, up to a cancellation that
\* caught the last level (executor.go 146-159).
THEOREM SuccessSound == Spec => []SuccessCoversGraph
<1>1. IInv => SuccessCoversGraph
  <2> SUFFICES ASSUME IInv, pc = "finished", success, NEW n \in Nodes,
                      results[n] # "completed"
               PROVE  /\ cancelled /\ results[n] = "skipped"
                      /\ \A m \in Nodes : level[m] <= level[n]
    BY DEF SuccessCoversGraph
  <2>1. /\ cur \in Int /\ results[n] \in Statuses
        /\ \A m \in Nodes : level[m] \in Int /\ level[m] < cur
    BY DEF IInv, TypeOK, Levels, Verdict, MoreLevels
  <2>2. results[n] # "failed" /\ results[n] # "none"
    BY <2>1 DEF IInv, Verdict, NoFailure, InStep
  <2>3. results[n] = "skipped"
    BY <2>1, <2>2 DEF Statuses
  <2>4. cancelled /\ level[n] = cur - 1
    BY <2>3 DEF IInv, InStep
  <2> QED BY <2>1, <2>3, <2>4
<1> QED BY <1>1, Invariance, PTL
-----------------------------------------------------------------------------
(* Execute implements DagRun, its caller's view *)

\* What the answer needs besides: merged results are the recorded ones, a node
\* records nothing before its handler is back, and after a stop the last level is over.
Merged ==
  /\ \A n \in Nodes :
       /\ level[n] < cur => results[n] = levelResults[n]
       /\ task[n] \in {"none", "ready", "handler"} => levelResults[n] = "none"
       /\ (pc = "stopped" /\ level[n] = cur) => task[n] = "done"
  /\ pc = "stopped" => ~success

\* Every step keeps the merged results those that were recorded.
LEMMA StepMerged == IInv /\ Merged /\ [Next]_vars => Merged'
<1> SUFFICES ASSUME IInv, Merged, [Next]_vars PROVE Merged'
  OBVIOUS
<1> USE DEF graph, config
<1>1. cur \in Int /\ \A n \in Nodes : level[n] \in Int
  BY DEF IInv, TypeOK, Levels
<1>2. CASE UNCHANGED vars
  BY <1>2 DEF vars, Merged
<1>3. CASE (\E p \in {"FailFast", "ContinueOnFailure"} : SetExecutionPolicy(p))
           \/ (\E n \in Nodes : RegisterHandler(n)) \/ CancelContext
  BY <1>3 DEF SetExecutionPolicy, RegisterHandler, CancelContext, Merged
<1>4. CASE \E n \in Nodes : NodeStarts(n) \/ HandlerReturns(n) \/ StoreOutput(n)
  <2> PICK n \in Nodes : NodeStarts(n) \/ HandlerReturns(n) \/ StoreOutput(n)
    BY <1>4
  <2>1. /\ UNCHANGED <<level, pc, cur, results, success>>
        /\ task[n] \in {"ready", "handler", "publish"}
        /\ task'[n] \in {"handler", "publish", "done"}
        /\ task'[n] = "handler" => task[n] = "ready" /\ levelResults'[n] = levelResults[n]
        /\ \A k \in Nodes \ {n} : task'[k] = task[k] /\ levelResults'[k] = levelResults[k]
    BY DEF NodeStarts, HandlerReturns, StoreOutput, IInv, TypeOK
  <2>2. ~(level[n] < cur)
    BY <2>1 DEF IInv, InStep
  <2> QED BY <2>1, <2>2 DEF Merged
<1>5. CASE ExecuteLevel
  <2>1. /\ UNCHANGED <<level, cur, levelResults, results>> /\ pc' # "stopped"
        /\ \A n \in Nodes : task'[n] = task[n] \/ (pc = "loop" /\ level[n] = cur)
    BY <1>5 DEF ExecuteLevel, IInv, TypeOK
  <2>2. \A n \in Nodes : (pc = "loop" /\ level[n] = cur) => task[n] = "none"
    BY DEF IInv, InStep
  <2> QED BY <2>1, <2>2 DEF Merged
<1>6. CASE LevelEnds
  <2>1. /\ UNCHANGED <<level, task, levelResults>> /\ LevelDone /\ pc = "wait"
        /\ results' = [n \in Nodes |-> IF level[n] = cur THEN levelResults[n] ELSE results[n]]
        /\ \/ pc' = "stopped" /\ cur' = cur /\ StopsAt(results') /\ success' = NoFailure(results')
           \/ pc' = "loop" /\ cur' = cur + 1
    BY <1>6 DEF LevelEnds
  <2>2. pc' = "stopped" => ~success'
    BY <2>1 DEF StopsAt, AtLevel, NoFailure
  <2> QED BY <1>1, <2>1, <2>2 DEF Merged, LevelDone, AtLevel
<1> QED BY <1>2, <1>3, <1>4, <1>5, <1>6 DEF Next, Execute

\* Both invariants hold throughout an execution.
LEMMA MergedInvariance == Spec => [](IInv /\ Merged)
<1>1. Init => Merged
  <2> SUFFICES ASSUME Init PROVE Merged
    OBVIOUS
  <2>1. \A n \in Nodes : level[n] \in Nat
    BY ExecutorAssumption, FS_CardinalityType DEF Init, Levels
  <2> QED BY <2>1 DEF Init, Merged
<1> QED BY <1>1, StepMerged, Invariance, PTL DEF Spec

\* A step of Execute, or of another goroutine, is a step of DagRun or none.
LEMMA StepImplements ==
  ASSUME IInv, Merged, [Next]_vars
  PROVE  [Contract!EndContext \/ Contract!Work \/ Contract!Return]_(Contract!vars)
<1> USE DEF graph, config
<1> DEFINE Begun  == {n \in Nodes : task[n] # "none"}
           Over   == {n \in Nodes : task[n] = "done"}
           Failed == {n \in Nodes : levelResults[n] = "failed"}
<1>0. cur \in Int /\ \A n \in Nodes : level[n] \in Int
  BY DEF IInv, TypeOK, Levels
<1>1. CASE UNCHANGED vars
  BY <1>1 DEF vars, Contract!vars, Answered, Returned
<1>2. CASE (\E p \in {"FailFast", "ContinueOnFailure"} : SetExecutionPolicy(p))
           \/ \E n \in Nodes : RegisterHandler(n)
  BY <1>2 DEF SetExecutionPolicy, RegisterHandler, Contract!vars, Answered, Returned
<1>3. CASE CancelContext
  BY <1>3 DEF CancelContext, Contract!EndContext, Answered, Returned
<1>4. CASE \E n \in Nodes : NodeStarts(n) \/ HandlerReturns(n) \/ StoreOutput(n)
  <2> PICK n \in Nodes : NodeStarts(n) \/ HandlerReturns(n) \/ StoreOutput(n)
    BY <1>4
  <2>1. /\ UNCHANGED <<edges, cancelled, pc, success>>
        /\ task[n] \in {"ready", "handler", "publish"}
        /\ task' \in [Nodes -> {"none", "ready", "handler", "publish", "done"}]
        /\ \A k \in Nodes \ {n} : task'[k] = task[k] /\ levelResults'[k] = levelResults[k]
    BY DEF NodeStarts, HandlerReturns, StoreOutput, IInv, TypeOK
  <2>2. Answered = "none" /\ Answered' = "none"
    <3>1. ~Returned
      BY <1>0, <2>1 DEF IInv, InStep, TypeOK, Merged, Returned
    <3> QED BY <2>1, <3>1 DEF Answered, Returned
  <2>3. Begun' = Begun
    <3>1. task'[n] # "none"
      BY DEF NodeStarts, HandlerReturns, StoreOutput, IInv, TypeOK
    <3> QED BY <2>1, <3>1
  <2>4. CASE task'[n] = "done"
    <3>1. Over' = Over \cup {n} /\ n \in Begun \ Over
      BY <2>1, <2>4
    <3>2. Failed' \in {Failed, Failed \cup {n}}
      <4>1. CASE NodeStarts(n) \/ HandlerReturns(n)
        BY <2>1, <4>1 DEF NodeStarts, HandlerReturns, Merged
      <4>2. CASE StoreOutput(n)
        BY <4>2 DEF StoreOutput
      <4> QED BY <4>1, <4>2
    <3>3. Contract!End(n)
      BY <2>1, <2>2, <2>3, <3>1, <3>2 DEF Contract!End
    <3> QED BY <3>3 DEF Contract!Work
  <2>5. CASE task'[n] # "done"
    <3>1. Over' = Over
      BY <2>1, <2>5
    <3>2. Failed' = Failed
      <4>1. levelResults'[n] = "failed" <=> levelResults[n] = "failed"
        <5>1. CASE NodeStarts(n)
          BY <2>5, <5>1 DEF NodeStarts, IInv, TypeOK
        <5>2. CASE HandlerReturns(n)
          <6>1. task[n] = "handler" /\ levelResults[n] = "none"
            BY <5>2 DEF HandlerReturns, Merged
          <6> QED BY <2>5, <5>2, <6>1 DEF HandlerReturns, IInv, TypeOK
        <5>3. CASE StoreOutput(n)
          BY <5>3 DEF StoreOutput
        <5> QED BY <5>1, <5>2, <5>3
      <4> QED BY <2>1, <4>1
    <3> QED BY <2>1, <2>2, <2>3, <3>1, <3>2 DEF Contract!vars
  <2> QED BY <2>4, <2>5
<1>5. CASE ExecuteLevel
  <2>1. UNCHANGED <<edges, cancelled, levelResults>> /\ pc = "loop"
    BY <1>5 DEF ExecuteLevel
  <2>2. Answered = "none" /\ Begun = Over
    <3>1. \A n \in Nodes : task[n] = "done" \/ task[n] = "none"
      BY <1>0, <2>1 DEF IInv, InStep
    <3> QED BY <2>1, <3>1 DEF Answered, Returned
  <2>3. CASE pc' = "wait"
    <3> DEFINE S == AtLevel(cur)
    <3>1. task' = [n \in Nodes |-> IF level[n] = cur THEN "ready" ELSE task[n]]
      BY <2>3, <1>5 DEF ExecuteLevel
    <3>2. \A n \in S : task[n] = "none"
      BY <2>1 DEF IInv, InStep, AtLevel
    <3>3. \A n \in S, m \in Nodes : <<m, n>> \in edges => m \in Over
      BY <1>0 DEF IInv, Verdict, IsLevelMap, InStep, AtLevel
    <3>4. Begun' = Begun \cup S /\ Over' = Over /\ S \cap Begun = {} /\ S \in SUBSET Nodes
      BY <3>1, <3>2 DEF AtLevel
    <3>5. Answered' = "none"
      BY <2>3 DEF Answered, Returned
    <3>6. Contract!Begin(S)
      BY <2>1, <2>2, <3>3, <3>4, <3>5 DEF Contract!Begin
    <3>7. \E T \in SUBSET Nodes : Contract!Begin(T)
      <4> HIDE DEF S
      <4>1. S \in SUBSET Nodes
        BY <3>4
      <4> QED BY <4>1, <3>6, SMTT(30) DEF Contract!Begin
    <3>8. Contract!Work
      BY <3>7 DEF Contract!Work
    <3> QED BY <3>8
  <2>4. CASE pc' = "cancelled"
    <3>1. task' = task /\ cancelled /\ Answered' = "ctx"
      BY <2>4, <1>5 DEF ExecuteLevel, StopsLoop, Answered, Returned
    <3>2. Contract!Answer("ctx")
      BY <2>1, <2>2, <3>1 DEF Contract!Answer, Contract!Fits
    <3> QED BY <3>2 DEF Contract!Return, Contract!Answers
  <2>5. CASE pc' = "finished"
    <3>1. task' = task /\ ~MoreLevels /\ success' = NoFailure(results)
      BY <2>5, <1>5 DEF ExecuteLevel
    <3>2. \A n \in Nodes : task[n] = "done" /\ results[n] = levelResults[n]
      BY <1>0, <3>1 DEF MoreLevels, IInv, InStep, Merged
    <3>3. Over = Nodes /\ (success' <=> Failed = {})
      BY <3>1, <3>2 DEF NoFailure
    <3>4. CASE success'
      <4>1. Answered' = "ok"
        BY <2>5, <3>4 DEF Answered, Returned
      <4>2. Contract!Answer("ok")
        BY <2>1, <2>2, <3>1, <3>3, <3>4, <4>1 DEF Contract!Answer, Contract!Fits
      <4> QED BY <4>2 DEF Contract!Return, Contract!Answers
    <3>5. CASE ~success'
      <4>1. Answered' = "failed"
        BY <2>5, <3>5 DEF Answered, Returned
      <4>2. Contract!Answer("failed")
        BY <2>1, <2>2, <3>1, <3>3, <3>5, <4>1 DEF Contract!Answer, Contract!Fits
      <4> QED BY <4>2 DEF Contract!Return, Contract!Answers
    <3> QED BY <3>4, <3>5
  <2> QED BY <1>5, <2>3, <2>4, <2>5 DEF ExecuteLevel
<1>6. CASE LevelEnds
  <2>1. /\ UNCHANGED <<edges, cancelled, task, levelResults>> /\ pc = "wait" /\ LevelDone
        /\ results' = [n \in Nodes |-> IF level[n] = cur THEN levelResults[n] ELSE results[n]]
    BY <1>6 DEF LevelEnds
  <2>2. Answered = "none"
    BY <2>1 DEF Answered, Returned
  <2>3. CASE pc' = "loop"
    <3>1. Answered' = "none"
      BY <2>3 DEF Answered, Returned
    <3> QED BY <2>1, <2>2, <3>1 DEF Contract!vars
  <2>4. CASE pc' = "stopped"
    <3>1. StopsAt(results') /\ success' = NoFailure(results')
      BY <2>4, <1>6 DEF LevelEnds
    <3>2. PICK n \in Nodes : level[n] = cur /\ levelResults[n] = "failed"
      BY <2>1, <3>1 DEF StopsAt, AtLevel
    <3>3. ~success' /\ Failed # {}
      BY <2>1, <3>1, <3>2 DEF NoFailure
    <3>4. Answered' = "failed"
      BY <2>4, <3>3 DEF Answered, Returned
    <3>5. Begun = Over
      <4>1. \A k \in Nodes : task[k] = "done" \/ task[k] = "none"
        BY <1>0, <2>1 DEF IInv, InStep, LevelDone, AtLevel
      <4> QED BY <4>1
    <3>6. Contract!Answer("failed")
      BY <2>1, <2>2, <3>3, <3>4, <3>5 DEF Contract!Answer, Contract!Fits
    <3> QED BY <3>6 DEF Contract!Return, Contract!Answers
  <2> QED BY <1>6, <2>3, <2>4 DEF LevelEnds
<1> QED BY <1>1, <1>2, <1>3, <1>4, <1>5, <1>6 DEF Next, Execute

\* Execute implements the safety part of DagRun on every graph: nodes begin after
\* their parents, the call answers once with nothing of it running, and the
\* answer fits what the nodes did (executor.go 83-203).
THEOREM ImplementsDagRun == Spec => Contract!Safe
<1>1. Init => Contract!Init
  BY DEF Init, Contract!Init, Answered, Returned
<1> QED BY <1>1, StepImplements, MergedInvariance, PTL DEF Spec, Contract!Safe

-----------------------------------------------------------------------------
(* The pipeline builders *)

StageRecord == [name : Nat, known : BOOLEAN, optional : BOOLEAN, retry : Nat,
                at : Nat, want : Seq(Nat), spare : SUBSET Nat]
ArrayRecord == [cap : Nat, cells : Seq(Nat)]
Arrays == Seq(ArrayRecord)
Builders == [stages : Seq(StageRecord), errors : BOOLEAN, config : BOOLEAN]

BuilderType ==
  /\ DOMAIN builder \in {{"own"}, {"own", "clone"}}
  /\ builder \in [DOMAIN builder -> Builders]
  /\ array \in Arrays

\* A slice that has an array lies in it, and holds what was asked for where no
\* other slice may write.
SliceOK(arr, s) ==
  /\ s.at = 0 => s.want = <<>>
  /\ s.at # 0 => /\ s.at \in DOMAIN arr /\ Len(s.want) <= Len(arr[s.at].cells)
                 /\ \A k \in (1 .. Len(s.want)) \ s.spare : arr[s.at].cells[k] = s.want[k]

\* The slices s and o lie in one array, and nothing before place n + 1 is written
\* any more.
Twins(arr, s, o) ==
  \E n \in Nat : /\ n <= Len(s.want) /\ n <= Len(o.want)
                 /\ s.spare = (n + 1) .. arr[s.at].cap /\ o.spare = s.spare

(***************************************************************************)
(* What the builders and their arrays keep: the slices are well formed,    *)
(* only a builder and its clone share an array, and no place is spare      *)
(* before there is a clone.                                                *)
(***************************************************************************)
BuilderInv ==
  /\ BuilderType
  /\ \A b \in DOMAIN builder : \A i \in DOMAIN builder[b].stages : SliceOK(array, builder[b].stages[i])
  /\ \A b, c \in DOMAIN builder : \A i \in DOMAIN builder[b].stages, j \in DOMAIN builder[c].stages :
       LET s == builder[b].stages[i]
           o == builder[c].stages[j]
       IN  (s.at # 0 /\ s.at = o.at /\ (b # c \/ i # j)) => b # c /\ Twins(array, s, o)
  /\ "clone" \notin DOMAIN builder => \A i \in DOMAIN builder["own"].stages : builder["own"].stages[i].spare = {}

LEMMA InitBuilderInv == BuilderInit => BuilderInv
<1> SUFFICES ASSUME BuilderInit PROVE BuilderInv
  OBVIOUS
<1>1. DOMAIN builder = {"own"} /\ builder["own"] = Fresh /\ builder = [b \in {"own"} |-> Fresh]
  BY DEF BuilderInit
<1>2. Fresh \in Builders /\ Fresh.stages = <<>>
  BY DEF Fresh, Builders
<1>3. BuilderType
  BY <1>1, <1>2 DEF BuilderType, BuilderInit, Arrays
<1> QED BY <1>1, <1>2, <1>3 DEF BuilderInv

\* append in place writes one cell.
LEMMA WrittenIs ==
  ASSUME array \in Arrays, NEW s \in StageRecord, s.at \in DOMAIN array,
         Len(s.want) <= Len(array[s.at].cells), NEW dep \in Nat
  PROVE  /\ Written(s, dep) \in ArrayRecord /\ Written(s, dep).cap = array[s.at].cap
         /\ Len(Written(s, dep).cells) >= Len(array[s.at].cells)
         /\ Len(Written(s, dep).cells) >= Len(s.want) + 1
         /\ Written(s, dep).cells[Len(s.want) + 1] = dep
         /\ \A k \in (1 .. Len(array[s.at].cells)) \ {Len(s.want) + 1} :
              Written(s, dep).cells[k] = array[s.at].cells[k]
<1> DEFINE a == array[s.at]
           n == Len(s.want)
           front == Added(s, dep)
           back == SubSeq(a.cells, n + 2, Len(a.cells))
<1>1. a \in ArrayRecord /\ n \in Nat /\ s.at # 0
  <2>0. s.at \in 1 .. Len(array) /\ s.at # 0
    BY DEF Arrays
  <2>1. a \in ArrayRecord
    BY <2>0, ElementOfSeq DEF Arrays
  <2> QED BY <2>0, <2>1 DEF StageRecord
<1>a. DependsOn(s) = SubSeq(a.cells, 1, n)
  BY <1>1 DEF DependsOn
<1>b. Len(a.cells) \in Nat /\ n <= Len(a.cells) /\ \A k \in 1 .. Len(a.cells) : a.cells[k] \in Nat
  BY <1>1 DEF ArrayRecord
<1> HIDE DEF a, n
<1>3. front \in Seq(Nat) /\ Len(front) = n + 1 /\ front[n + 1] = dep /\ \A k \in 1 .. n : front[k] = a.cells[k]
  <2>1. DependsOn(s) \in Seq(Nat) /\ Len(DependsOn(s)) = n /\ \A k \in 1 .. n : DependsOn(s)[k] = a.cells[k]
    BY <1>1, <1>a, <1>b, SubSeqProperties
  <2> QED BY <1>1, <2>1 DEF Added
<1>4. /\ back \in Seq(Nat) /\ Len(back) = IF Len(a.cells) >= n + 2 THEN Len(a.cells) - n - 1 ELSE 0
      /\ \A k \in 1 .. Len(back) : back[k] = a.cells[n + 1 + k]
  <2>1. n + 2 \in Int /\ Len(a.cells) \in Int /\ \A k \in (n + 2) .. Len(a.cells) : a.cells[k] \in Nat
    BY <1>1, <1>b
  <2>2. /\ back \in Seq(Nat) /\ Len(back) = IF n + 2 <= Len(a.cells) THEN Len(a.cells) - (n + 2) + 1 ELSE 0
        /\ \A k \in 1 .. Len(a.cells) - (n + 2) + 1 : back[k] = a.cells[n + 2 + k - 1]
    BY <2>1, SubSeqProperties
  <2> HIDE DEF back
  <2> QED BY <1>1, <1>b, <2>2 DEF ArrayRecord
<1>5. Written(s, dep) = [a EXCEPT !.cells = front \o back]
  BY Zenon DEF Written, a, n
<1>6. Written(s, dep) \in ArrayRecord /\ Written(s, dep).cap = a.cap /\ Written(s, dep).cells = front \o back
  <2> HIDE DEF a, n, front, back
  <2>1. front \o back \in Seq(Nat)
    BY <1>3, <1>4, ConcatProperties
  <2> QED BY <1>1, <1>5, <2>1 DEF ArrayRecord
<1> HIDE DEF a, n, front, back
<1> DEFINE w == front \o back
<1>7. Len(w) = Len(front) + Len(back) /\ \A k \in 1 .. Len(front) + Len(back) :
        w[k] = IF k <= Len(front) THEN front[k] ELSE back[k - Len(front)]
  <2>1. front \in Seq(Nat) /\ back \in Seq(Nat)
    BY <1>3, <1>4
  <2> QED BY ONLY <2>1, ConcatProperties DEF w
<1> HIDE DEF w
<1>8. Len(a.cells) \in Nat
  BY <1>1
<1> DEFINE c == Len(a.cells)
           lb == Len(back)
<1>a1. c \in Nat /\ n \in Nat /\ lb = (IF c >= n + 2 THEN c - n - 1 ELSE 0)
  BY <1>1, <1>4, <1>8
<1>a2. lb \in Nat /\ c <= n + 1 + lb
  <2> HIDE DEF c, lb
  <2> QED BY <1>a1
<1>a3. \A k \in 1 .. lb : back[k] = a.cells[n + 1 + k]
  BY <1>4
<1>a4. Len(w) = n + 1 + lb /\ \A k \in 1 .. n + 1 + lb : w[k] = IF k <= n + 1 THEN front[k] ELSE back[k - (n + 1)]
  BY <1>3, <1>7
<1> HIDE DEF c, lb
<1>9. ASSUME NEW k \in 1 .. c, k # n + 1 PROVE w[k] = a.cells[k]
  <2>1. CASE k <= n
    BY <1>a1, <1>a2, <1>a4, <1>3, <2>1
  <2>2. CASE ~(k <= n)
    <3>1. k - (n + 1) \in 1 .. lb /\ n + 1 + (k - (n + 1)) = k
      BY <1>a1, <1>a2, <1>9, <2>2
    <3>2. w[k] = back[k - (n + 1)]
      BY <1>a1, <1>a2, <1>a4, <1>9, <2>2
    <3> QED BY <1>a3, <3>1, <3>2
  <2> QED BY <2>1, <2>2
<1>10. Len(w) >= c /\ Len(w) >= n + 1 /\ w[n + 1] = dep
  BY <1>a1, <1>a2, <1>a4, <1>3
<1>11. Written(s, dep).cells = w
  BY <1>6 DEF w
<1> HIDE DEF w
<1> QED BY <1>6, <1>9, <1>10, <1>11 DEF a, n, c

\* What the invariant asks of a list of slices, written over a state's builders
\* and arrays.
LEMMA BuilderTypes ==
  ASSUME BuilderType
  PROVE  /\ "own" \in DOMAIN builder /\ DOMAIN builder \subseteq {"own", "clone"}
         /\ \A b \in DOMAIN builder :
              /\ builder[b] \in Builders
              /\ builder[b].stages \in Seq(StageRecord) /\ Len(builder[b].stages) \in Nat
              /\ DOMAIN builder[b].stages = 1 .. Len(builder[b].stages)
              /\ \A i \in DOMAIN builder[b].stages : builder[b].stages[i] \in StageRecord
         /\ Len(array) \in Nat /\ DOMAIN array = 1 .. Len(array)
         /\ \A a \in DOMAIN array : array[a] \in ArrayRecord
<1>1. "own" \in DOMAIN builder /\ DOMAIN builder \subseteq {"own", "clone"}
  BY DEF BuilderType
<1>2. ASSUME NEW b \in DOMAIN builder
      PROVE  /\ builder[b] \in Builders
             /\ builder[b].stages \in Seq(StageRecord) /\ Len(builder[b].stages) \in Nat
             /\ DOMAIN builder[b].stages = 1 .. Len(builder[b].stages)
             /\ \A i \in DOMAIN builder[b].stages : builder[b].stages[i] \in StageRecord
  <2>1. builder[b] \in Builders
    BY DEF BuilderType
  <2>2. builder[b].stages \in Seq(StageRecord)
    BY <2>1 DEF Builders
  <2> QED BY <2>1, <2>2, ElementOfSeq
<1>3. Len(array) \in Nat /\ DOMAIN array = 1 .. Len(array) /\ \A a \in DOMAIN array : array[a] \in ArrayRecord
  BY DEF BuilderType, Arrays
<1> QED BY <1>1, <1>2, <1>3

\* A step that leaves the arrays it finds alone and touches no slice but the n-th
\* of b, which then has no array or a new one.
NewSlice(b, n) ==
  /\ DOMAIN builder' = DOMAIN builder
  /\ \A a \in DOMAIN array : a \in DOMAIN array' /\ array'[a] = array[a]
  /\ \A c \in DOMAIN builder : \A i \in DOMAIN builder'[c].stages :
       IF c = b /\ i = n
         THEN /\ SliceOK(array', builder'[c].stages[i]) /\ builder'[c].stages[i].at \notin DOMAIN array
              /\ "clone" \in DOMAIN builder \/ builder'[c].stages[i].spare = {}
         ELSE i \in DOMAIN builder[c].stages /\ builder'[c].stages[i] = builder[c].stages[i]

LEMMA OneNewSlice == ASSUME BuilderInv, BuilderType', NEW b, NEW n, NewSlice(b, n) PROVE BuilderInv'
<1> USE DEF NewSlice
<1>1. BuilderType /\ DOMAIN array = 1 .. Len(array) /\ Len(array) \in Nat
  BY BuilderTypes DEF BuilderInv
<1>2. \A c \in DOMAIN builder : \A i \in DOMAIN builder[c].stages :
        /\ SliceOK(array, builder[c].stages[i])
        /\ builder[c].stages[i].at # 0 => builder[c].stages[i].at \in DOMAIN array
  BY DEF BuilderInv, SliceOK
<1>3. ASSUME NEW c \in DOMAIN builder, NEW i \in DOMAIN builder'[c].stages PROVE SliceOK(array', builder'[c].stages[i])
  BY <1>2, <1>3 DEF SliceOK
<1>4. ASSUME NEW c \in DOMAIN builder, NEW d \in DOMAIN builder,
             NEW i \in DOMAIN builder'[c].stages, NEW j \in DOMAIN builder'[d].stages,
             builder'[c].stages[i].at # 0, builder'[c].stages[i].at = builder'[d].stages[j].at, c # d \/ i # j
      PROVE  c # d /\ Twins(array', builder'[c].stages[i], builder'[d].stages[j])
  <2>1. ~(c = b /\ i = n) /\ ~(d = b /\ j = n)
    BY <1>2, <1>4
  <2>2. /\ i \in DOMAIN builder[c].stages /\ builder'[c].stages[i] = builder[c].stages[i]
        /\ j \in DOMAIN builder[d].stages /\ builder'[d].stages[j] = builder[d].stages[j]
    BY <2>1
  <2>3. c # d /\ Twins(array, builder[c].stages[i], builder[d].stages[j])
    BY <1>4, <2>2 DEF BuilderInv
  <2>4. array'[builder[c].stages[i].at] = array[builder[c].stages[i].at]
    BY <1>2, <1>4, <2>2
  <2> QED BY <2>2, <2>3, <2>4 DEF Twins
<1>5. ASSUME "clone" \notin DOMAIN builder' PROVE \A i \in DOMAIN builder'["own"].stages : builder'["own"].stages[i].spare = {}
  BY <1>1, <1>5, BuilderTypes DEF BuilderInv
<1> QED BY <1>3, <1>4, <1>5 DEF BuilderInv

LEMMA ConfigureInv == ASSUME BuilderInv, NEW b, Configure(b) PROVE BuilderInv'
<1>1. b \in DOMAIN builder /\ array' = array /\ BuilderType
  BY DEF Configure, Call, BuilderInv
<1>2. PICK v \in BOOLEAN : builder' = [builder EXCEPT ![b].errors = v] \/ builder' = [builder EXCEPT ![b].config = v]
  BY Zenon DEF Configure
<1>3. \A c \in DOMAIN builder : builder[c] \in Builders
  BY <1>1, BuilderTypes
<1>4. /\ DOMAIN builder' = DOMAIN builder
      /\ \A c \in DOMAIN builder : builder'[c] \in Builders /\ builder'[c].stages = builder[c].stages
  BY <1>1, <1>2, <1>3 DEF BuilderType, Builders
<1>5. BuilderType'
  BY <1>1, <1>2, <1>4 DEF BuilderType
<1>6. \A c \in DOMAIN builder : \A i \in DOMAIN builder'[c].stages :
        ~(c = b /\ i = 0) /\ i \in DOMAIN builder[c].stages /\ builder'[c].stages[i] = builder[c].stages[i]
  BY <1>1, <1>4, BuilderTypes
<1>7. NewSlice(b, 0)
  BY <1>1, <1>4, <1>6 DEF NewSlice
<1> QED BY <1>5, <1>7, OneNewSlice

LEMMA ResetInv == ASSUME BuilderInv, NEW b, Reset(b) PROVE BuilderInv'
<1>1. b \in DOMAIN builder /\ array' = array /\ BuilderType /\ builder' = [builder EXCEPT ![b] = Fresh]
  BY DEF Reset, Call, BuilderInv
<1>2. Fresh \in Builders /\ Fresh.stages = <<>>
  BY DEF Fresh, Builders
<1>3. /\ DOMAIN builder' = DOMAIN builder /\ builder' \in [DOMAIN builder -> Builders]
      /\ \A c \in DOMAIN builder : builder'[c].stages = IF c = b THEN <<>> ELSE builder[c].stages
  BY <1>1, <1>2 DEF BuilderType
<1>4. BuilderType'
  BY <1>1, <1>3 DEF BuilderType
<1>5. \A c \in DOMAIN builder : \A i \in DOMAIN builder'[c].stages :
        ~(c = b) /\ i \in DOMAIN builder[c].stages /\ builder'[c].stages[i] = builder[c].stages[i]
  BY <1>3
<1>6. NewSlice(b, 0)
  BY <1>1, <1>3, <1>5 DEF NewSlice
<1> QED BY <1>4, <1>6, OneNewSlice

LEMMA AddStageInv == ASSUME BuilderInv, NEW b, NEW t \in Templates, AddStage(b, t) PROVE BuilderInv'
<1> DEFINE L == builder[b].stages
           n == Len(L) + 1
           own == t.deps # <<>>
           s == [name |-> IF t.name = 0 THEN n ELSE t.name, known |-> t.known, optional |-> t.optional,
                 retry |-> t.retry, at |-> IF own THEN Len(array) + 1 ELSE 0, want |-> t.deps, spare |-> {}]
           a == [cap |-> Len(t.deps), cells |-> t.deps]
<1>1. /\ b \in DOMAIN builder /\ BuilderType
      /\ builder' = [builder EXCEPT ![b].stages = Append(@, s)]
      /\ array' = IF own THEN Append(array, a) ELSE array
  BY DEF AddStage, Call, BuilderInv
<1>2. t.name \in Nat /\ t.known \in BOOLEAN /\ t.optional \in BOOLEAN /\ t.retry \in Nat /\ t.deps \in Seq(Nat)
  BY BuilderAssumption
<1>3. /\ L \in Seq(StageRecord) /\ Len(L) \in Nat /\ Len(array) \in Nat /\ DOMAIN array = 1 .. Len(array)
      /\ DOMAIN L = 1 .. Len(L) /\ \A c \in DOMAIN builder : builder[c] \in Builders
  BY <1>1, BuilderTypes
<1>4. s \in StageRecord /\ s.at = (IF own THEN Len(array) + 1 ELSE 0) /\ s.want = t.deps /\ s.spare = {}
  <2>1. n \in Nat /\ Len(array) + 1 \in Nat /\ {} \in SUBSET Nat
    BY <1>3
  <2> QED BY <1>2, <2>1 DEF StageRecord
<1>5. a \in ArrayRecord /\ a.cells = t.deps
  BY <1>2 DEF ArrayRecord
<1> HIDE DEF s, a
<1>6. /\ Append(L, s) \in Seq(StageRecord) /\ DOMAIN Append(L, s) = 1 .. n /\ Append(L, s)[n] = s
      /\ \A i \in 1 .. Len(L) : Append(L, s)[i] = L[i]
  BY <1>3, <1>4, AppendProperties
<1>7. /\ DOMAIN builder' = DOMAIN builder
      /\ \A c \in DOMAIN builder : builder'[c] \in Builders /\ builder'[c].stages = IF c = b THEN Append(L, s) ELSE builder[c].stages
      /\ builder' \in [DOMAIN builder -> Builders]
  <2>1. /\ DOMAIN builder' = DOMAIN builder
        /\ \A c \in DOMAIN builder : builder'[c] = IF c = b THEN [builder[b] EXCEPT !.stages = Append(L, s)] ELSE builder[c]
        /\ builder' \in [DOMAIN builder -> {builder'[c] : c \in DOMAIN builder}]
    BY <1>1 DEF BuilderType
  <2>2. [builder[b] EXCEPT !.stages = Append(L, s)] \in Builders /\ [builder[b] EXCEPT !.stages = Append(L, s)].stages = Append(L, s)
    BY <1>1, <1>3, <1>6 DEF Builders
  <2> QED BY <1>3, <2>1, <2>2
<1>8. /\ array' \in Arrays /\ \A m \in DOMAIN array : m \in DOMAIN array' /\ array'[m] = array[m]
      /\ own => Len(array) + 1 \in DOMAIN array' /\ array'[Len(array) + 1] = a
  <2>1. array \in Seq(ArrayRecord)
    BY <1>1 DEF BuilderType, Arrays
  <2>2. CASE own
    BY <1>1, <1>3, <1>5, <2>1, <2>2, AppendProperties DEF Arrays
  <2> QED BY <1>1, <2>1, <2>2 DEF Arrays
<1>9. BuilderType'
  BY <1>1, <1>7, <1>8 DEF BuilderType
<1>10. SliceOK(array', s) /\ s.at \notin DOMAIN array
  BY <1>2, <1>3, <1>4, <1>5, <1>8 DEF SliceOK
<1>11. ASSUME NEW c \in DOMAIN builder, NEW i \in DOMAIN builder'[c].stages
       PROVE  IF c = b /\ i = n THEN builder'[c].stages[i] = s
              ELSE i \in DOMAIN builder[c].stages /\ builder'[c].stages[i] = builder[c].stages[i]
  <2>1. CASE c # b
    BY <1>7, <1>11, <2>1
  <2>2. CASE c = b
    <3>1. i \in 1 .. n /\ builder'[c].stages[i] = Append(L, s)[i] /\ L = builder[c].stages
      BY <1>6, <1>7, <1>11, <2>2
    <3> QED BY <1>3, <1>6, <2>2, <3>1
  <2> QED BY <2>1, <2>2
<1> HIDE DEF n
<1>12. NewSlice(b, n)
  BY <1>4, <1>7, <1>8, <1>10, <1>11 DEF NewSlice
<1> QED BY <1>9, <1>12, OneNewSlice

\* The dependencies of a well-formed slice.
LEMMA DependsOnIs ==
  ASSUME BuilderType, NEW s \in StageRecord, SliceOK(array, s)
  PROVE  /\ DependsOn(s) \in Seq(Nat) /\ Len(DependsOn(s)) = Len(s.want)
         /\ \A k \in (1 .. Len(s.want)) \ s.spare : DependsOn(s)[k] = s.want[k]
<1>1. CASE s.at = 0
  BY <1>1 DEF SliceOK, DependsOn
<1>2. CASE s.at # 0
  <2> DEFINE cells == array[s.at].cells
             n == Len(s.want)
  <2>1. cells \in Seq(Nat) /\ n \in Nat /\ n <= Len(cells)
    BY <1>2, BuilderTypes DEF SliceOK, ArrayRecord, StageRecord
  <2>2. DependsOn(s) = SubSeq(cells, 1, n) /\ \A k \in (1 .. n) \ s.spare : cells[k] = s.want[k]
    BY <1>2 DEF DependsOn, SliceOK
  <2> HIDE DEF cells, n
  <2>3. 1 \in Int /\ n \in Int /\ \A k \in 1 .. n : cells[k] \in Nat
    BY <2>1
  <2>4. DependsOn(s) \in Seq(Nat) /\ Len(DependsOn(s)) = n /\ \A k \in 1 .. n : DependsOn(s)[k] = cells[k]
    BY <2>1, <2>2, <2>3, SubSeqProperties
  <2> QED BY <2>2, <2>4 DEF n
<1> QED BY <1>1, <1>2

\* append to a slice that may share its array.
LEMMA DependInv ==
  ASSUME BuilderInv, NEW b \in DOMAIN builder, NEW i \in DOMAIN builder[b].stages, NEW dep \in Nat,
         Depend(b, i, dep, builder[b].stages)
  PROVE  BuilderInv'
<1> DEFINE L == builder[b].stages
           s == L[i]
           r == [s EXCEPT !.want = Append(@, dep), !.at = IF Room(s) THEN @ ELSE Len(array) + 1]
<1>1. /\ BuilderType /\ L \in Seq(StageRecord) /\ s \in StageRecord /\ SliceOK(array, s)
      /\ Len(array) \in Nat /\ DOMAIN array = 1 .. Len(array) /\ array \in Seq(ArrayRecord)
      /\ \A c \in DOMAIN builder : builder[c] \in Builders
  BY BuilderTypes DEF BuilderInv, BuilderType, Arrays
<1>2. /\ array' = IF Room(s) THEN [array EXCEPT ![s.at] = Written(s, dep)] ELSE Append(array, Grown(s, dep))
      /\ builder' = [builder EXCEPT ![b].stages = [L EXCEPT ![i] = r]]
  BY Zenon DEF Depend
<1> DEFINE want2 == Append(s.want, dep)
           at2 == IF Room(s) THEN s.at ELSE Len(array) + 1
<1>a. s.want \in Seq(Nat) /\ s.at \in Nat /\ Len(s.want) \in Nat
  <2> HIDE DEF s
  <2> QED BY <1>1 DEF StageRecord
<1>b. /\ want2 \in Seq(Nat) /\ Len(want2) = Len(s.want) + 1 /\ want2[Len(s.want) + 1] = dep
      /\ \A k \in 1 .. Len(s.want) : want2[k] = s.want[k]
  <2> HIDE DEF s
  <2> QED BY <1>a, AppendProperties
<1>c. at2 \in Nat
  BY <1>1, <1>a
<1>d. r = [s EXCEPT !.want = want2, !.at = at2]
  BY Zenon
<1> HIDE DEF s, want2, at2, r
<1>3. /\ r \in StageRecord /\ r.want = want2 /\ r.spare = s.spare
      /\ r.at = IF Room(s) THEN s.at ELSE Len(array) + 1
  <2>1. r \in StageRecord /\ r.want = want2 /\ r.spare = s.spare /\ r.at = at2
    BY <1>1, <1>b, <1>c, <1>d DEF StageRecord
  <2> QED BY <2>1 DEF at2
<1>4. Len(s.want) \in Nat /\ Len(r.want) = Len(s.want) + 1 /\ r.want[Len(s.want) + 1] = dep
      /\ \A k \in 1 .. Len(s.want) : r.want[k] = s.want[k]
  BY <1>a, <1>b, <1>3
<1> USE DEF s
<1>5. /\ [L EXCEPT ![i] = r] \in Seq(StageRecord) /\ DOMAIN [L EXCEPT ![i] = r] = DOMAIN L
      /\ \A j \in DOMAIN L : [L EXCEPT ![i] = r][j] = IF j = i THEN r ELSE L[j]
  BY <1>1, <1>3
<1>6. /\ DOMAIN builder' = DOMAIN builder
      /\ \A c \in DOMAIN builder : builder'[c] \in Builders /\ builder'[c].stages = IF c = b THEN [L EXCEPT ![i] = r] ELSE builder[c].stages
      /\ builder' \in [DOMAIN builder -> Builders]
  <2> DEFINE L2 == [L EXCEPT ![i] = r]
  <2> HIDE DEF L2
  <2>1. /\ DOMAIN builder' = DOMAIN builder
        /\ \A c \in DOMAIN builder : builder'[c] = IF c = b THEN [builder[b] EXCEPT !.stages = L2] ELSE builder[c]
        /\ builder' \in [DOMAIN builder -> {builder'[c] : c \in DOMAIN builder}]
    BY <1>1, <1>2 DEF BuilderType, L2
  <2>2. [builder[b] EXCEPT !.stages = L2] \in Builders /\ [builder[b] EXCEPT !.stages = L2].stages = L2
    BY <1>1, <1>5 DEF Builders, L2
  <2> QED BY <1>1, <2>1, <2>2 DEF L2
<1>7. \A c \in DOMAIN builder : /\ DOMAIN builder'[c].stages = DOMAIN builder[c].stages
                                /\ \A j \in DOMAIN builder[c].stages :
                                     builder'[c].stages[j] = IF c = b /\ j = i THEN r ELSE builder[c].stages[j]
  BY <1>5, <1>6
<1>8. "clone" \in DOMAIN builder \/ r.spare = {}
  BY <1>1, <1>3, BuilderTypes DEF BuilderInv
<1> HIDE DEF s, L
<1>9. CASE ~Room(s)
  <2> DEFINE g == Grown(s, dep)
  <2>1. DependsOn(s) \in Seq(Nat) /\ Len(DependsOn(s)) = Len(s.want) /\ \A k \in (1 .. Len(s.want)) \ s.spare : DependsOn(s)[k] = s.want[k]
    BY <1>1, DependsOnIs
  <2>2. g.cells = Append(DependsOn(s), dep) /\ g \in ArrayRecord
    <3>1. (IF s.at = 0 THEN 1 ELSE 2 * array[s.at].cap) \in Nat
      <4>1. CASE s.at # 0
        <5>1. array[s.at].cap \in Nat
          BY <1>1, <4>1, BuilderTypes DEF SliceOK, ArrayRecord
        <5> QED BY <4>1, <5>1
      <4> QED BY <4>1
    <3> QED BY <2>1, <3>1 DEF Grown, Added, ArrayRecord
  <2> HIDE DEF g
  <2>3. /\ array' \in Seq(ArrayRecord) /\ \A m \in DOMAIN array : m \in DOMAIN array' /\ array'[m] = array[m]
        /\ Len(array) + 1 \in DOMAIN array' /\ array'[Len(array) + 1] = g
    BY <1>1, <1>2, <1>9, <2>2, AppendProperties DEF g
  <2>4. /\ Len(g.cells) = Len(s.want) + 1 /\ g.cells[Len(s.want) + 1] = dep
        /\ \A k \in (1 .. Len(s.want)) \ s.spare : g.cells[k] = s.want[k]
    BY <1>4, <2>1, <2>2, AppendProperties
  <2>5. r.at = Len(array) + 1 /\ r.at # 0 /\ r.at \notin DOMAIN array
    BY <1>1, <1>3, <1>9
  <2>6. SliceOK(array', r)
    <3>1. \A k \in (1 .. Len(r.want)) \ r.spare : g.cells[k] = r.want[k]
      BY <1>3, <1>4, <2>4
    <3> QED BY <1>3, <1>4, <2>3, <2>4, <2>5, <3>1 DEF SliceOK
  <2>7. NewSlice(b, i)
    BY <1>6, <1>7, <1>8, <2>3, <2>5, <2>6 DEF NewSlice
  <2>8. BuilderType'
    BY <1>1, <1>6, <2>3 DEF BuilderType, Arrays
  <2> QED BY <2>7, <2>8, OneNewSlice
<1>10. CASE Room(s)
  <2> DEFINE w == Written(s, dep)
             n == Len(s.want) + 1
  <2>1. /\ s.at # 0 /\ s.at \in DOMAIN array /\ Len(s.want) <= Len(array[s.at].cells)
        /\ Len(s.want) < array[s.at].cap /\ array[s.at] \in ArrayRecord
    BY <1>1, <1>10, BuilderTypes DEF Room, SliceOK
  <2>2. /\ w \in ArrayRecord /\ w.cap = array[s.at].cap
        /\ Len(w.cells) >= Len(array[s.at].cells) /\ Len(w.cells) >= n /\ w.cells[n] = dep
        /\ \A k \in (1 .. Len(array[s.at].cells)) \ {n} : w.cells[k] = array[s.at].cells[k]
    BY <1>1, <2>1, WrittenIs DEF Arrays, ArrayRecord
  <2> HIDE DEF w, n
  <2>3. /\ array' \in Seq(ArrayRecord) /\ DOMAIN array' = DOMAIN array
        /\ \A m \in DOMAIN array : array'[m] = (IF m = s.at THEN w ELSE array[m]) /\ array'[m].cap = array[m].cap
    BY <1>1, <1>2, <1>10, <2>1, <2>2 DEF w
  <2>4. BuilderType'
    BY <1>1, <1>6, <2>3 DEF BuilderType, Arrays
  <2>5. r.at = s.at
    BY <1>3, <1>10
  <2>6. Len(array[s.at].cells) \in Nat /\ Len(w.cells) \in Nat /\ array[s.at].cap \in Nat /\ n \in Nat /\ n = Len(s.want) + 1
    <3>1. array[s.at].cells \in Seq(Nat) /\ w.cells \in Seq(Nat) /\ array[s.at].cap \in Nat
      BY <2>1, <2>2 DEF ArrayRecord
    <3>2. n = Len(s.want) + 1 /\ Len(s.want) \in Nat
      BY <1>4 DEF n
    <3> QED BY <3>1, <3>2, LenProperties
  <2>7. SliceOK(array', r)
    <3>1. \A k \in (1 .. Len(s.want)) \ s.spare : array[s.at].cells[k] = s.want[k]
      BY <1>1, <2>1 DEF SliceOK
    <3>2. ASSUME NEW k \in (1 .. Len(r.want)) \ r.spare PROVE w.cells[k] = r.want[k]
      <4>1. CASE k = n
        BY <1>4, <2>2, <2>6, <4>1
      <4>2. CASE k # n
        <5>1. k \in 1 .. Len(s.want) /\ k \notin s.spare /\ k \in (1 .. Len(array[s.at].cells)) \ {n}
          BY <1>3, <1>4, <2>1, <2>6, <3>2, <4>2
        <5>2. w.cells[k] = array[s.at].cells[k] /\ array[s.at].cells[k] = s.want[k] /\ r.want[k] = s.want[k]
          BY <1>4, <2>2, <3>1, <5>1
        <5> QED BY <5>2
      <4> QED BY <4>1, <4>2
    <3> QED BY <1>3, <1>4, <2>1, <2>2, <2>3, <2>5, <2>6, <3>2 DEF SliceOK
  <2>8. ASSUME NEW c \in DOMAIN builder, NEW j \in DOMAIN builder[c].stages, ~(c = b /\ j = i)
        PROVE  /\ builder[c].stages[j].at = s.at => c # b /\ Twins(array, s, builder[c].stages[j])
               /\ SliceOK(array', builder[c].stages[j])
    <3> DEFINE o == builder[c].stages[j]
    <3>1. SliceOK(array, o) /\ o \in StageRecord
      BY <1>1, BuilderTypes DEF BuilderInv
    <3>2. o.at = s.at => c # b /\ Twins(array, s, o)
      BY <2>1, <2>8 DEF BuilderInv, L, s
    <3> HIDE DEF o
    <3>3. Len(o.want) \in Nat
      BY <3>1 DEF StageRecord
    <3>4. CASE o.at = s.at
      <4>1. PICK m \in Nat : m <= Len(s.want) /\ o.spare = (m + 1) .. array[s.at].cap
        BY <3>2, <3>4 DEF Twins
      <4>2. n \in o.spare
        BY <1>4, <2>1, <2>6, <4>1
      <4>3. Len(o.want) <= Len(array[s.at].cells) /\ \A k \in (1 .. Len(o.want)) \ o.spare : array[s.at].cells[k] = o.want[k]
        BY <2>1, <3>1, <3>4 DEF SliceOK
      <4>4. \A k \in (1 .. Len(o.want)) \ o.spare : w.cells[k] = o.want[k]
        BY <2>2, <2>6, <3>3, <4>2, <4>3
      <4>5. o.at # 0 /\ o.at \in DOMAIN array' /\ array'[o.at] = w
        BY <2>1, <2>3, <3>4
      <4>6. Len(o.want) <= Len(w.cells)
        BY <2>2, <2>6, <3>3, <4>3
      <4>7. SliceOK(array', o)
        BY <4>4, <4>5, <4>6 DEF SliceOK
      <4> QED BY <3>2, <4>7 DEF o
    <3>5. CASE o.at # s.at
      <4>1. SliceOK(array', o)
        BY <2>3, <3>1, <3>5 DEF SliceOK
      <4> QED BY <3>5, <4>1 DEF o
    <3> QED BY <3>4, <3>5
  <2>9. \A c \in DOMAIN builder' : \A j \in DOMAIN builder'[c].stages : SliceOK(array', builder'[c].stages[j])
    BY <1>6, <1>7, <2>7, <2>8
  <2>10. ASSUME NEW c \in DOMAIN builder, NEW d \in DOMAIN builder,
                NEW j \in DOMAIN builder[c].stages, NEW k \in DOMAIN builder[d].stages,
                builder'[c].stages[j].at # 0, builder'[c].stages[j].at = builder'[d].stages[k].at, c # d \/ j # k
         PROVE  c # d /\ Twins(array', builder'[c].stages[j], builder'[d].stages[k])
    <3> DEFINE p == builder[c].stages[j]
               q == builder[d].stages[k]
               p2 == builder'[c].stages[j]
               q2 == builder'[d].stages[k]
    <3>1. /\ p2.at = p.at /\ p2.spare = p.spare /\ p2.at \in DOMAIN array
          /\ q2.at = q.at /\ q2.spare = q.spare
          /\ Len(p.want) \in Nat /\ Len(q.want) \in Nat /\ Len(p2.want) \in Nat /\ Len(q2.want) \in Nat
          /\ Len(p.want) <= Len(p2.want) /\ Len(q.want) <= Len(q2.want)
      <4>1. /\ p2 = (IF c = b /\ j = i THEN r ELSE p) /\ q2 = (IF d = b /\ k = i THEN r ELSE q)
            /\ c = b /\ j = i => p = s
            /\ d = b /\ k = i => q = s
        BY <1>7 DEF s, L
      <4>2. p \in StageRecord /\ q \in StageRecord
        BY <1>1, BuilderTypes
      <4>3. SliceOK(array', p2)
        BY <1>6, <1>7, <2>9
      <4> HIDE DEF p, q, p2, q2
      <4>4. p2.at \in DOMAIN array
        BY <2>3, <2>10, <4>3 DEF SliceOK, p2
      <4>5. Len(p.want) \in Nat /\ Len(q.want) \in Nat
        BY <4>2 DEF StageRecord
      <4> QED BY <1>3, <1>4, <2>5, <4>1, <4>4, <4>5
    <3>2. c # d /\ Twins(array, p, q)
      BY <2>10, <3>1 DEF BuilderInv
    <3> HIDE DEF p, q, p2, q2
    <3>3. PICK m \in Nat : m <= Len(p.want) /\ m <= Len(q.want) /\ p.spare = (m + 1) .. array[p.at].cap /\ q.spare = p.spare
      BY <3>2 DEF Twins
    <3>4. array'[p2.at].cap = array[p.at].cap
      BY <2>3, <3>1
    <3>5. m <= Len(p2.want) /\ m <= Len(q2.want) /\ p2.spare = (m + 1) .. array'[p2.at].cap /\ q2.spare = p2.spare
      BY <3>1, <3>3, <3>4
    <3> QED BY <3>2, <3>5 DEF Twins, p2, q2
  <2>11. ASSUME "clone" \notin DOMAIN builder' PROVE \A j \in DOMAIN builder'["own"].stages : builder'["own"].stages[j].spare = {}
    BY <1>1, <1>6, <1>7, <1>8, <2>11, BuilderTypes DEF BuilderInv
  <2> QED BY <1>6, <1>7, <2>4, <2>9, <2>10, <2>11 DEF BuilderInv
<1> QED BY <1>9, <1>10

\* Clone makes every slice with an array a pair, and remembers what is free.
LEMMA CloneInv == ASSUME BuilderInv, Clone PROVE BuilderInv'
<1> DEFINE L == builder["own"].stages
           F(i) == [L[i] EXCEPT !.spare = Free(L[i])]
           both == [i \in DOMAIN L |-> F(i)]
<1>1. /\ BuilderType /\ DOMAIN builder = {"own"} /\ array' = array
      /\ builder' = [b \in {"own", "clone"} |-> [builder["own"] EXCEPT !.stages = both]]
  BY Zenon DEF Clone, BuilderInv
<1>2. /\ L \in Seq(StageRecord) /\ Len(L) \in Nat /\ DOMAIN L = 1 .. Len(L) /\ builder["own"] \in Builders
      /\ \A i \in DOMAIN L : L[i] \in StageRecord /\ SliceOK(array, L[i]) /\ L[i].spare = {}
      /\ \A i, j \in DOMAIN L : (L[i].at # 0 /\ L[i].at = L[j].at) => i = j
  BY <1>1, BuilderTypes DEF BuilderInv
<1>3. ASSUME NEW i \in DOMAIN L
      PROVE  /\ F(i) \in StageRecord /\ F(i).at = L[i].at /\ F(i).want = L[i].want /\ F(i).spare \in SUBSET Nat
             /\ L[i].at # 0 => F(i).spare = (Len(L[i].want) + 1) .. array[L[i].at].cap
             /\ Len(L[i].want) \in Nat
  <2> DEFINE s == L[i]
  <2>1. s \in StageRecord /\ SliceOK(array, s)
    BY <1>2
  <2> HIDE DEF s
  <2>2. Len(s.want) \in Nat
    BY <2>1 DEF StageRecord
  <2>3. s.at # 0 => array[s.at].cap \in Nat
    BY <1>1, <2>1, BuilderTypes DEF SliceOK, ArrayRecord
  <2>4. Free(s) \in SUBSET Nat /\ (s.at # 0 => Free(s) = (Len(s.want) + 1) .. array[s.at].cap)
    BY <2>2, <2>3 DEF Free
  <2>5. [s EXCEPT !.spare = Free(s)] \in StageRecord /\ [s EXCEPT !.spare = Free(s)].at = s.at
        /\ [s EXCEPT !.spare = Free(s)].want = s.want /\ [s EXCEPT !.spare = Free(s)].spare = Free(s)
    BY <2>1, <2>4 DEF StageRecord
  <2> QED BY <2>2, <2>4, <2>5 DEF s
<1>4. both \in Seq(StageRecord) /\ DOMAIN both = DOMAIN L /\ \A i \in DOMAIN L : both[i] = F(i)
  <2> HIDE DEF F
  <2>1. both \in [1 .. Len(L) -> StageRecord]
    BY <1>2, <1>3
  <2> QED BY <1>2, <2>1
<1> HIDE DEF F, both
<1>5. /\ DOMAIN builder' = {"own", "clone"} /\ builder' \in [DOMAIN builder' -> Builders]
      /\ \A b \in DOMAIN builder' : builder'[b].stages = both
  <2>1. [builder["own"] EXCEPT !.stages = both] \in Builders /\ [builder["own"] EXCEPT !.stages = both].stages = both
    BY <1>2, <1>4 DEF Builders
  <2> QED BY <1>1, <2>1
<1>6. BuilderType'
  BY <1>1, <1>5 DEF BuilderType
<1>7. ASSUME NEW i \in DOMAIN L PROVE SliceOK(array, both[i])
  <2>1. SliceOK(array, L[i]) /\ L[i].spare = {} /\ both[i].at = L[i].at /\ both[i].want = L[i].want
    BY <1>2, <1>3, <1>4
  <2> QED BY <2>1 DEF SliceOK
<1>8. ASSUME NEW i \in DOMAIN L, NEW j \in DOMAIN L, both[i].at # 0, both[i].at = both[j].at
      PROVE  i = j /\ Twins(array, both[i], both[j])
  <2>1. i = j
    BY <1>2, <1>3, <1>4, <1>8
  <2>2. both[i].spare = (Len(both[i].want) + 1) .. array[both[i].at].cap /\ Len(both[i].want) \in Nat
    BY <1>3, <1>4, <1>8
  <2> QED BY <2>1, <2>2 DEF Twins
<1> HIDE DEF L
<1> QED BY <1>1, <1>4, <1>5, <1>6, <1>7, <1>8 DEF BuilderInv

LEMMA BuildsInv == ASSUME BuilderInv, Builds PROVE BuilderInv'
<1>1. Names \subseteq Nat
  BY BuilderAssumption DEF Names
<1>2. ASSUME NEW b, NEW name \in Names, NEW dep \in Names, WithStageDependency(b, name, dep) PROVE BuilderInv'
  <2>1. b \in DOMAIN builder
    BY <1>2 DEF WithStageDependency, Call
  <2>2. PICK i \in Named(builder[b].stages, name) : Depend(b, i, dep, builder[b].stages)
    BY <1>2 DEF WithStageDependency
  <2>3. i \in DOMAIN builder[b].stages
    BY DEF Named
  <2> QED BY <1>1, <2>1, <2>2, <2>3, DependInv
<1> QED BY <1>2, ConfigureInv, ResetInv, CloneInv, AddStageInv DEF Builds
-----------------------------------------------------------------------------
(* The stage executor *)

StageSpec == StageInit /\ [][StageNext]_stageVars

StageResult == [status : {"completed", "failed", "timed_out", "cancelled"},
                cause : {"live", "Canceled", "DeadlineExceeded"}]
BuiltStage == [name : Nat, known : BOOLEAN, optional : BOOLEAN, retry : Nat]

\* A stage s with the result r lets later stages run.
LetsPass(r, s) ==
  \/ r.status = "completed"
  \/ r.status = "failed" /\ s.optional
  \/ r.status \in {"timed_out", "cancelled"} /\ r.cause = "DeadlineExceeded"

(***************************************************************************)
(* Once a stage is cancelled with its caller, no later one gets past its   *)
(* first check: its context is cancelled before it begins.                 *)
(***************************************************************************)
StageInv ==
  /\ stages \in Seq(BuiltStage) /\ stageResults \in Seq(StageResult)
  /\ step \in {"idle", "handler", "check", "backoff", "call", "over"}
  /\ ctx \in {"live", "Canceled", "DeadlineExceeded"} /\ stopped \in BOOLEAN
  /\ IF InStage THEN Len(stageResults) < Len(stages) ELSE stageResults = <<>>
  /\ ctx = "Canceled" => stopped
  /\ \A i \in 1 .. Len(stageResults) :
       LetsPass(stageResults[i], stages[i]) \/ (stopped /\ ctx = "Canceled" /\ step \in {"handler", "check"})

\* A stage ends: with a failure that is let pass only if it is optional, and
\* cancelled by the caller only when the caller's context is.
LEMMA FinishInv ==
  ASSUME StageInv, InStage, NEW status \in {"completed", "failed", "timed_out", "cancelled"}, Finish(status),
         status = "timed_out" => ctx = "DeadlineExceeded",
         status = "cancelled" => ctx # "live",
         step \notin {"handler", "check"} \/ status # "completed"
  PROVE  StageInv'
<1>1. CASE EndsLoop(status)
  <2>1. /\ step' = "over" /\ ctx' = "live" /\ stopped' = FALSE /\ stages' = <<>> /\ stageResults' = <<>>
        /\ Len(stageResults') = 0
    BY <1>1 DEF Finish
  <2>2. ~InStage' /\ \A i \in 1 .. Len(stageResults') : FALSE
    BY <2>1 DEF InStage
  <2> QED BY <2>1, <2>2, EmptySeq DEF StageInv
<1>2. CASE ~EndsLoop(status)
  <2> DEFINE r == [status |-> status, cause |-> ctx]
             n == Len(stageResults)
  <2>1. /\ step' = "handler" /\ ctx' = (IF stopped THEN "Canceled" ELSE "live") /\ stages' = stages /\ stopped' = stopped
        /\ stageResults' = Append(stageResults, r)
    BY <1>2 DEF Finish
  <2>2. r \in StageResult /\ r.status = status /\ r.cause = ctx
    BY DEF StageInv, StageResult
  <2> HIDE DEF r
  <2>3. /\ n \in Nat /\ Len(stageResults') = n + 1 /\ stageResults' \in Seq(StageResult) /\ stageResults'[n + 1] = r
        /\ \A i \in 1 .. n : stageResults'[i] = stageResults[i]
    BY <2>1, <2>2, AppendProperties DEF StageInv
  <2>4. n + 1 < Len(stages) /\ Len(stages) \in Nat /\ ~(status = "failed" /\ ~stages[n + 1].optional)
    BY <1>2, <2>3 DEF EndsLoop, Breaks, Stage, StageInv
  <2> HIDE DEF n
  <2>5. ASSUME NEW i \in 1 .. n PROVE LetsPass(stageResults'[i], stages'[i]) \/ stopped
    <3>1. LetsPass(stageResults[i], stages[i]) \/ stopped
      BY <2>5 DEF StageInv, n
    <3> QED BY <2>1, <2>3, <2>5, <3>1 DEF LetsPass
  <2>6. LetsPass(stageResults'[n + 1], stages'[n + 1]) \/ stopped
    <3>1. stageResults'[n + 1].status = status /\ stageResults'[n + 1].cause = ctx /\ stages'[n + 1] = stages[n + 1]
      BY <2>1, <2>2, <2>3
    <3> QED BY <2>4, <3>1 DEF LetsPass, StageInv
  <2>7. \A i \in 1 .. Len(stageResults') : LetsPass(stageResults'[i], stages'[i]) \/ (stopped' /\ ctx' = "Canceled")
    <3> TAKE i \in 1 .. Len(stageResults')
    <3>1. i \in 1 .. n \/ i = n + 1
      BY <2>3
    <3>2. LetsPass(stageResults'[i], stages'[i]) \/ stopped
      <4>1. CASE i \in 1 .. n
        BY <2>5, <4>1
      <4>2. CASE i = n + 1
        BY <2>6, <4>2
      <4> QED BY <3>1, <4>1, <4>2
    <3>3. stopped => stopped' /\ ctx' = "Canceled"
      BY <2>1
    <3> QED BY Zenon, <3>2, <3>3
  <2> QED BY <2>1, <2>3, <2>4, <2>7 DEF StageInv, InStage
<1> QED BY <1>1, <1>2

\* From where it is, the executor goes on to a step from which a cancelled run
\* cannot call a handler.
LEMMA GotoInv ==
  ASSUME StageInv, InStage, NEW to \in {"handler", "check", "backoff", "call"},
         UNCHANGED <<stages, stageResults, ctx, stopped>>, step' = to,
         to = "check" \/ ctx # "Canceled" \/ step \notin {"handler", "check"}
  PROVE  StageInv'
BY DEF StageInv, InStage, LetsPass

\* The builders are handed over: what they leave is as at the start.
LEMMA ExecuteInv ==
  ASSUME StageInv, BuilderInv, NEW b \in DOMAIN builder, ExecutePipelineStages(b)
  PROVE  StageInv' /\ BuilderInv'
<1> DEFINE L == builder[b].stages
           F(i) == [name |-> L[i].name, known |-> L[i].known, optional |-> L[i].optional, retry |-> L[i].retry]
<1>1. /\ stages' = [i \in DOMAIN L |-> F(i)] /\ step = "idle" /\ step' = "handler" /\ L # <<>>
      /\ builder' = [a \in {"own"} |-> Fresh] /\ array' = <<>>
      /\ UNCHANGED <<stageResults, ctx, stopped>>
  BY DEF ExecutePipelineStages, Build
<1>2. L \in Seq(StageRecord) /\ Len(L) \in Nat /\ DOMAIN L = 1 .. Len(L) /\ \A i \in DOMAIN L : L[i] \in StageRecord
  BY BuilderTypes DEF BuilderInv
<1>3. \A i \in DOMAIN L : F(i) \in BuiltStage
  BY <1>2 DEF StageRecord, BuiltStage
<1> HIDE DEF F, L
<1>4. stages' \in [1 .. Len(L) -> BuiltStage]
  BY <1>1, <1>2, <1>3
<1>5. stages' \in Seq(BuiltStage) /\ Len(stages') = Len(L) /\ Len(L) > 0
  BY <1>1, <1>2, <1>4
<1>6. StageInv'
  BY <1>1, <1>2, <1>5 DEF StageInv, InStage, LetsPass
<1>7. DOMAIN builder' = {"own"} /\ builder'["own"] = Fresh
  BY <1>1
<1>8. Fresh \in Builders /\ Fresh.stages = <<>>
  BY DEF Fresh, Builders
<1>9. BuilderType'
  BY <1>1, <1>7, <1>8 DEF BuilderType, Arrays
<1>10. BuilderInv'
  BY <1>7, <1>8, <1>9 DEF BuilderInv
<1> QED BY <1>6, <1>10

LEMMA StepStageInv == StageInv /\ BuilderInv /\ [StageNext]_stageVars => StageInv' /\ BuilderInv'
<1> SUFFICES ASSUME StageInv, BuilderInv, [StageNext]_stageVars PROVE StageInv' /\ BuilderInv'
  OBVIOUS
<1>0. UNCHANGED builderVars => BuilderInv'
  BY DEF builderVars, BuilderInv, BuilderType, SliceOK, Twins
<1>1. UNCHANGED execVars => StageInv'
  BY DEF execVars, StageInv, InStage, LetsPass
<1>2. CASE UNCHANGED stageVars
  BY <1>0, <1>1, <1>2 DEF stageVars
<1>3. CASE Builds /\ UNCHANGED execVars
  BY <1>1, <1>3, BuildsInv
<1>4. CASE Cancel
  BY <1>0, <1>4 DEF Cancel, StageInv, InStage, LetsPass
<1>5. CASE Expire
  BY <1>0, <1>5 DEF Expire, StageInv, InStage, LetsPass
<1>6. \A status : Finish(status) => BuilderInv'
  BY <1>0 DEF Finish
<1>7. \A to : Goto(to) => BuilderInv' /\ step' = to /\ UNCHANGED <<stages, stageResults, ctx, stopped>>
  BY <1>0 DEF Goto, builderVars
<1>8. CASE GetHandler
  <2>1. InStage /\ step = "handler"
    BY <1>8 DEF GetHandler, InStage
  <2>2. CASE Goto("check")
    BY <1>7, <2>1, <2>2, GotoInv
  <2>3. CASE Finish("failed")
    BY <1>6, <2>1, <2>3, FinishInv
  <2> QED BY <1>8, <2>2, <2>3 DEF GetHandler
<1>9. CASE CheckContext
  <2>1. InStage /\ step = "check" /\ ctx \in {"live", "Canceled", "DeadlineExceeded"}
    BY <1>9 DEF CheckContext, InStage, StageInv
  <2>2. CASE ctx = "Canceled" /\ Finish("cancelled")
    BY <1>6, <2>1, <2>2, FinishInv
  <2>3. CASE ctx = "DeadlineExceeded" /\ Finish("timed_out")
    BY <1>6, <2>1, <2>3, FinishInv
  <2>4. CASE ctx = "live" /\ Goto("backoff")
    BY <1>7, <2>1, <2>4, GotoInv
  <2>5. CASE ctx = "live" /\ Goto("call")
    BY <1>7, <2>1, <2>5, GotoInv
  <2> QED BY <1>9, <2>1, <2>2, <2>3, <2>4, <2>5 DEF CheckContext
<1>10. CASE Backoff
  <2>1. InStage /\ step = "backoff"
    BY <1>10 DEF Backoff, InStage
  <2>2. CASE ctx # "live" /\ Finish("cancelled")
    BY <1>6, <2>1, <2>2, FinishInv
  <2>3. CASE Goto("call")
    BY <1>7, <2>1, <2>3, GotoInv
  <2> QED BY <1>10, <2>2, <2>3 DEF Backoff
<1>11. CASE CallHandler
  <2>1. InStage /\ step = "call"
    BY <1>11 DEF CallHandler, InStage
  <2>2. CASE Finish("completed")
    BY <1>6, <2>1, <2>2, FinishInv
  <2>3. CASE Finish("failed")
    BY <1>6, <2>1, <2>3, FinishInv
  <2>4. CASE step' = "check" /\ UNCHANGED <<builderVars, stages, stageResults, ctx, stopped>>
    BY <1>0, <2>1, <2>4, GotoInv
  <2> QED BY <1>11, <2>2, <2>3, <2>4 DEF CallHandler
<1> QED BY <1>2, <1>3, <1>4, <1>5, <1>8, <1>9, <1>10, <1>11, ExecuteInv DEF StageNext, StageStep

LEMMA StageInvariance == StageSpec => [](StageInv /\ BuilderInv)
<1>1. StageInit => StageInv /\ BuilderInv
  <2> SUFFICES ASSUME StageInit PROVE StageInv /\ BuilderInv
    OBVIOUS
  <2>1. ~InStage /\ Len(stageResults) = 0 /\ \A i \in 1 .. Len(stageResults) : FALSE
    BY DEF StageInit, InStage
  <2>2. StageInv
    BY <2>1, EmptySeq DEF StageInit, StageInv
  <2> QED BY <2>2, InitBuilderInv DEF StageInit
<1> QED BY <1>1, StepStageInv, PTL DEF StageSpec

(***************************************************************************)
(* For any stages and any number of calls of the builders: a handler is    *)
(* called only when every stage before its own has completed, was optional *)
(* and failed, or ran out of time.                                         *)
(***************************************************************************)
THEOREM StagesRunPast == StageSpec => []RunsPast
<1>1. StageInv => RunsPast
  <2> SUFFICES ASSUME StageInv, step = "call" PROVE \A i \in DOMAIN stageResults : LetsPass(stageResults[i], stages[i])
    BY DEF RunsPast, LetsPass
  <2>1. DOMAIN stageResults = 1 .. Len(stageResults)
    BY DEF StageInv
  <2> QED BY <2>1 DEF StageInv
<1> QED BY <1>1, StageInvariance, PTL

(***************************************************************************)
(* Whatever a builder and its clone are asked for, in whatever order:      *)
(* no dependency is lost, and none differs from what was asked for except  *)
(* at a place that was free in the shared array when Clone was called.     *)
(***************************************************************************)
THEOREM DependenciesKept == StageSpec => []DependenciesAsAsked
<1>1. BuilderInv => DependenciesAsAsked
  <2> SUFFICES ASSUME BuilderInv, NEW b \in DOMAIN builder, NEW i \in DOMAIN builder[b].stages
               PROVE  LET s == builder[b].stages[i] IN
                      Len(DependsOn(s)) = Len(s.want) /\ \A k \in DOMAIN s.want \ s.spare : DependsOn(s)[k] = s.want[k]
    BY DEF DependenciesAsAsked
  <2> DEFINE s == builder[b].stages[i]
  <2>1. s \in StageRecord /\ SliceOK(array, s) /\ BuilderType
    BY BuilderTypes DEF BuilderInv
  <2> HIDE DEF s
  <2>2. DOMAIN s.want = 1 .. Len(s.want)
    BY <2>1 DEF StageRecord
  <2>3. Len(DependsOn(s)) = Len(s.want) /\ \A k \in (1 .. Len(s.want)) \ s.spare : DependsOn(s)[k] = s.want[k]
    BY <2>1, DependsOnIs
  <2> QED BY <2>2, <2>3 DEF s
<1> QED BY <1>1, StageInvariance, PTL
=============================================================================
