---------------------------- MODULE WorkerProofs -----------------------------
(***************************************************************************)
(* Proofs about the worker pool and the worker program, for all numbers of *)
(* workers, tasks, queues, consumers and connections.                      *)
(***************************************************************************)
EXTENDS WorkerPool, WorkerCommand, FiniteSetTheorems, SequenceTheorems, TLAPS

-----------------------------------------------------------------------------
(* The pool *)

PoolType ==
  /\ running \in BOOLEAN /\ stuck \in BOOLEAN
  /\ starts \in 0 .. MaxStarts /\ adding \in Nat
  /\ workers \in Seq(Nat) /\ seq \in Nat /\ taskCh \in Seq(Tasks)
  /\ loop \in [Loops -> {"off", "wait", "scale", "up", "down", "cut", "stuck"}]
  /\ quota \in [Loops -> Int]

\* Before the first Start nothing is there.
Unborn == starts = 0 =>
  /\ ~running /\ adding = 0 /\ workers = <<>> /\ ~stuck
  /\ \A g \in Loops : loop[g] = "off"

\* In the first run Start adds its workers before its loop begins; then the loop is
\* the only one to change the list, and what it decided on the length it read still
\* fits when it acts.
FirstRun == (starts = 1 /\ running) =>
  /\ ~stuck /\ \A g \in Loops : g # 1 => loop[g] = "off"
  /\ adding > 0 => loop[1] = "off" /\ Len(workers) + adding = MinWorkers
  /\ adding = 0 =>
       /\ Len(workers) \in MinWorkers .. MaxWorkers
       /\ loop[1] = "up" => quota[1] >= 1 /\ Len(workers) + quota[1] <= MaxWorkers
       /\ loop[1] = "cut" => quota[1] >= MinWorkers

\* Stop empties the list of a pool that does not run: Start waits for it to return.
StopsFirst == stopPc \in {"waiting", "lock"} => ~running

PoolInv == PoolType /\ Unborn /\ FirstRun /\ StopsFirst

\* What scale() adds fits under MaxWorkers, and is not nothing.
LEMMA UpByFits ==
  ASSUME NEW total \in Nat, total < MaxWorkers
  PROVE  UpBy(total) \in Nat /\ UpBy(total) >= 1 /\ total + UpBy(total) <= MaxWorkers
BY PoolAssumption DEF UpBy, ScaleBy

\* Scaling down leaves MinWorkers.
LEMMA RemoveFromFloor ==
  ASSUME NEW total \in Nat
  PROVE  RemoveFrom(total) \in Nat /\ RemoveFrom(total) >= MinWorkers
BY PoolAssumption DEF RemoveFrom, ScaleBy

\* addWorker makes the list one longer.
LEMMA AddWorkerGrows ==
  ASSUME PoolType, AddWorker
  PROVE  /\ ~stuck /\ seq' \in Nat
         /\ workers' \in Seq(Nat) /\ Len(workers') = Len(workers) + 1 /\ Len(workers) \in Nat
<1>1. seq + 1 \in Nat /\ workers \in Seq(Nat)
  BY DEF PoolType
<1>2. Append(workers, seq + 1) \in Seq(Nat) /\ Len(Append(workers, seq + 1)) = Len(workers) + 1
  BY <1>1, AppendProperties
<1> QED BY <1>1, <1>2, LenProperties DEF AddWorker

\* The types of the pool.
LEMMA PoolTypeKept ==
  ASSUME PoolType, Next
  PROVE  PoolType'
<1> USE PoolAssumption DEF PoolType, pool, tasks, scaler
<1>1. CASE Start
  BY <1>1 DEF Start
<1>2. CASE StartAdds
  <2>1. seq' \in Nat /\ workers' \in Seq(Nat)
    BY <1>2, AddWorkerGrows DEF StartAdds
  <2>2. loop' \in [Loops -> {"off", "wait", "scale", "up", "down", "cut", "stuck"}]
    BY <1>2 DEF StartAdds
  <2>3. adding' \in Nat
    BY <1>2 DEF StartAdds
  <2> QED BY <1>2, <2>1, <2>2, <2>3 DEF StartAdds
<1>3. CASE Stop \/ StopWaited
  BY <1>3 DEF Stop, StopWaited
<1>4. CASE StopForgets
  BY <1>4, EmptySeq DEF StopForgets
<1>5. ASSUME NEW t \in Tasks, SubmitChecks(t) \/ SubmitSends(t) PROVE PoolType'
  <2>1. taskCh' \in Seq(Tasks)
    <3>1. UNCHANGED taskCh \/ taskCh' = Append(taskCh, t)
      BY <1>5 DEF SubmitChecks, SubmitSends
    <3>2. Append(taskCh, t) \in Seq(Tasks)
      BY AppendProperties
    <3> QED BY <3>1, <3>2
  <2> QED BY <1>5, <2>1 DEF SubmitChecks, SubmitSends
<1>6. ASSUME NEW i \in Ids, TakeTask(i) \/ FinishTask(i) PROVE PoolType'
  <2>1. taskCh' \in Seq(Tasks)
    <3>1. UNCHANGED taskCh \/ (taskCh # <<>> /\ taskCh' = Tail(taskCh))
      BY <1>6 DEF TakeTask, FinishTask
    <3>2. taskCh # <<>> => Tail(taskCh) \in Seq(Tasks)
      BY HeadTailProperties
    <3> QED BY <3>1, <3>2
  <2> QED BY <1>6, <2>1 DEF TakeTask, FinishTask
<1>7. ASSUME NEW g \in Loops, Tick(g) \/ LoopEnds(g) PROVE PoolType'
  BY <1>7 DEF Tick, LoopEnds
<1>8. ASSUME NEW g \in Loops, ScaleLooks(g) PROVE PoolType'
  <2>1. Len(workers) \in Nat
    BY LenProperties
  <2>2. quota' \in [Loops -> Int]
    <3>1. \/ UNCHANGED quota
          \/ Len(workers) < MaxWorkers /\ quota' = [quota EXCEPT ![g] = UpBy(Len(workers))]
      BY <1>8 DEF ScaleLooks, Overloaded
    <3>2. Len(workers) < MaxWorkers => UpBy(Len(workers)) \in Int
      BY <2>1, UpByFits
    <3> QED BY <3>1, <3>2
  <2>3. stuck' \in BOOLEAN
    BY <1>8 DEF ScaleLooks
  <2>4. loop' \in [Loops -> {"off", "wait", "scale", "up", "down", "cut", "stuck"}]
    BY <1>8 DEF ScaleLooks
  <2> QED BY <1>8, <2>2, <2>3, <2>4 DEF ScaleLooks
<1>9. ASSUME NEW g \in Loops, ScaleUp(g) PROVE PoolType'
  <2>1. seq' \in Nat /\ workers' \in Seq(Nat)
    BY <1>9, AddWorkerGrows DEF ScaleUp
  <2> QED BY <1>9, <2>1 DEF ScaleUp
<1>10. ASSUME NEW g \in Loops, ScaleCounts(g) PROVE PoolType'
  <2>1. Len(workers) \in Nat
    BY LenProperties
  <2>2. RemoveFrom(Len(workers)) \in Int
    BY <2>1, RemoveFromFloor
  <2>3. /\ quota' \in [Loops -> Int]
        /\ loop' \in [Loops -> {"off", "wait", "scale", "up", "down", "cut", "stuck"}]
    BY <1>10, <2>2 DEF ScaleCounts
  <2> QED BY <1>10, <2>3 DEF ScaleCounts
<1>11. ASSUME NEW g \in Loops, ScaleDown(g) PROVE PoolType'
  <2>1. workers' \in Seq(Nat)
    <3>1. CASE Len(workers) > quota[g]
      <4>1. \A i \in 1 .. quota[g] : workers[i] \in Nat
        BY <3>1, LenProperties, ElementOfSeq
      <4>2. SubSeq(workers, 1, quota[g]) \in Seq(Nat)
        BY <3>1, <4>1, SubSeqProperties, LenProperties
      <4> QED BY <1>11, <3>1, <4>2 DEF ScaleDown
    <3>2. CASE ~(Len(workers) > quota[g])
      BY <1>11, <3>2 DEF ScaleDown
    <3> QED BY <3>1, <3>2
  <2> QED BY <1>11, <2>1 DEF ScaleDown
<1> QED BY <1>1, <1>2, <1>3, <1>4, <1>5, <1>6, <1>7, <1>8, <1>9, <1>10, <1>11 DEF Next

\* What scale() read and decided still fits when it acts on it.
LEMMA PoolKept ==
  ASSUME PoolInv, Next
  PROVE  Unborn' /\ FirstRun' /\ StopsFirst'
<1> USE PoolAssumption DEF pool, tasks, scaler
<1>0. /\ PoolType /\ Unborn /\ FirstRun /\ StopsFirst /\ Len(workers) \in Nat /\ starts \in Nat /\ adding \in Nat
      /\ loop \in [Loops -> {"off", "wait", "scale", "up", "down", "cut", "stuck"}]
      /\ quota \in [Loops -> Int] /\ Loops = 1 .. MaxStarts
  BY LenProperties DEF PoolInv, PoolType, Loops
<1>1. ASSUME Start PROVE Unborn' /\ FirstRun'
  <2>1. /\ starts < MaxStarts /\ starts' = starts + 1 /\ adding' = MinWorkers
        /\ UNCHANGED <<workers, loop, quota, stuck>> /\ stopPc' = "none"
    BY <1>1 DEF Start
  <2>2. CASE starts = 0
    <3>1. workers = <<>> /\ Len(workers) = 0
      BY <1>0, <2>2, EmptySeq DEF Unborn
    <3> QED BY <1>0, <2>1, <2>2, <3>1 DEF Unborn, FirstRun
  <2>3. CASE starts # 0
    BY <1>0, <2>1, <2>3 DEF Unborn, FirstRun
  <2> QED BY <2>2, <2>3
<1>2. ASSUME StartAdds PROVE Unborn' /\ FirstRun'
  <2>1. /\ adding > 0 /\ adding' = adding - 1 /\ UNCHANGED <<running, starts, quota, stuck>>
        /\ loop' = IF adding = 1 THEN [loop EXCEPT ![starts] = "wait"] ELSE loop
    BY <1>2 DEF StartAdds
  <2>2. Len(workers') = Len(workers) + 1
    BY <1>0, <1>2, AddWorkerGrows DEF StartAdds
  <2>3. Unborn'
    BY <1>0, <2>1 DEF Unborn
  <2>4. FirstRun'
    BY <1>0, <2>1, <2>2, SMTT(20) DEF FirstRun
  <2> QED BY <2>3, <2>4
<1>3. ASSUME Stop PROVE Unborn' /\ FirstRun'
  BY <1>0, <1>3 DEF Stop, Unborn, FirstRun
<1>4. ASSUME StopWaited PROVE Unborn' /\ FirstRun'
  BY <1>0, <1>4 DEF StopWaited, Unborn, FirstRun
<1>5. ASSUME StopForgets PROVE Unborn' /\ FirstRun'
  BY <1>0, <1>5 DEF StopForgets, Unborn, FirstRun, StopsFirst
<1>6. ASSUME \E t \in Tasks : SubmitChecks(t) \/ SubmitSends(t) PROVE Unborn' /\ FirstRun'
  <2>1. UNCHANGED <<running, starts, adding, workers, loop, quota, stuck>>
    BY <1>6 DEF SubmitChecks, SubmitSends
  <2> QED BY <1>0, <2>1 DEF Unborn, FirstRun
<1>7. ASSUME \E i \in Ids : TakeTask(i) \/ FinishTask(i) PROVE Unborn' /\ FirstRun'
  <2>1. UNCHANGED <<running, starts, adding, workers, loop, quota, stuck>>
    BY <1>7 DEF TakeTask, FinishTask
  <2> QED BY <1>0, <2>1 DEF Unborn, FirstRun
<1>8. ASSUME NEW g \in Loops, Tick(g) \/ LoopEnds(g) PROVE Unborn' /\ FirstRun'
  <2>1. UNCHANGED <<running, starts, adding, workers, quota, stuck>> /\ loop[g] = "wait"
    BY <1>8 DEF Tick, LoopEnds
  <2>2. loop' = [loop EXCEPT ![g] = "scale"] \/ loop' = [loop EXCEPT ![g] = "off"]
    BY <1>8 DEF Tick, LoopEnds
  <2> QED BY <1>0, <2>1, <2>2 DEF Unborn, FirstRun
<1>9. ASSUME NEW g \in Loops, ScaleLooks(g) PROVE Unborn' /\ FirstRun'
  <2>1. UNCHANGED <<running, starts, adding, workers>> /\ loop[g] = "scale"
    BY <1>9 DEF ScaleLooks
  <2>2. CASE Len(workers) = 0
    BY <1>0, <1>9, <2>1, <2>2 DEF ScaleLooks, Unborn, FirstRun
  <2>3. CASE Len(workers) > 0 /\ Overloaded(Len(workers))
    <3>1. UpBy(Len(workers)) \in Nat /\ UpBy(Len(workers)) >= 1 /\ Len(workers) + UpBy(Len(workers)) <= MaxWorkers
      BY <1>0, <2>3, UpByFits DEF Overloaded
    <3>2. /\ quota' = [quota EXCEPT ![g] = UpBy(Len(workers))]
          /\ loop' = [loop EXCEPT ![g] = "up"] /\ UNCHANGED stuck
      BY <1>0, <1>9, <2>3 DEF ScaleLooks
    <3> QED BY <1>0, <2>1, <3>1, <3>2 DEF Unborn, FirstRun
  <2>4. CASE Len(workers) > 0 /\ ~Overloaded(Len(workers))
    <3>1. UNCHANGED <<quota, stuck>> /\ (loop' = [loop EXCEPT ![g] = "down"] \/ loop' = [loop EXCEPT ![g] = "wait"])
      BY <1>0, <1>9, <2>4 DEF ScaleLooks
    <3> QED BY <1>0, <2>1, <3>1 DEF Unborn, FirstRun
  <2> QED BY <1>0, <2>2, <2>3, <2>4
<1>10. ASSUME NEW g \in Loops, ScaleUp(g) PROVE Unborn' /\ FirstRun'
  <2>1. /\ loop[g] = "up" /\ UNCHANGED <<running, starts, adding, stuck>>
        /\ quota' = [quota EXCEPT ![g] = @ - 1]
        /\ loop' = IF quota[g] = 1 THEN [loop EXCEPT ![g] = "wait"] ELSE loop
    BY <1>10 DEF ScaleUp
  <2>2. Len(workers') = Len(workers) + 1
    BY <1>0, <1>10, AddWorkerGrows DEF ScaleUp
  <2> QED BY <1>0, <2>1, <2>2 DEF Unborn, FirstRun
<1>11. ASSUME NEW g \in Loops, ScaleCounts(g) PROVE Unborn' /\ FirstRun'
  <2>1. UNCHANGED <<running, starts, adding, workers, stuck>> /\ loop[g] = "down"
    BY <1>11 DEF ScaleCounts
  <2>2. RemoveFrom(Len(workers)) \in Nat /\ RemoveFrom(Len(workers)) >= MinWorkers
    BY <1>0, RemoveFromFloor
  <2>3. \/ /\ quota' = [quota EXCEPT ![g] = RemoveFrom(Len(workers))]
           /\ loop' = [loop EXCEPT ![g] = "cut"]
        \/ loop' = [loop EXCEPT ![g] = "wait"] /\ UNCHANGED quota
    BY <1>11 DEF ScaleCounts
  <2> QED BY <1>0, <2>1, <2>2, <2>3 DEF Unborn, FirstRun
<1>12. ASSUME NEW g \in Loops, ScaleDown(g) PROVE Unborn' /\ FirstRun'
  <2>1. /\ UNCHANGED <<running, starts, adding, stuck>> /\ loop[g] = "cut"
        /\ loop' = [loop EXCEPT ![g] = "wait"] /\ quota' = [quota EXCEPT ![g] = 0]
    BY <1>12 DEF ScaleDown
  <2>2. Unborn'
    BY <1>0, <2>1 DEF Unborn
  <2>3. ASSUME starts = 1, running
        PROVE  g = 1 /\ adding = 0 /\ Len(workers') \in MinWorkers .. MaxWorkers
    <3>1. g = 1 /\ adding = 0 /\ quota[g] >= MinWorkers /\ quota[g] \in Int
          /\ Len(workers) \in MinWorkers .. MaxWorkers
      BY <1>0, <2>1, <2>3 DEF FirstRun
    <3>2. CASE Len(workers) > quota[g]
      <4>1. \A i \in 1 .. quota[g] : workers[i] \in Nat
        BY <1>0, <3>1, <3>2, ElementOfSeq DEF PoolType
      <4>2. Len(SubSeq(workers, 1, quota[g])) = quota[g]
        BY <3>1, <4>1, SubSeqProperties
      <4> QED BY <1>0, <1>12, <3>1, <3>2, <4>2 DEF ScaleDown
    <3>3. CASE ~(Len(workers) > quota[g])
      BY <1>12, <3>1, <3>3 DEF ScaleDown
    <3> QED BY <3>1, <3>2, <3>3
  <2>4. FirstRun'
    BY <1>0, <2>1, <2>3 DEF FirstRun
  <2> QED BY <2>2, <2>4
<1>13. StopsFirst'
  <2>1. CASE Start \/ Stop \/ StopWaited \/ StopForgets
    BY <1>0, <2>1 DEF Start, Stop, StopWaited, StopForgets, StopsFirst
  <2>2. CASE UNCHANGED <<running, stopPc>>
    BY <1>0, <2>2 DEF StopsFirst
  <2> QED BY <2>1, <2>2 DEF Next, StartAdds, SubmitChecks, SubmitSends, TakeTask, FinishTask, Tick,
             LoopEnds, ScaleLooks, ScaleUp, ScaleCounts, ScaleDown
<1> QED BY <1>1, <1>2, <1>3, <1>4, <1>5, <1>6, <1>7, <1>8, <1>9, <1>10, <1>11, <1>12, <1>13 DEF Next

\* In its first run, from the end of Start to the call of Stop, the pool keeps between
\* MinWorkers and MaxWorkers workers although scale() acts on what it read under locks
\* it has released, and scale() locks itself out of mu only after a Stop
\* (pool.go:149, 396-461).
THEOREM ScalingIsSafe == Spec => []ScaleIsSafe
<1>1. Init => PoolInv
  <2> SUFFICES ASSUME Init PROVE PoolInv
    OBVIOUS
  <2>1. PoolType
    <3>1. loop \in [Loops -> {"off", "wait", "scale", "up", "down", "cut", "stuck"}] /\ quota \in [Loops -> Int]
      BY DEF Init
    <3>2. workers \in Seq(Nat) /\ taskCh \in Seq(Tasks)
      BY EmptySeq DEF Init
    <3>3. starts \in 0 .. MaxStarts /\ adding \in Nat /\ seq \in Nat
      BY PoolAssumption DEF Init
    <3> QED BY <3>1, <3>2, <3>3 DEF Init, PoolType
  <2> QED BY <2>1 DEF Init, PoolInv, Unborn, FirstRun, StopsFirst
<1>2. PoolInv /\ [Next]_vars => PoolInv'
  <2> SUFFICES ASSUME PoolInv, [Next]_vars PROVE PoolInv'
    OBVIOUS
  <2>1. CASE Next
    BY <2>1, PoolTypeKept, PoolKept DEF PoolInv
  <2>2. CASE UNCHANGED vars
    BY <2>2 DEF PoolInv, PoolType, Unborn, FirstRun, StopsFirst, vars, pool, tasks, scaler
  <2> QED BY <2>1, <2>2
<1>3. PoolInv => ScaleIsSafe
  BY DEF PoolInv, PoolType, Unborn, FirstRun, ScaleIsSafe
<1> QED BY <1>1, <1>2, <1>3, PTL DEF Spec
-----------------------------------------------------------------------------
(* The worker program *)

ConsumerRec ==
  [pc : {"none", "start", "receive", "process"}, queue : Queues \cup {""}, id : Nat, gen : Nat,
   msgs : SUBSET Messages, msg : Messages \cup {NoMessage}]

CommandType ==
  /\ phase \in {"rabbit", "redis", "serving", "waiting", "returned", "exited"}
  /\ watch \in {"none", "spawned", "watching", "retrying", "ended"}
  /\ rejoins \in Nat /\ late \in BOOLEAN
  /\ link \in [gen : Nat, conn : BOOLEAN, chan : BOOLEAN]
  /\ consumer \in [Slots -> ConsumerRec]
  /\ place \in [Messages -> {"ready", "unacked", "acked", "discarded"}]
  /\ redelivered \in SUBSET Messages /\ runs \in [Messages -> 0 .. 2]

\* Which connection it is, and who can have started consumers on it.
Links ==
  /\ link.gen = 0 => ~link.conn /\ watch = "none"
  /\ phase = "rabbit" => link.gen = 0
  /\ phase \in {"redis", "serving"} => link.gen > 0
  /\ rejoins > 0 => link.gen > 1
  /\ (phase \in {"rabbit", "redis"} /\ link.gen < 2) => Serving = {}
  /\ (phase = "returned" /\ Serving # {}) => late

\* A consumer is of a connection so far, and holds messages only when it is on it.
Consumers == \A s \in Slots :
  /\ consumer[s].gen <= link.gen
  /\ consumer[s].pc \in {"none", "start"} =>
       consumer[s].gen = 0 /\ consumer[s].msgs = {} /\ consumer[s].msg = NoMessage
  /\ consumer[s].pc = "process" <=> consumer[s].msg # NoMessage

\* A message that is unacked is in one place; a channel that is gone holds none.
Holding == phase # "exited" =>
  /\ \A s \in Slots : OnChannel(s) => \A m \in Held(s) : place[m] = "unacked"
  /\ \A s \in Slots : OnChannel(s) => consumer[s].msg \notin consumer[s].msgs
  /\ \A s, t \in Slots : (OnChannel(s) /\ OnChannel(t) /\ s # t) => Held(s) \cap Held(t) = {}
  /\ ~Connected => \A m \in Messages : place[m] # "unacked"

\* How often a message was handled, by where it is.
Handled ==
  /\ \A s \in Slots : consumer[s].pc = "process" => runs[consumer[s].msg] > 0
  /\ \A m \in Messages :
       /\ place[m] = "acked" => runs[m] > 0 /\ m \notin UnknownKey
       /\ place[m] = "discarded" => m \in UnknownKey /\ m \notin redelivered
       /\ m \notin redelivered =>
            /\ runs[m] < 2 /\ (place[m] = "ready" => runs[m] = 0)
            /\ phase # "exited" => \A s \in Slots :
                 (OnChannel(s) /\ m \in consumer[s].msgs) => runs[m] = 0

\* Somebody consumes on the channel, or will.
Served == (phase = "serving" /\ Connected) =>
  \/ rejoins > 0
  \/ \E s \in Slots : consumer[s].pc = "start" \/ (Alive(s) /\ consumer[s].gen = link.gen)

FirstBatch == link.gen = 1 => Cardinality(Serving) <= Cardinality(Queues) * Concurrency

CommandInv == CommandType /\ Links /\ Consumers /\ Holding /\ Handled /\ Served /\ FirstBatch

\* startConsumers puts a consumer that starts into as many free slots as there are
\* queues and numbers.
LEMMA BatchStarts ==
  ASSUME CommandType, EnoughSlots, StartConsumers
  PROVE  \E R \in SUBSET Slots :
           /\ IsFiniteSet(R) /\ Cardinality(R) = Cardinality(Queues) * Concurrency
           /\ \A s \in R : ~Alive(s)
           /\ consumer' \in [Slots -> ConsumerRec]
           /\ \A s \in R : /\ consumer'[s].pc = "start" /\ consumer'[s].gen = 0
                           /\ consumer'[s].msgs = {} /\ consumer'[s].msg = NoMessage
           /\ \A s \in Slots \ R : consumer'[s] = consumer[s]
<1> DEFINE batch == Queues \X (0 .. Concurrency - 1)
           free == {s \in Slots : ~Alive(s)}
           n == Cardinality(batch)
           k == Cardinality(free)
<1>0. Concurrency \in Nat \ {0} /\ IsFiniteSet(Queues) /\ IsFiniteSet(Slots)
  BY CommandAssumption
<1>1. IsFiniteSet(batch) /\ n = Cardinality(Queues) * Concurrency
  <2>1. IsFiniteSet(0 .. Concurrency - 1) /\ Cardinality(0 .. Concurrency - 1) = Concurrency
    BY <1>0, FS_Interval
  <2> QED BY <1>0, <2>1, FS_Product
<1>2. IsFiniteSet(free) /\ n <= k /\ n \in Nat /\ k \in Nat
  <2>1. IsFiniteSet(free)
    BY <1>0, FS_Subset
  <2> QED BY <1>1, <2>1, FS_CardinalityType DEF EnoughSlots
<1> HIDE DEF batch, free, n, k
<1>3. Injection(batch, free) # {}
  <2>1. PICK a \in Bijection(1 .. k, free) : TRUE
    BY <1>2, FS_CardinalityType DEF ExistsBijection, k
  <2>2. ExistsBijection(batch, 1 .. n)
    <3>1. IsFiniteSet(1 .. n) /\ Cardinality(1 .. n) = n
      BY <1>2, FS_Interval
    <3> QED BY <1>1, <3>1, FS_SameCardinalityBij DEF n
  <2>3. PICK b \in Bijection(batch, 1 .. n) : TRUE
    BY <2>2 DEF ExistsBijection
  <2>4. /\ a \in [1 .. k -> free] /\ \A i, j \in 1 .. k : a[i] = a[j] => i = j
        /\ b \in [batch -> 1 .. n] /\ \A x, y \in batch : b[x] = b[y] => x = y
    BY <2>1, <2>3 DEF Bijection, Injection, IsInjective
  <2>5. \A x \in batch : b[x] \in 1 .. k
    BY <1>2, <2>4
  <2>6. [x \in batch |-> a[b[x]]] \in Injection(batch, free)
    BY <2>4, <2>5 DEF Injection, IsInjective
  <2> QED BY <2>6
<1>4. PICK f \in Injection(batch, free) :
        consumer' = [s \in Slots |->
          IF s \in Range(f)
            THEN [NoConsumer EXCEPT !.pc = "start", !.queue = (CHOOSE x \in batch : f[x] = s)[1],
                                    !.id = (CHOOSE x \in batch : f[x] = s)[2]]
            ELSE consumer[s]]
  BY <1>3, Zenon DEF StartConsumers, batch, free
<1>5. f \in [batch -> free] /\ \A x, y \in batch : f[x] = f[y] => x = y
  BY <1>4 DEF Injection, IsInjective
<1>6. Range(f) \subseteq free /\ \A s \in Range(f) : \E x \in batch : f[x] = s
  BY <1>5 DEF Range
<1>7. Range(f) \subseteq Slots /\ \A s \in Range(f) : ~Alive(s)
  BY <1>6 DEF free
<1>8. IsFiniteSet(Range(f)) /\ Cardinality(Range(f)) = n
  <2>1. f \in Bijection(batch, Range(f))
    <3>1. f \in [batch -> Range(f)]
      BY <1>5 DEF Range
    <3> QED BY <1>5, <1>6, <3>1 DEF Bijection, Injection, Surjection, IsInjective
  <2> QED BY <1>1, <2>1, FS_Bijection DEF ExistsBijection, n
<1>9. ASSUME NEW s \in Range(f)
      PROVE  /\ consumer'[s] \in ConsumerRec /\ consumer'[s].pc = "start" /\ consumer'[s].gen = 0
             /\ consumer'[s].msgs = {} /\ consumer'[s].msg = NoMessage
  <2> DEFINE x == CHOOSE y \in batch : f[y] = s
             r == [NoConsumer EXCEPT !.pc = "start", !.queue = x[1], !.id = x[2]]
  <2>1. x \in batch
    BY <1>6
  <2>2. consumer'[s] = r
    BY <1>4, <1>7
  <2> HIDE DEF x
  <2>3. x[1] \in Queues /\ x[2] \in Nat
    BY <1>0, <2>1 DEF batch
  <2>4. r \in ConsumerRec /\ r.pc = "start" /\ r.gen = 0 /\ r.msgs = {} /\ r.msg = NoMessage
    BY <2>3 DEF NoConsumer, ConsumerRec
  <2> QED BY <2>2, <2>4
<1>10. \A s \in Slots \ Range(f) : consumer'[s] = consumer[s]
  BY <1>4
<1>11. consumer' \in [Slots -> ConsumerRec]
  <2> DEFINE F(s) ==
        IF s \in Range(f)
          THEN [NoConsumer EXCEPT !.pc = "start", !.queue = (CHOOSE x \in batch : f[x] = s)[1],
                                  !.id = (CHOOSE x \in batch : f[x] = s)[2]]
          ELSE consumer[s]
  <2>1. consumer' = [s \in Slots |-> F(s)]
    BY <1>4
  <2> HIDE DEF F
  <2>2. \A s \in Slots : consumer'[s] \in ConsumerRec
    BY <1>9, <1>10 DEF CommandType
  <2> QED BY <2>1, <2>2
<1> QED BY <1>1, <1>7, <1>8, <1>9, <1>10, <1>11

\* The consumer in slot s becomes r.
Turns(s, r) == r \in ConsumerRec /\ consumer' = [consumer EXCEPT ![s] = r]

\* Consume, on the channel of now.
LEMMA ConsumeIs ==
  ASSUME CommandType, NEW s \in Slots, Consume(s)
  PROVE  /\ consumer[s].pc = "start" /\ phase # "exited"
         /\ UNCHANGED <<phase, watch, rejoins, runs, late>>
         /\ \E r \in ConsumerRec : Turns(s, r) /\
              \/ /\ r.msgs = consumer[s].msgs /\ r.msg = consumer[s].msg
                 /\ r.pc = "receive" /\ r.gen = link.gen
                 /\ Connected /\ UNCHANGED <<link, place, redelivered>>
              \/ /\ r = NoConsumer
                 /\ \/ Connected /\ LoseConnection
                    \/ Connected /\ LoseChannel
                    \/ ~Connected /\ UNCHANGED <<link, place, redelivered>>
<1>0. consumer \in [Slots -> ConsumerRec] /\ consumer[s] \in ConsumerRec /\ link.gen \in Nat
      /\ NoConsumer \in ConsumerRec
  BY DEF CommandType, NoConsumer, ConsumerRec
<1>1. CASE consumer' = [consumer EXCEPT ![s].pc = "receive", ![s].gen = link.gen] /\ Connected
           /\ UNCHANGED <<link, place, redelivered>>
  <2> DEFINE r == [consumer[s] EXCEPT !.pc = "receive", !.gen = link.gen]
  <2>1. r \in ConsumerRec /\ r.msgs = consumer[s].msgs /\ r.msg = consumer[s].msg
        /\ r.pc = "receive" /\ r.gen = link.gen
    BY <1>0 DEF ConsumerRec
  <2>2. consumer' = [consumer EXCEPT ![s] = r]
    BY <1>0, <1>1
  <2> HIDE DEF r
  <2> QED BY <1>1, <2>1, <2>2 DEF Consume, Turns
<1>2. CASE EndConsumer(s) /\ \/ Connected /\ LoseConnection
                             \/ Connected /\ LoseChannel
                             \/ ~Connected /\ UNCHANGED <<link, place, redelivered>>
  BY <1>0, <1>2 DEF Consume, Turns, EndConsumer
<1> QED BY <1>1, <1>2 DEF Consume

\* The broker delivers to a consumer.
LEMMA DeliverIs ==
  ASSUME CommandType, NEW s \in Slots, NEW m \in Messages, DeliverTo(s, m)
  PROVE  \E r \in ConsumerRec :
           Turns(s, r) /\ r.pc = consumer[s].pc /\ r.gen = consumer[s].gen
           /\ r.msg = consumer[s].msg /\ r.msgs = consumer[s].msgs \cup {m}
<1> DEFINE r == [consumer[s] EXCEPT !.msgs = @ \cup {m}]
<1>0. consumer \in [Slots -> ConsumerRec] /\ consumer[s] \in ConsumerRec
  BY DEF CommandType
<1>1. r \in ConsumerRec /\ r.pc = consumer[s].pc /\ r.gen = consumer[s].gen
      /\ r.msg = consumer[s].msg /\ r.msgs = consumer[s].msgs \cup {m}
  BY <1>0 DEF ConsumerRec
<1>2. consumer' = [consumer EXCEPT ![s] = r]
  BY <1>0 DEF DeliverTo
<1> HIDE DEF r
<1> QED BY <1>1, <1>2 DEF Turns

\* A consumer takes a delivery into work.
LEMMA ProcessIs ==
  ASSUME CommandType, NEW s \in Slots, NEW m \in Messages, ProcessMessage(s, m)
  PROVE  \E r \in ConsumerRec :
           Turns(s, r) /\ r.pc = "process" /\ r.gen = consumer[s].gen
           /\ r.msg = m /\ r.msgs = consumer[s].msgs \ {m}
<1> DEFINE r == [consumer[s] EXCEPT !.pc = "process", !.msg = m, !.msgs = @ \ {m}]
<1>0. consumer \in [Slots -> ConsumerRec] /\ consumer[s] \in ConsumerRec
  BY DEF CommandType
<1>1. r \in ConsumerRec /\ r.pc = "process" /\ r.gen = consumer[s].gen
      /\ r.msg = m /\ r.msgs = consumer[s].msgs \ {m}
  BY <1>0 DEF ConsumerRec
<1>2. consumer' = [consumer EXCEPT ![s] = r]
  BY <1>0 DEF ProcessMessage
<1> HIDE DEF r
<1> QED BY <1>1, <1>2 DEF Turns

\* The ack or nack: it is of the message the consumer had in work, and is lost when
\* the channel is gone.
LEMMA SettledIs ==
  ASSUME CommandType, Consumers, NEW s \in Slots, Settled(s)
  PROVE  /\ consumer[s].pc = "process" /\ phase # "exited" /\ consumer[s].msg \in Messages
         /\ UNCHANGED <<phase, link, watch, rejoins, runs, late>>
         /\ \E r \in ConsumerRec : /\ Turns(s, r) /\ r.pc = "receive" /\ r.gen = consumer[s].gen
                                   /\ r.msg = NoMessage /\ r.msgs = consumer[s].msgs
         /\ ~OnChannel(s) => UNCHANGED <<place, redelivered>>
         /\ OnChannel(s) =>
              \E p \in {"acked", "ready", "discarded"} :
                /\ place' = [place EXCEPT ![consumer[s].msg] = p]
                /\ p = "acked" => consumer[s].msg \notin UnknownKey
                /\ p = "ready" => consumer[s].msg \in redelivered
                /\ p = "discarded" => consumer[s].msg \in UnknownKey /\ consumer[s].msg \notin redelivered
                /\ redelivered' = redelivered
<1> DEFINE r == [consumer[s] EXCEPT !.pc = "receive", !.msg = NoMessage]
<1>0. consumer \in [Slots -> ConsumerRec] /\ consumer[s] \in ConsumerRec
  BY DEF CommandType
<1>1. r \in ConsumerRec /\ r.pc = "receive" /\ r.gen = consumer[s].gen
      /\ r.msg = NoMessage /\ r.msgs = consumer[s].msgs
  BY <1>0 DEF ConsumerRec
<1>2. consumer' = [consumer EXCEPT ![s] = r]
  BY <1>0 DEF Settled
<1> HIDE DEF r
<1>3. /\ consumer[s].pc = "process" /\ phase # "exited" /\ consumer[s].msg \in Messages
      /\ UNCHANGED <<phase, link, watch, rejoins, runs, late>>
  BY <1>0 DEF Settled, Consumers, ConsumerRec
<1>4. ~OnChannel(s) => UNCHANGED <<place, redelivered>>
  BY DEF Settled
<1>5. ASSUME OnChannel(s)
      PROVE  \E p \in {"acked", "ready", "discarded"} :
                /\ place' = [place EXCEPT ![consumer[s].msg] = p]
                /\ p = "acked" => consumer[s].msg \notin UnknownKey
                /\ p = "ready" => consumer[s].msg \in redelivered
                /\ p = "discarded" => consumer[s].msg \in UnknownKey /\ consumer[s].msg \notin redelivered
                /\ redelivered' = redelivered
  <2>1. CASE consumer[s].msg \notin UnknownKey
    BY <1>5, <2>1 DEF Settled
  <2>2. CASE consumer[s].msg \in UnknownKey /\ Requeue(consumer[s].msg)
    BY <1>5, <2>2 DEF Settled, Requeue
  <2>3. CASE consumer[s].msg \in UnknownKey /\ ~Requeue(consumer[s].msg)
    BY <1>5, <2>3 DEF Settled, Requeue
  <2> QED BY <2>1, <2>2, <2>3
<1> QED BY <1>1, <1>2, <1>3, <1>4, <1>5 DEF Turns

\* What the broker does when a connection or a channel goes.
LEMMA ReturnedIs ==
  ASSUME CommandType, Returned(place)
  PROVE  /\ place' \in [Messages -> {"ready", "acked", "discarded"}]
         /\ redelivered' \in SUBSET Messages
         /\ \A m \in Messages :
              /\ place[m] = "unacked" => place'[m] = "ready" /\ m \in redelivered'
              /\ place[m] # "unacked" => place'[m] = place[m] /\ (m \in redelivered' <=> m \in redelivered)
BY DEF CommandType, Returned

\* The types of the worker program.
LEMMA CommandTypeKept ==
  ASSUME CommandType, Consumers, CommandNext
  PROVE  CommandType'
<1>0. /\ phase \in {"rabbit", "redis", "serving", "waiting", "returned", "exited"}
      /\ watch \in {"none", "spawned", "watching", "retrying", "ended"}
      /\ rejoins \in Nat /\ late \in BOOLEAN
      /\ link \in [gen : Nat, conn : BOOLEAN, chan : BOOLEAN]
      /\ consumer \in [Slots -> ConsumerRec]
      /\ place \in [Messages -> {"ready", "unacked", "acked", "discarded"}]
      /\ redelivered \in SUBSET Messages /\ runs \in [Messages -> 0 .. 2]
  BY DEF CommandType
<1>1. Returned(place) => /\ place' \in [Messages -> {"ready", "unacked", "acked", "discarded"}]
                         /\ redelivered' \in SUBSET Messages
  BY DEF CommandType, Returned
<1>2. LoseConnection \/ LoseChannel =>
        link' \in [gen : Nat, conn : BOOLEAN, chan : BOOLEAN] /\ Returned(place)
  BY <1>0 DEF LoseConnection, LoseChannel
<1>3. ConnectRabbitMQ => link' \in [gen : Nat, conn : BOOLEAN, chan : BOOLEAN] /\ watch' = "spawned"
  BY <1>0 DEF ConnectRabbitMQ
<1>4. EnoughSlots /\ StartConsumers => consumer' \in [Slots -> ConsumerRec]
  BY BatchStarts
<1>5. CASE FirstConnect \/ ConnectRedis
  BY <1>0, <1>1, <1>3, <1>4, <1>5 DEF FirstConnect, ConnectRedis, CommandType
<1>6. CASE Watch \/ SeeLoss \/ GiveUp
  BY <1>0, <1>6 DEF Watch, SeeLoss, GiveUp, CommandType
<1>7. CASE Reconnect
  BY <1>0, <1>3, <1>7 DEF Reconnect, Again, CommandType
<1>8. CASE RestartConsumers
  <2>1. late' \in BOOLEAN
    BY <1>8 DEF RestartConsumers
  <2> QED BY <1>0, <1>4, <1>8, <2>1 DEF RestartConsumers, CommandType
<1>9. CASE ConnectionBreaks
  BY <1>0, <1>1, <1>2, <1>9 DEF ConnectionBreaks, CommandType
<1>10. CASE Signal
  BY <1>0, <1>10 DEF Signal, CommandType
<1>11. CASE ReturnFromRun
  BY <1>0, <1>1, <1>2, <1>11 DEF ReturnFromRun, CommandType
<1>12. CASE Exit
  BY <1>0, <1>1, <1>12 DEF Exit, CommandType
<1>13. ASSUME NEW s \in Slots, NEW r \in ConsumerRec, Turns(s, r)
       PROVE  consumer' \in [Slots -> ConsumerRec]
  BY <1>0, <1>13 DEF Turns
<1>14. ASSUME NEW s \in Slots, Consume(s) PROVE CommandType'
  <2>1. consumer' \in [Slots -> ConsumerRec]
    BY <1>13, <1>14, ConsumeIs
  <2> QED BY <1>0, <1>1, <1>2, <1>14, <2>1 DEF Consume, CommandType
<1>15. ASSUME NEW s \in Slots, StopConsuming(s) PROVE CommandType'
  <2>1. NoConsumer \in ConsumerRec
    BY DEF NoConsumer, ConsumerRec
  <2> QED BY <1>0, <1>15, <2>1 DEF StopConsuming, EndConsumer, CommandType
<1>16. ASSUME NEW s \in Slots, Settled(s) PROVE CommandType'
  <2>1. consumer' \in [Slots -> ConsumerRec]
    BY <1>13, <1>16, SettledIs
  <2>2. /\ place' \in [Messages -> {"ready", "unacked", "acked", "discarded"}]
        /\ redelivered' \in SUBSET Messages
    BY <1>0, <1>16, SettledIs
  <2> QED BY <1>0, <1>16, <2>1, <2>2 DEF Settled, CommandType
<1>17. ASSUME NEW s \in Slots, NEW m \in Messages, DeliverTo(s, m) PROVE CommandType'
  <2>1. consumer' \in [Slots -> ConsumerRec]
    BY <1>13, <1>17, DeliverIs
  <2> QED BY <1>0, <1>17, <2>1 DEF DeliverTo, CommandType
<1>18. ASSUME NEW s \in Slots, NEW m \in Messages, ProcessMessage(s, m) PROVE CommandType'
  <2>1. consumer' \in [Slots -> ConsumerRec]
    BY <1>13, <1>18, ProcessIs
  <2>2. runs' \in [Messages -> 0 .. 2]
    BY <1>0, <1>18 DEF ProcessMessage
  <2> QED BY <1>0, <1>18, <2>1, <2>2 DEF ProcessMessage, CommandType
<1> QED BY <1>5, <1>6, <1>7, <1>8, <1>9, <1>10, <1>11, <1>12, <1>14, <1>15, <1>16, <1>17, <1>18
        DEF CommandNext

\* Fewer consumers are not too many.
LEMMA BatchShrinks ==
  ASSUME FirstBatch, Serving' \subseteq Serving, link'.gen = 1 => link.gen = 1
  PROVE  FirstBatch'
<1>1. IsFiniteSet(Serving)
  BY CommandAssumption, FS_Subset DEF Serving
<1>2. /\ Cardinality(Serving') <= Cardinality(Serving)
      /\ Cardinality(Serving') \in Nat /\ Cardinality(Serving) \in Nat
  BY <1>1, FS_Subset, FS_CardinalityType
<1>3. Cardinality(Queues) * Concurrency \in Nat
  BY CommandAssumption, FS_CardinalityType
<1> QED BY <1>2, <1>3 DEF FirstBatch

\* What all but the types say.
CommandRest == Links /\ Consumers /\ Holding /\ Handled /\ Served /\ FirstBatch

\* Steps of the watching goroutine, connects, and the signal.
LEMMA WatchKept ==
  ASSUME CommandType, CommandRest,
         FirstConnect \/ Watch \/ SeeLoss \/ GiveUp \/ Reconnect \/ Signal
  PROVE  CommandRest'
<1> USE DEF Connected, OnChannel, Held, Alive, Cancelled
<1>0. /\ Links /\ Consumers /\ Holding /\ Handled /\ Served /\ FirstBatch
      /\ link \in [gen : Nat, conn : BOOLEAN, chan : BOOLEAN] /\ rejoins \in Nat
      /\ \A s \in Slots : consumer[s].gen \in Nat
  BY DEF CommandType, CommandRest, ConsumerRec
<1>1. UNCHANGED <<consumer, place, redelivered, runs, late>> /\ Serving' = Serving
  BY DEF FirstConnect, Watch, SeeLoss, GiveUp, Reconnect, Signal, Serving
<1>2. CASE UNCHANGED <<phase, link, rejoins>> /\ watch # "none"
  <2>1. FirstBatch'
    BY <1>0, <1>1, <1>2, BatchShrinks
  <2> QED BY <1>0, <1>1, <1>2, <2>1 DEF CommandRest, Links, Consumers, Holding, Handled, Served
<1>3. CASE Signal
  <2>0. UNCHANGED <<link, rejoins, watch>> /\ phase = "serving" /\ phase' = "waiting"
    BY <1>3 DEF Signal
  <2>1. FirstBatch'
    BY <1>0, <1>1, <2>0, BatchShrinks
  <2> QED BY <1>0, <1>1, <2>0, <2>1 DEF CommandRest, Links, Consumers, Holding, Handled, Served
<1>4. CASE FirstConnect /\ phase' = "exited" /\ UNCHANGED <<link, watch>>
  <2>0. UNCHANGED rejoins
    BY <1>4 DEF FirstConnect
  <2>1. FirstBatch'
    BY <1>0, <1>1, <1>4, BatchShrinks
  <2> QED BY <1>0, <1>1, <1>4, <2>0, <2>1 DEF CommandRest, Links, Consumers, Holding, Handled, Served
<1>5. CASE FirstConnect /\ ConnectRabbitMQ
  <2>0. /\ phase = "rabbit" /\ phase' = "redis" /\ UNCHANGED rejoins /\ watch' = "spawned"
        /\ link'.gen = link.gen + 1 /\ link'.conn /\ link'.chan /\ link.gen = 0 /\ Serving = {}
    BY <1>0, <1>5 DEF FirstConnect, ConnectRabbitMQ, Links
  <2>1. FirstBatch'
    <3>1. Cardinality(Serving') = 0
      BY <1>1, <2>0, FS_EmptySet
    <3>2. Cardinality(Queues) * Concurrency >= 0
      BY CommandAssumption, FS_CardinalityType
    <3> QED BY <3>1, <3>2 DEF FirstBatch
  <2>2. Links' /\ Consumers'
    BY <1>0, <1>1, <2>0 DEF Links, Consumers
  <2>3. \A s \in Slots : ~OnChannel(s)'
    BY <1>0, <1>1, <2>0 DEF Consumers
  <2>4. Holding' /\ Handled' /\ Served'
    BY <1>0, <1>1, <2>0, <2>3 DEF Holding, Handled, Served
  <2> QED BY <2>1, <2>2, <2>4 DEF CommandRest
<1>6. CASE Reconnect
  <2>0. /\ phase # "exited" /\ rejoins' = rejoins + 1 /\ watch = "retrying" /\ watch' = "spawned"
        /\ link'.gen = link.gen + 1 /\ link'.conn /\ link'.chan /\ link.gen > 0 /\ UNCHANGED phase
    BY <1>0, <1>6 DEF Reconnect, ConnectRabbitMQ, Links, Again
  <2>1. FirstBatch'
    BY <1>0, <2>0 DEF FirstBatch
  <2>2. Links' /\ Consumers'
    BY <1>0, <1>1, <2>0 DEF Links, Consumers
  <2>3. \A s \in Slots : ~OnChannel(s)'
    BY <1>0, <1>1, <2>0 DEF Consumers
  <2>4. Holding'
    BY <1>0, <1>1, <2>0, <2>3 DEF Holding
  <2>5. Handled' /\ Served'
    BY <1>0, <1>1, <2>0, <2>3 DEF Handled, Served
  <2> QED BY <2>1, <2>2, <2>4, <2>5 DEF CommandRest
<1> QED BY <1>2, <1>3, <1>4, <1>5, <1>6 DEF FirstConnect, Watch, SeeLoss, GiveUp

\* The connection or the channel goes, or the program: what is unacked goes back.
LEMMA LossKept ==
  ASSUME CommandType, CommandRest, Returned(place), UNCHANGED <<consumer, runs, late, rejoins, watch>>,
         link'.gen = link.gen /\ (~link.conn => ~link'.conn),
         phase' = "exited" \/ ~Connected',
         phase' = phase \/ phase' = "exited" \/ (phase' = "returned" /\ Serving = {} /\ phase = "waiting")
  PROVE  CommandRest'
<1> USE DEF Connected, OnChannel, Held, Alive
<1>0. /\ Links /\ Consumers /\ Holding /\ Handled /\ Served /\ FirstBatch
      /\ place' \in [Messages -> {"ready", "acked", "discarded"}]
      /\ \A m \in Messages :
           /\ place[m] = "unacked" => place'[m] = "ready" /\ m \in redelivered'
           /\ place[m] # "unacked" => place'[m] = place[m] /\ (m \in redelivered' <=> m \in redelivered)
  BY ReturnedIs DEF CommandRest
<1>1. Serving' = Serving
  BY DEF Serving
<1>2. FirstBatch'
  BY <1>0, <1>1, BatchShrinks
<1>3. Links' /\ Consumers'
  BY <1>0, <1>1 DEF Links, Consumers
<1>4. Holding'
  BY <1>0 DEF Holding
<1>5. Handled'
  BY <1>0 DEF Handled
<1>6. Served'
  BY <1>0 DEF Served
<1> QED BY <1>2, <1>3, <1>4, <1>5, <1>6 DEF CommandRest

\* startConsumers: the new consumers are on no channel yet.
LEMMA StartsKept ==
  ASSUME CommandType, CommandRest, Queues # {}, EnoughSlots, StartConsumers,
         UNCHANGED <<link, watch, place, redelivered, runs>>,
         \/ phase = "redis" /\ phase' = "serving" /\ UNCHANGED <<rejoins, late>>
         \/ /\ rejoins > 0 /\ rejoins' = rejoins - 1 /\ late' = (late \/ Cancelled)
            /\ UNCHANGED phase /\ phase # "exited"
  PROVE  CommandRest'
<1> USE DEF Connected, OnChannel, Held, Alive
<1>0. /\ Links /\ Consumers /\ Holding /\ Handled /\ Served /\ FirstBatch
      /\ rejoins \in Nat /\ link.gen \in Nat
  BY DEF CommandRest, CommandType
<1>1. PICK R \in SUBSET Slots :
           /\ IsFiniteSet(R) /\ Cardinality(R) = Cardinality(Queues) * Concurrency
           /\ \A s \in R : ~Alive(s)
           /\ consumer' \in [Slots -> ConsumerRec]
           /\ \A s \in R : /\ consumer'[s].pc = "start" /\ consumer'[s].gen = 0
                           /\ consumer'[s].msgs = {} /\ consumer'[s].msg = NoMessage
           /\ \A s \in Slots \ R : consumer'[s] = consumer[s]
  BY BatchStarts
<1>2. Serving' = Serving \cup R
  BY <1>1 DEF Serving
<1>3. R # {}
  <2>1. Cardinality(Queues) \in Nat \ {0} /\ Concurrency \in Nat \ {0}
    BY CommandAssumption, FS_CardinalityType, FS_EmptySet
  <2>2. Cardinality(Queues) * Concurrency # 0
    BY <2>1
  <2> QED BY <1>1, <2>2, FS_EmptySet
<1>4. FirstBatch'
  <2>1. ASSUME link.gen = 1 PROVE Serving' = R
    BY <1>0, <1>2, <2>1 DEF Links
  <2>2. Cardinality(R) \in Nat
    BY <1>1, FS_CardinalityType
  <2> QED BY <1>1, <2>1, <2>2 DEF FirstBatch
<1>5. Links'
  <2>1. phase' = "returned" => late'
    BY DEF Cancelled
  <2>2. (phase' \in {"rabbit", "redis"} /\ link.gen < 2) => FALSE
    BY <1>0 DEF Links
  <2> QED BY <1>0, <2>1, <2>2 DEF Links
<1>6. Consumers'
  BY <1>0, <1>1 DEF Consumers
<1>7. \A s \in Slots : Held(s)' \subseteq Held(s) /\ (OnChannel(s)' => OnChannel(s) \/ s \in R)
  BY <1>1
<1>8. Holding'
  <2>1. \A s \in Slots : (OnChannel(s)' /\ s \notin R) => OnChannel(s) /\ consumer'[s] = consumer[s]
    BY <1>1
  <2>2. \A s \in R : ~OnChannel(s)'
    BY <1>0, <1>1 DEF Links
  <2> QED BY <1>0, <1>7, <2>1, <2>2 DEF Holding
<1>9. Handled'
  BY <1>0, <1>1 DEF Handled
<1>10. Served'
  BY <1>1, <1>3 DEF Served
<1> QED BY <1>4, <1>5, <1>6, <1>8, <1>9, <1>10 DEF CommandRest

\* A consumer consumes, or ends.
LEMMA ConsumeKept ==
  ASSUME CommandType, CommandRest, NEW s \in Slots, Consume(s) \/ StopConsuming(s)
  PROVE  CommandRest'
<1> USE DEF Connected, OnChannel, Held, Alive
<1>0. /\ Links /\ Consumers /\ Holding /\ Handled /\ Served /\ FirstBatch
      /\ consumer \in [Slots -> ConsumerRec] /\ link.gen \in Nat
      /\ link \in [gen : Nat, conn : BOOLEAN, chan : BOOLEAN]
      /\ \A t \in Slots : consumer[t].gen \in Nat
  BY DEF CommandRest, CommandType, ConsumerRec
<1>1. /\ NoConsumer.pc = "none" /\ NoConsumer.gen = 0 /\ NoConsumer.msgs = {}
      /\ NoConsumer.msg = NoMessage
  BY DEF NoConsumer
<1>2. ASSUME NEW r \in ConsumerRec, Turns(s, r), r.msgs = consumer[s].msgs, r.msg = consumer[s].msg,
             r.pc = "receive", r.gen = link.gen, Connected, consumer[s].pc = "start",
             UNCHANGED <<phase, watch, rejoins, runs, late, link, place, redelivered>>
      PROVE  CommandRest'
  <2>1. \A t \in Slots : consumer'[t] = IF t = s THEN r ELSE consumer[t]
    BY <1>0, <1>2 DEF Turns
  <2>2. Serving' = Serving
    BY <1>2, <2>1 DEF Serving
  <2>3. FirstBatch'
    BY <1>0, <1>2, <2>2, BatchShrinks
  <2>4. Links' /\ Consumers'
    BY <1>0, <1>2, <2>1, <2>2 DEF Links, Consumers
  <2>5. Holding' /\ Handled'
    BY <1>0, <1>2, <2>1 DEF Holding, Handled, Consumers
  <2>6. Served'
    BY <1>2, <2>1 DEF Served
  <2> QED BY <2>3, <2>4, <2>5, <2>6 DEF CommandRest
<1>3. ASSUME consumer' = [consumer EXCEPT ![s] = NoConsumer],
             UNCHANGED <<phase, watch, rejoins, runs, late>>, phase # "exited",
             link'.gen = link.gen, ~link.conn => ~link'.conn,
             \/ ~Connected' /\ Returned(place)
             \/ /\ UNCHANGED <<link, place, redelivered>>
                /\ (~Connected \/ phase # "serving" \/ (consumer[s].pc = "receive" /\ consumer[s].gen # link.gen))
      PROVE  CommandRest'
  <2>1. \A t \in Slots : consumer'[t] = IF t = s THEN NoConsumer ELSE consumer[t]
    BY <1>0, <1>3
  <2>2. Serving' \subseteq Serving
    BY <1>1, <2>1 DEF Serving
  <2>3. FirstBatch'
    BY <1>0, <1>3, <2>2, BatchShrinks
  <2>4. Links' /\ Consumers'
    BY <1>0, <1>1, <1>3, <2>1, <2>2 DEF Links, Consumers
  <2>5. CASE ~Connected' /\ Returned(place)
    <3>1. /\ place' \in [Messages -> {"ready", "acked", "discarded"}]
          /\ \A m \in Messages :
               /\ place[m] = "unacked" => place'[m] = "ready" /\ m \in redelivered'
               /\ place[m] # "unacked" => place'[m] = place[m] /\ (m \in redelivered' <=> m \in redelivered)
      BY <2>5, ReturnedIs
    <3>2. Holding' /\ Served'
      BY <1>3, <2>5, <3>1 DEF Holding, Served
    <3>3. Handled'
      BY <1>0, <1>1, <1>3, <2>1, <2>5, <3>1 DEF Handled
    <3> QED BY <2>3, <2>4, <3>2, <3>3 DEF CommandRest
  <2>6. CASE /\ UNCHANGED <<link, place, redelivered>>
             /\ (~Connected \/ phase # "serving" \/ (consumer[s].pc = "receive" /\ consumer[s].gen # link.gen))
    <3>1. Holding'
      BY <1>0, <1>1, <1>3, <2>1, <2>6 DEF Holding
    <3>2. Handled'
      BY <1>0, <1>1, <1>3, <2>1, <2>6 DEF Handled
    <3>3. Served'
      BY <1>0, <1>1, <1>3, <2>1, <2>6 DEF Served
    <3> QED BY <2>3, <2>4, <3>1, <3>2, <3>3 DEF CommandRest
  <2> QED BY <1>3, <2>5, <2>6
<1>4. CASE Consume(s)
  <2>1. consumer[s].pc = "start" /\ phase # "exited" /\ UNCHANGED <<phase, watch, rejoins, runs, late>>
    BY <1>4, ConsumeIs
  <2>2. PICK r \in ConsumerRec : Turns(s, r) /\
              \/ /\ r.msgs = consumer[s].msgs /\ r.msg = consumer[s].msg
                 /\ r.pc = "receive" /\ r.gen = link.gen
                 /\ Connected /\ UNCHANGED <<link, place, redelivered>>
              \/ /\ r = NoConsumer
                 /\ \/ Connected /\ LoseConnection
                    \/ Connected /\ LoseChannel
                    \/ ~Connected /\ UNCHANGED <<link, place, redelivered>>
    BY <1>4, ConsumeIs
  <2>3. LoseConnection \/ LoseChannel =>
          ~Connected' /\ Returned(place) /\ link'.gen = link.gen /\ (~link.conn => ~link'.conn)
    BY <1>0 DEF LoseConnection, LoseChannel
  <2>4. CASE r = NoConsumer
    BY <1>1, <1>3, <2>1, <2>2, <2>3, <2>4 DEF Turns
  <2>5. CASE r # NoConsumer
    BY <1>2, <2>1, <2>2, <2>5
  <2> QED BY <2>4, <2>5
<1>5. CASE StopConsuming(s)
  <2>1. /\ consumer' = [consumer EXCEPT ![s] = NoConsumer] /\ consumer[s].pc = "receive" /\ phase # "exited"
        /\ UNCHANGED <<phase, link, watch, rejoins, place, redelivered, runs, late>>
        /\ phase # "serving" \/ ~OnChannel(s)
    BY <1>5 DEF StopConsuming, EndConsumer, Cancelled
  <2> QED BY <1>3, <2>1
<1> QED BY <1>4, <1>5

\* A consumer is delivered to, works and settles.
LEMMA WorkKept ==
  ASSUME CommandType, CommandRest, NEW s \in Slots,
         Settled(s) \/ \E m \in Messages : DeliverTo(s, m) \/ ProcessMessage(s, m)
  PROVE  CommandRest'
<1> USE DEF Connected, OnChannel, Held, Alive
<1>0. /\ Links /\ Consumers /\ Holding /\ Handled /\ Served /\ FirstBatch
      /\ consumer \in [Slots -> ConsumerRec] /\ consumer[s].msg \in Messages \cup {NoMessage}
      /\ \A t \in Slots : consumer[t].msgs \in SUBSET Messages /\ consumer[t].msg \in Messages \cup {NoMessage}
      /\ NoMessage \notin Messages
      /\ place \in [Messages -> {"ready", "unacked", "acked", "discarded"}]
      /\ runs \in [Messages -> 0 .. 2]
  BY CommandAssumption DEF CommandRest, CommandType, ConsumerRec
<1>1. ASSUME NEW r \in ConsumerRec, Turns(s, r), r.gen = consumer[s].gen, r.pc \in {"receive", "process"},
             consumer[s].pc \in {"receive", "process"}, r.pc = "process" <=> r.msg # NoMessage,
             UNCHANGED <<phase, link, watch, rejoins, late>>
      PROVE  Links' /\ Consumers' /\ Served' /\ FirstBatch'
  <2>1. \A t \in Slots : consumer'[t] = IF t = s THEN r ELSE consumer[t]
    BY <1>0, <1>1 DEF Turns
  <2>2. Serving' = Serving
    BY <1>1, <2>1 DEF Serving
  <2>3. FirstBatch'
    BY <1>0, <1>1, <2>2, BatchShrinks
  <2>4. Links'
    BY <1>0, <1>1, <2>1, <2>2 DEF Links
  <2>5. Consumers'
    BY <1>0, <1>1, <2>1 DEF Consumers
  <2>6. Served'
    BY <1>0, <1>1, <2>1 DEF Served
  <2> QED BY <2>3, <2>4, <2>5, <2>6
<1>2. ASSUME NEW m \in Messages, DeliverTo(s, m) PROVE CommandRest'
  <2>1. PICK r \in ConsumerRec :
           Turns(s, r) /\ r.pc = consumer[s].pc /\ r.gen = consumer[s].gen
           /\ r.msg = consumer[s].msg /\ r.msgs = consumer[s].msgs \cup {m}
    BY <1>2, DeliverIs
  <2>2. /\ consumer[s].pc \in {"receive", "process"} /\ OnChannel(s) /\ phase # "exited"
        /\ place[m] = "ready" /\ place' = [place EXCEPT ![m] = "unacked"]
        /\ UNCHANGED <<phase, link, watch, rejoins, redelivered, runs, late>>
    BY <1>2 DEF DeliverTo
  <2>3. \A t \in Slots : consumer'[t] = IF t = s THEN r ELSE consumer[t]
    BY <1>0, <2>1 DEF Turns
  <2>4. Links' /\ Consumers' /\ Served' /\ FirstBatch'
    BY <1>0, <1>1, <2>1, <2>2 DEF Consumers
  <2>5. Holding'
    BY <1>0, <2>1, <2>2, <2>3 DEF Holding
  <2>6. Handled'
    BY <1>0, <2>1, <2>2, <2>3 DEF Handled, Consumers
  <2> QED BY <2>4, <2>5, <2>6 DEF CommandRest
<1>3. ASSUME NEW m \in Messages, ProcessMessage(s, m) PROVE CommandRest'
  <2>1. PICK r \in ConsumerRec :
           Turns(s, r) /\ r.pc = "process" /\ r.gen = consumer[s].gen
           /\ r.msg = m /\ r.msgs = consumer[s].msgs \ {m}
    BY <1>3, ProcessIs
  <2>2. /\ consumer[s].pc = "receive" /\ OnChannel(s) /\ phase # "exited" /\ m \in consumer[s].msgs
        /\ \A n \in Messages : runs'[n] = IF n = m /\ runs[n] < 2 THEN runs[n] + 1 ELSE runs[n]
        /\ UNCHANGED <<phase, link, watch, rejoins, place, redelivered, late>>
    BY <1>0, <1>3 DEF ProcessMessage
  <2>3. \A t \in Slots : consumer'[t] = IF t = s THEN r ELSE consumer[t]
    BY <1>0, <2>1 DEF Turns
  <2>4. Links' /\ Consumers' /\ Served' /\ FirstBatch'
    BY <1>0, <1>1, <2>1, <2>2
  <2>5. Holding'
    BY <1>0, <2>1, <2>2, <2>3 DEF Holding, Consumers
  <2>6. Handled'
    BY <1>0, <2>1, <2>2, <2>3 DEF Handled, Holding, Consumers
  <2> QED BY <2>4, <2>5, <2>6 DEF CommandRest
<1>4. CASE Settled(s)
  <2>0. /\ consumer[s].pc = "process" /\ phase # "exited" /\ consumer[s].msg \in Messages
        /\ UNCHANGED <<phase, link, watch, rejoins, runs, late>>
    BY <1>0, <1>4, SettledIs
  <2>1. PICK r \in ConsumerRec : /\ Turns(s, r) /\ r.pc = "receive" /\ r.gen = consumer[s].gen
                                 /\ r.msg = NoMessage /\ r.msgs = consumer[s].msgs
    BY <1>0, <1>4, SettledIs
  <2>2. redelivered' = redelivered
    BY <1>0, <1>4, SettledIs
  <2>3. \A t \in Slots : consumer'[t] = IF t = s THEN r ELSE consumer[t]
    BY <1>0, <2>1 DEF Turns
  <2>4. Links' /\ Consumers' /\ Served' /\ FirstBatch'
    BY <1>0, <1>1, <2>0, <2>1
  <2>5. CASE ~OnChannel(s)
    <3>1. UNCHANGED place
      BY <1>0, <1>4, <2>5, SettledIs
    <3>2. Holding'
      BY <1>0, <2>0, <2>1, <2>3, <2>5, <3>1 DEF Holding
    <3>3. Handled'
      BY <1>0, <2>0, <2>1, <2>2, <2>3, <2>5, <3>1 DEF Handled
    <3> QED BY <2>4, <3>2, <3>3 DEF CommandRest
  <2>6. CASE OnChannel(s)
    <3>1. PICK p \in {"acked", "ready", "discarded"} :
                /\ place' = [place EXCEPT ![consumer[s].msg] = p]
                /\ p = "acked" => consumer[s].msg \notin UnknownKey
                /\ p = "ready" => consumer[s].msg \in redelivered
                /\ p = "discarded" => consumer[s].msg \in UnknownKey /\ consumer[s].msg \notin redelivered
      BY <1>0, <1>4, <2>6, SettledIs
    <3>2. Holding'
      BY <1>0, <2>0, <2>1, <2>3, <2>6, <3>1 DEF Holding
    <3>3. Handled'
      BY <1>0, <2>0, <2>1, <2>2, <2>3, <2>6, <3>1 DEF Handled
    <3> QED BY <2>4, <3>2, <3>3 DEF CommandRest
  <2> QED BY <2>5, <2>6
<1> QED BY <1>2, <1>3, <1>4

\* A queue is configured: worker.queue_names has one by default (config.go:269).
SomeQueue == Queues # {}

\* Every step keeps the invariant.
LEMMA CommandKept ==
  ASSUME SomeQueue, CommandInv, CommandNext
  PROVE  CommandInv'
<1>0. CommandType /\ CommandRest /\ Links /\ Consumers /\ Queues # {}
      /\ link \in [gen : Nat, conn : BOOLEAN, chan : BOOLEAN]
  BY DEF CommandInv, CommandRest, SomeQueue, CommandType
<1>1. CommandType'
  BY <1>0, CommandTypeKept
<1>2. ASSUME FirstConnect \/ Watch \/ SeeLoss \/ GiveUp \/ Reconnect \/ Signal PROVE CommandRest'
  BY <1>0, <1>2, WatchKept
<1>3. ASSUME ConnectRedis PROVE CommandRest'
  <2>1. CASE EnoughSlots /\ StartConsumers /\ phase' = "serving" /\ UNCHANGED <<place, redelivered>>
    BY <1>0, <1>3, <2>1, StartsKept DEF ConnectRedis
  <2>2. CASE phase' = "exited" /\ Returned(place) /\ UNCHANGED consumer
    BY <1>0, <1>3, <2>2, LossKept DEF ConnectRedis
  <2> QED BY <1>3, <2>1, <2>2 DEF ConnectRedis
<1>4. ASSUME RestartConsumers PROVE CommandRest'
  BY <1>0, <1>4, StartsKept DEF RestartConsumers
<1>5. LoseConnection => ~Connected' /\ Returned(place) /\ link'.gen = link.gen /\ ~link'.conn
  BY <1>0 DEF LoseConnection, Connected
<1>6. ASSUME ConnectionBreaks PROVE CommandRest'
  BY <1>0, <1>5, <1>6, LossKept DEF ConnectionBreaks
<1>7. ASSUME ReturnFromRun PROVE CommandRest'
  <2>1. Serving = {} /\ phase = "waiting" /\ phase' = "returned" /\ UNCHANGED <<watch, rejoins, consumer, runs, late>>
    BY <1>7 DEF ReturnFromRun, Waited, Serving
  <2>2. CASE link.gen = 1 /\ link.conn
    BY <1>0, <1>5, <1>7, <2>1, <2>2, LossKept DEF ReturnFromRun
  <2>3. CASE ~(link.gen = 1 /\ link.conn)
    <3>1. UNCHANGED <<link, place, redelivered>>
      BY <1>7, <2>3 DEF ReturnFromRun
    <3>2. Serving' = Serving
      BY <2>1 DEF Serving, Alive
    <3>3. FirstBatch'
      BY <1>0, <3>1, <3>2, BatchShrinks DEF CommandRest
    <3> QED BY <1>0, <2>1, <3>1, <3>2, <3>3
            DEF CommandRest, Links, Consumers, Holding, Handled, Served, Connected, OnChannel, Held
  <2> QED BY <2>2, <2>3
<1>8. ASSUME Exit PROVE CommandRest'
  BY <1>0, <1>8, LossKept DEF Exit
<1>9. ASSUME NEW s \in Slots, Consume(s) \/ StopConsuming(s) PROVE CommandRest'
  BY <1>0, <1>9, ConsumeKept
<1>10. ASSUME NEW s \in Slots, Settled(s) \/ \E m \in Messages : DeliverTo(s, m) \/ ProcessMessage(s, m)
       PROVE  CommandRest'
  BY <1>0, <1>10, WorkKept
<1>11. CommandRest'
  BY <1>2, <1>3, <1>4, <1>6, <1>7, <1>8, <1>9, <1>10 DEF CommandNext
<1> QED BY <1>1, <1>11 DEF CommandInv, CommandRest

\* While the channel of the worker program is open its queues have consumers or will
\* get them, before a reconnect no more than configured; only what was handled is
\* acked and only what is unknown, on its first delivery, discarded; a message is
\* handled twice only if it was redelivered; and runWorker returns with a message in
\* work only after a late reconnect (main.go:113-114, 198-334).
THEOREM QueuesServed ==
  ASSUME SomeQueue
  PROVE  CommandInit /\ [][CommandNext]_commandVars => []QueuesAreServed
<1>1. CommandInit => CommandInv
  <2> SUFFICES ASSUME CommandInit PROVE CommandInv
    OBVIOUS
  <2>1. CommandType
    <3>1. NoConsumer \in ConsumerRec
      BY DEF NoConsumer, ConsumerRec
    <3>2. link \in [gen : Nat, conn : BOOLEAN, chan : BOOLEAN]
      BY DEF CommandInit
    <3>3. place \in [Messages -> {"ready", "unacked", "acked", "discarded"}] /\ runs \in [Messages -> 0 .. 2]
      BY DEF CommandInit
    <3> QED BY <3>1, <3>2, <3>3 DEF CommandInit, CommandType
  <2>2. Serving = {}
    BY DEF CommandInit, Serving, Alive, NoConsumer
  <2>3. /\ link.gen = 0 /\ ~link.conn /\ phase = "rabbit" /\ watch = "none" /\ rejoins = 0
        /\ \A s \in Slots : consumer[s] = NoConsumer
        /\ \A m \in Messages : place[m] = "ready" /\ runs[m] = 0
    BY DEF CommandInit
  <2>4. /\ NoConsumer.pc = "none" /\ NoConsumer.gen = 0 /\ NoConsumer.msgs = {}
        /\ NoConsumer.msg = NoMessage
    BY DEF NoConsumer
  <2>5. Links /\ Consumers
    BY <2>2, <2>3, <2>4 DEF Links, Consumers
  <2>6. Holding /\ Handled /\ Served
    BY <2>3, <2>4 DEF Holding, Handled, Served, Connected, OnChannel
  <2>7. FirstBatch
    BY <2>3 DEF FirstBatch
  <2> QED BY <2>1, <2>5, <2>6, <2>7 DEF CommandInv
<1>2. CommandInv /\ [CommandNext]_commandVars => CommandInv'
  <2> SUFFICES ASSUME CommandInv, [CommandNext]_commandVars PROVE CommandInv'
    OBVIOUS
  <2>1. CASE CommandNext
    BY <2>1, CommandKept
  <2>2. CASE UNCHANGED commandVars
    <3>1. UNCHANGED <<phase, link, watch, rejoins, consumer, place, redelivered, runs, late>>
      BY <2>2 DEF commandVars
    <3>2. Serving' = Serving
      BY <3>1 DEF Serving, Alive
    <3>3. FirstBatch'
      BY <3>1, <3>2, BatchShrinks DEF CommandInv
    <3> QED BY <3>1, <3>2, <3>3 DEF CommandInv, CommandType, Links, Consumers, Holding, Handled, Served,
               Connected, OnChannel, Held, Alive
  <2> QED BY <2>1, <2>2
<1>3. CommandInv => QueuesAreServed
  <2> SUFFICES ASSUME CommandInv PROVE QueuesAreServed
    OBVIOUS
  <2>1. (phase = "serving" /\ Connected) => Serving # {} \/ rejoins > 0
    BY DEF CommandInv, Served, Serving, Alive
  <2>2. runs \in [Messages -> 0 .. 2]
    BY DEF CommandInv, CommandType
  <2> QED BY <2>1, <2>2 DEF CommandInv, Handled, Links, FirstBatch, QueuesAreServed
<1> QED BY <1>1, <1>2, <1>3, PTL

==============================================================================
