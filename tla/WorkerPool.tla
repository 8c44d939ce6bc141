----------------------------- MODULE WorkerPool -----------------------------
(***************************************************************************)
(* worker.WorkerPool (internal/worker/pool.go): the worker goroutines and  *)
(* the list that is meant to describe them, the bounded task channel, the  *)
(* scale loop of every Start, and the write lock mu, which addWorker takes *)
(* by itself.  A goroutine is in `live` until it returns; the list and the *)
(* goroutines part ways when a worker panics (listed, not live) and when   *)
(* the pool scales down (live, not listed).                                *)
(***************************************************************************)
EXTENDS Integers, Sequences, FiniteSets

CONSTANTS
  Tasks, NoTask,
  NilEnvelope,        \* tasks submitted without an envelope: processTask panics
  MinWorkers, MaxWorkers, QueueLength,   \* PoolConfig
  UpPercent, DownPercent,                \* ScaleUpFactor, ScaleDownFactor * 100
  MaxStarts,          \* bound: calls of Start
  MaxSeq              \* bound: workers ever created

\* NewWorkerPool raises MinWorkers to 1 and MaxWorkers to MinWorkers.
ASSUME PoolAssumption ==
  /\ NoTask \notin Tasks /\ NilEnvelope \subseteq Tasks
  /\ MinWorkers \in Nat \ {0} /\ MaxWorkers \in Nat /\ MaxWorkers >= MinWorkers
  /\ QueueLength \in Nat \ {0} /\ UpPercent \in Nat /\ DownPercent \in Nat
  /\ MaxStarts \in Nat /\ MaxSeq \in Nat /\ MaxSeq >= MaxStarts * MinWorkers

VARIABLES
  running, starts,
  stopPc,       \* Stop: "none", "waiting" for the workers, "lock", "returned"
  adding,       \* workers the current Start has still to add
  workers,      \* wp.workers, by worker number
  live,         \* goroutines inside workerRun
  doing,        \* the task a worker's busy flag stands for
  seq,          \* workerSeq
  taskCh,       \* queued tasks
  checked,      \* tasks whose Submit has read running and not yet sent
  accepted, executed,
  loop,         \* the scale loop of each Start: where scale() is
  quota,        \* workers it has still to add
  stuck         \* a loop holds mu and waits for mu

pool == <<workers, live, doing, seq>>
tasks == <<taskCh, checked, accepted, executed>>
scaler == <<loop, quota, stuck>>
vars == <<running, starts, stopPc, adding, pool, tasks, scaler>>

Loops == 1 .. MaxStarts
Ids == 1 .. MaxSeq

Init ==
  /\ running = FALSE /\ starts = 0 /\ stopPc = "none" /\ adding = 0
  /\ workers = <<>> /\ live = {} /\ doing = [i \in Ids |-> NoTask] /\ seq = 0
  /\ taskCh = <<>> /\ checked = {} /\ accepted = {} /\ executed = {}
  /\ loop = [g \in Loops |-> "off"] /\ quota = [g \in Loops |-> 0] /\ stuck = FALSE

Spawned == live \cup {seq + 1}

\* addWorker, once it has mu.
AddWorker ==
  /\ ~stuck
  /\ seq' = seq + 1
  /\ workers' = Append(workers, seq + 1)
  /\ live' = Spawned
  /\ UNCHANGED doing
-----------------------------------------------------------------------------
(* Start, Stop, Submit *)

Start ==
  /\ ~running /\ stopPc \in {"none", "returned"} /\ starts < MaxStarts
  /\ seq + MinWorkers <= MaxSeq
  /\ running' = TRUE /\ starts' = starts + 1 /\ stopPc' = "none" /\ adding' = MinWorkers
  /\ UNCHANGED <<pool, tasks, scaler>>

\* The workers of Start; after the last one its scale loop begins.
StartAdds ==
  /\ adding > 0 /\ AddWorker /\ adding' = adding - 1
  /\ loop' = IF adding = 1 THEN [loop EXCEPT ![starts] = "wait"] ELSE loop
  /\ UNCHANGED <<running, starts, stopPc, tasks, quota, stuck>>

Stop ==
  /\ running /\ adding = 0
  /\ running' = FALSE /\ stopPc' = "waiting"
  /\ UNCHANGED <<starts, adding, pool, tasks, scaler>>

\* wg.Wait returned or ShutdownTimeout passed: either way Stop goes on.
StopWaited ==
  /\ stopPc = "waiting" /\ stopPc' = "lock"
  /\ UNCHANGED <<running, starts, adding, pool, tasks, scaler>>

StopForgets ==
  /\ stopPc = "lock" /\ ~stuck
  /\ workers' = <<>> /\ stopPc' = "returned"
  /\ UNCHANGED <<running, starts, adding, live, doing, seq, tasks, scaler>>

SubmitChecks(t) ==
  /\ running /\ t \notin accepted \cup checked
  /\ checked' = checked \cup {t}
  /\ UNCHANGED <<running, starts, stopPc, adding, pool, taskCh, accepted, executed, scaler>>

HasRoom == Len(taskCh) < QueueLength

\* The non-blocking send: the task is queued, or Submit returns an error because
\* the channel is full or the caller's context is done.
SubmitSends(t) ==
  /\ t \in checked /\ checked' = checked \ {t}
  /\ \/ /\ HasRoom
        /\ taskCh' = Append(taskCh, t) /\ accepted' = accepted \cup {t}
     \/ UNCHANGED <<taskCh, accepted>>
  /\ UNCHANGED <<running, starts, stopPc, adding, pool, executed, scaler>>
-----------------------------------------------------------------------------
(* workerRun: its context is Background, so nothing but a panic ends it *)

\* MUTANT: a worker leaves its loop when the pool is stopped.
Receives_UntilStop(i) == i \in live /\ running
Receives(i) == i \in live

\* processTask runs no handler: it reports a nil result.  Without an envelope it
\* panics before its deferred reset of the busy flag is in place.
TakeTask(i) ==
  /\ Receives(i) /\ doing[i] = NoTask /\ taskCh # <<>>
  /\ taskCh' = Tail(taskCh)
  /\ doing' = [doing EXCEPT ![i] = Head(taskCh)]
  /\ live' = IF Head(taskCh) \in NilEnvelope THEN live \ {i} ELSE live
  /\ UNCHANGED <<running, starts, stopPc, adding, workers, seq, checked, accepted,
                 executed, scaler>>

FinishTask(i) ==
  /\ i \in live /\ doing[i] # NoTask
  /\ executed' = executed \cup {doing[i]}
  /\ doing' = [doing EXCEPT ![i] = NoTask]
  /\ UNCHANGED <<running, starts, stopPc, adding, workers, live, seq, taskCh,
                 checked, accepted, scaler>>
-----------------------------------------------------------------------------
(* scaleLoop and scale *)

\* The loop of Start number g has been cancelled.
CtxDone(g) == ~running \/ g < starts

\* A tick is chosen even when the context is done as well.
Tick(g) ==
  /\ loop[g] = "wait" /\ seq + MaxWorkers <= MaxSeq
  /\ loop' = [loop EXCEPT ![g] = "scale"]
  /\ UNCHANGED <<running, starts, stopPc, adding, pool, tasks, quota, stuck>>

LoopEnds(g) ==
  /\ loop[g] = "wait" /\ CtxDone(g)
  /\ loop' = [loop EXCEPT ![g] = "off"]
  /\ UNCHANGED <<running, starts, stopPc, adding, pool, tasks, quota, stuck>>

\* max(1, int(total * 0.25))
ScaleBy(total) == IF total < 8 THEN 1 ELSE total \div 4

UpBy(total) ==
  IF total + ScaleBy(total) > MaxWorkers THEN MaxWorkers - total ELSE ScaleBy(total)

Overloaded(total) ==
  Len(taskCh) * 100 >= UpPercent * QueueLength /\ total < MaxWorkers

\* The snapshot under the read lock and the branch taken on it.  With an empty
\* list scale() locks mu and calls addWorker, which waits for it forever.
ScaleLooks(g) ==
  /\ loop[g] = "scale" /\ ~stuck
  /\ LET total == Len(workers) IN
     \/ /\ total = 0 /\ stuck' = TRUE
        /\ loop' = [loop EXCEPT ![g] = "stuck"] /\ UNCHANGED quota
     \/ /\ total > 0 /\ Overloaded(total)
        /\ quota' = [quota EXCEPT ![g] = UpBy(total)]
        /\ loop' = [loop EXCEPT ![g] = "up"] /\ UNCHANGED stuck
     \/ /\ total > 0 /\ ~Overloaded(total) /\ taskCh = <<>>
        /\ loop' = [loop EXCEPT ![g] = "down"] /\ UNCHANGED <<quota, stuck>>
     \/ /\ total > 0 /\ ~Overloaded(total) /\ taskCh # <<>>
        /\ loop' = [loop EXCEPT ![g] = "wait"] /\ UNCHANGED <<quota, stuck>>
  /\ UNCHANGED <<running, starts, stopPc, adding, pool, tasks>>

ScaleUp(g) ==
  /\ loop[g] = "up" /\ AddWorker
  /\ quota' = [quota EXCEPT ![g] = @ - 1]
  /\ loop' = IF quota[g] = 1 THEN [loop EXCEPT ![g] = "wait"] ELSE loop
  /\ UNCHANGED <<running, starts, stopPc, adding, tasks, stuck>>

Busy == {k \in DOMAIN workers : doing[workers[k]] # NoTask}

\* MUTANT: idle workers are removed without a floor.
RemoveFrom_NoFloor(total) == 0
RemoveFrom(total) ==
  IF total - ScaleBy(total) < MinWorkers THEN MinWorkers ELSE total - ScaleBy(total)

\* The second snapshot, with the busy count, and the guard on it.
ScaleCounts(g) ==
  /\ loop[g] = "down" /\ ~stuck
  /\ LET total == Len(workers) IN
     IF /\ total > MinWorkers
        /\ (total - Cardinality(Busy)) * 100 >= DownPercent * total
     THEN /\ quota' = [quota EXCEPT ![g] = RemoveFrom(total)]
          /\ loop' = [loop EXCEPT ![g] = "cut"]
     ELSE loop' = [loop EXCEPT ![g] = "wait"] /\ UNCHANGED quota
  /\ UNCHANGED <<running, starts, stopPc, adding, pool, tasks, stuck>>

\* The truncation of the list.  The goroutines cut off go on running.
ScaleDown(g) ==
  /\ loop[g] = "cut" /\ ~stuck
  /\ workers' = IF Len(workers) > quota[g] THEN SubSeq(workers, 1, quota[g]) ELSE workers
  /\ loop' = [loop EXCEPT ![g] = "wait"] /\ quota' = [quota EXCEPT ![g] = 0]
  /\ UNCHANGED <<running, starts, stopPc, adding, live, doing, seq, tasks, stuck>>
-----------------------------------------------------------------------------
Next ==
  \/ Start \/ StartAdds \/ Stop \/ StopWaited \/ StopForgets
  \/ \E t \in Tasks : SubmitChecks(t) \/ SubmitSends(t)
  \/ \E i \in Ids : TakeTask(i) \/ FinishTask(i)
  \/ \E g \in Loops : Tick(g) \/ LoopEnds(g) \/ ScaleLooks(g) \/ ScaleUp(g)
                      \/ ScaleCounts(g) \/ ScaleDown(g)

Spec == Init /\ [][Next]_vars

\* Goroutines are scheduled; the ticker and the callers need not be.
Fairness == \A i \in Ids : WF_vars(TakeTask(i)) /\ WF_vars(FinishTask(i))
FairSpec == Spec /\ Fairness
-----------------------------------------------------------------------------
\* scale() acts on what it read under locks it has released.  Still, in its first
\* run, from the end of Start to the call of Stop, the list keeps between
\* MinWorkers and MaxWorkers workers, and scale() locks itself out of the mutex
\* only after a Stop has emptied the list under it (lines 149, 396-461).
ScaleIsSafe ==
  /\ (starts = 1 /\ running /\ adding = 0) => Len(workers) \in MinWorkers .. MaxWorkers
  /\ stuck => (starts > 1 \/ ~running)

\* An accepted task with an envelope is executed even when Stop comes first,
\* as long as one worker goroutine has not panicked: workers outlive Stop,
\* scale-down and restart and drain the one channel (lines 252-305).
AcceptedIsExecuted ==
  \A t \in Tasks \ NilEnvelope : (t \in accepted) ~> (t \in executed \/ live = {})

=============================================================================
