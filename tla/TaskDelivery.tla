---------------------------- MODULE TaskDelivery ----------------------------
(***************************************************************************)
(* A task message from the broker through queue.Consumer (consumer.go) and *)
(* worker.MessageHandler (handler.go) to its settlement: the worker        *)
(* goroutines' retry loop, the handler's outcome paths, the task's row in  *)
(* the database and the dead-letter queue.  The broker is external: it     *)
(* closes a channel on which a delivery is settled twice, returns unacked  *)
(* messages to the queue when a channel or the process ends, and drops a   *)
(* rejected message its dead-letter exchange cannot route (Topology).      *)
(***************************************************************************)
EXTENDS Topology, TaskProcessor, Integers

CONSTANTS
  Msgs, Workers, NoMsg,
  Poison,                 \* messages that do not deserialize
  Prefetch, MaxRetry, RequeueOnFail,                    \* ConsumerConfig
  HandlerConfigs,         \* the HandlerConfig values considered
  TaskKinds,              \* the tasks that a message may hold
  MaxRestarts             \* bound: process restarts in one behaviour

ASSUME DeliveryAssumption ==
  /\ NoMsg \notin Msgs /\ Poison \subseteq Msgs
  /\ Prefetch \in Nat \ {0} /\ MaxRetry \in Nat /\ RequeueOnFail \in BOOLEAN
  /\ \A c \in HandlerConfigs :
       /\ c.MaxRetries \in Nat
       /\ {c.AckOnSuccess, c.NackOnFailure, c.RequeueOnNack} \subseteq BOOLEAN
  /\ MaxRestarts \in Nat

VARIABLES
  ready,        \* messages waiting in nexuspipe.events
  unacked,      \* delivered on the channel and not settled
  buffered,     \* of those, still in the deliveries channel
  acked,        \* settled by an ack the broker accepted
  dlq,          \* messages with a copy in a dead-letter queue
  chan,         \* the consumer's channel: "none", "open" or "closed"
  fault,        \* the broker is about to close the channel
  running, cancelled,        \* Consumer.running, its context is done
  pc, cur, attempt, settled, \* per worker: place, delivery, loop counter,
                             \* whether its delivery tag is settled
  db,           \* status in task_executions
  seen,         \* messages some handler call received
  okRuns,       \* successful ProcessTask runs of a message, up to 2
  excuse,       \* why a message may be missing: "shutdown", "retry", "publish"
  dbMissed,     \* completed runs whose UpdateStatus failed
  restarts,
  cfg,          \* MessageHandler.cfg, fixed by NewMessageHandler
  task          \* the task in each message

broker == <<ready, unacked, buffered, acked, dlq, chan, fault>>
history == <<seen, okRuns, excuse, dbMissed>>
vars == <<broker, running, cancelled, pc, cur, attempt, settled, db, history, restarts, cfg, task>>

Labels == {"off", "idle", "attempt", "handle", "process", "success", "ack",
           "retry", "nackRetry", "failed", "route", "nack", "returnNil", "returnErr"}

Goto(w, label) == pc' = [pc EXCEPT ![w] = label]
Excuse(m, why) == excuse' = [excuse EXCEPT ![m] = @ \cup why]

Init ==
  /\ ready = Msgs /\ unacked = {} /\ buffered = {} /\ acked = {} /\ dlq = {}
  /\ chan = "none" /\ fault = FALSE /\ running = FALSE /\ cancelled = FALSE
  /\ pc = [w \in Workers |-> "off"] /\ cur = [w \in Workers |-> NoMsg]
  /\ attempt = [w \in Workers |-> 0] /\ settled = [w \in Workers |-> FALSE]
  /\ db = [m \in Msgs |-> "pending"]
  /\ seen = {} /\ okRuns = [m \in Msgs |-> 0] /\ dbMissed = {}
  /\ excuse = [m \in Msgs |-> {}] /\ restarts = 0
  /\ cfg \in HandlerConfigs
  /\ task \in [Msgs \ Poison -> TaskKinds]
-----------------------------------------------------------------------------
(* The broker *)

\* Delivery goes on after Cancel: the channel stays open and the consumer tag
\* is never cancelled.
Deliver(m) ==
  /\ chan = "open" /\ ~fault /\ m \in ready /\ Cardinality(unacked) < Prefetch
  /\ ready' = ready \ {m} /\ unacked' = unacked \cup {m} /\ buffered' = buffered \cup {m}
  /\ UNCHANGED <<acked, dlq, chan, fault, running, cancelled, pc, cur, attempt,
                 settled, db, history, restarts, cfg, task>>

CloseChannel ==
  /\ chan = "open" /\ fault
  /\ chan' = "closed" /\ fault' = FALSE
  /\ ready' = ready \cup unacked /\ unacked' = {} /\ buffered' = {}
  /\ UNCHANGED <<acked, dlq, running, cancelled, pc, cur, attempt, settled, db,
                 history, restarts, cfg, task>>

\* The copies a message published to the handler's DLQName ends up in.
DlqCopies(m) == IF Route("", "tasks.dlq") # {} THEN {m} ELSE {}
\* The copies of a message the events queue dead-letters.
DeadLetterCopies(m) ==
  IF DeadLettered("nexuspipe.events", "event.task") # {} THEN {m} ELSE {}

\* msg.Ack or msg.Nack by worker w, how \in {"ack", "requeue", "reject"}.  On a
\* channel the broker has faulted the frame has no effect; on a delivery that
\* is already settled it is what faults the channel.
Settle(w, how) ==
  LET m == cur[w] IN
  IF chan = "open" /\ ~fault
  THEN /\ fault' = settled[w]
       /\ unacked' = IF settled[w] THEN unacked ELSE unacked \ {m}
       /\ acked' = IF ~settled[w] /\ how = "ack" THEN acked \cup {m} ELSE acked
       /\ ready' = IF ~settled[w] /\ how = "requeue" THEN ready \cup {m} ELSE ready
       /\ dlq' = IF ~settled[w] /\ how = "reject" THEN dlq \cup DeadLetterCopies(m) ELSE dlq
  ELSE UNCHANGED <<fault, unacked, acked, ready, dlq>>

\* MUTANT: every settlement is taken for a failed one.
SettleReturn_Err == "returnErr"
\* What the call returns: an error only once the client knows the channel is gone.
SettleReturn == IF chan = "closed" THEN "returnErr" ELSE "returnNil"

\* The handler settles the delivery and returns to processMessage.
SettleAndReturn(w, how) ==
  /\ Settle(w, how)
  /\ settled' = [settled EXCEPT ![w] = TRUE]
  /\ Goto(w, SettleReturn)

\* processMessage returns to workerLoop; its locals are gone.
Done(w) ==
  /\ Goto(w, "idle")
  /\ cur' = [cur EXCEPT ![w] = NoMsg] /\ attempt' = [attempt EXCEPT ![w] = 0]
  /\ settled' = [settled EXCEPT ![w] = FALSE]
-----------------------------------------------------------------------------
(* Consumer: Start, workerLoop, processMessage, Cancel *)

\* A Start that fails on the channel leaves running set.
Start ==
  /\ ~running /\ ~cancelled /\ running' = TRUE
  /\ \/ chan' = "open" /\ pc' = [w \in Workers |-> "idle"]
     \/ UNCHANGED <<chan, pc>>
  /\ UNCHANGED <<ready, unacked, buffered, acked, dlq, fault, cancelled, cur,
                 attempt, settled, db, history, restarts, cfg, task>>

Take(w, m) ==
  /\ pc[w] = "idle" /\ m \in buffered
  /\ buffered' = buffered \ {m}
  /\ cur' = [cur EXCEPT ![w] = m]
  /\ Goto(w, "attempt")
  /\ UNCHANGED <<ready, unacked, acked, dlq, chan, fault, running, cancelled,
                 attempt, settled, db, history, restarts, cfg, task>>

\* MUTANT: a closed delivery channel is not noticed.
LoopEnds_CancelOnly == cancelled
LoopEnds == cancelled \/ chan = "closed"

WorkerExits(w) ==
  /\ pc[w] = "idle" /\ LoopEnds
  /\ Goto(w, "off")
  /\ UNCHANGED <<broker, running, cancelled, cur, attempt, settled, db, history, restarts, cfg, task>>

\* MUTANT: the check is inverted.
Aborts_Inverted(w) == ~cancelled
\* The context checks at the top of the loop and inside the back-off wait.
Aborts(w) == cancelled

Attempt(w) ==
  /\ pc[w] = "attempt"
  /\ IF Aborts(w)
     THEN Settle(w, "reject") /\ Done(w)
          /\ Excuse(cur[w], IF cancelled THEN {"shutdown"} ELSE {})
          /\ UNCHANGED seen
     ELSE Goto(w, "handle") /\ seen' = seen \cup {cur[w]}
          /\ UNCHANGED <<ready, unacked, acked, dlq, fault, cur, attempt, settled, excuse>>
  /\ UNCHANGED <<buffered, chan, running, cancelled, db, okRuns, dbMissed, restarts, cfg, task>>

\* The handler returned nil: processMessage acks, whoever settled before.
ReturnNil(w) ==
  /\ pc[w] = "returnNil"
  /\ Settle(w, "ack") /\ Done(w)
  /\ UNCHANGED <<buffered, chan, running, cancelled, db, history, restarts, cfg, task>>

LastAttempt(w) == attempt[w] = MaxRetry

\* The handler returned an error: another attempt, or the final nack.
ReturnErr(w) ==
  /\ pc[w] = "returnErr"
  /\ IF LastAttempt(w)
     THEN Settle(w, IF RequeueOnFail THEN "requeue" ELSE "reject") /\ Done(w)
     ELSE attempt' = [attempt EXCEPT ![w] = @ + 1] /\ Goto(w, "attempt")
          /\ UNCHANGED <<ready, unacked, acked, dlq, fault, cur, settled>>
  /\ UNCHANGED <<buffered, chan, running, cancelled, db, history, restarts, cfg, task>>

\* Cancel: the context, then a wait for the workers that a timer cuts short.
Cancel ==
  /\ running /\ ~cancelled /\ cancelled' = TRUE
  /\ UNCHANGED <<broker, running, pc, cur, attempt, settled, db, history, restarts, cfg, task>>

CancelReturns ==
  /\ running /\ cancelled /\ running' = FALSE
  /\ UNCHANGED <<broker, cancelled, pc, cur, attempt, settled, db, history, restarts, cfg, task>>

\* The process dies or is restarted at any point; its connection goes with it.
Restart ==
  /\ restarts < MaxRestarts /\ restarts' = restarts + 1
  /\ ready' = ready \cup unacked /\ unacked' = {} /\ buffered' = {}
  /\ chan' = "none" /\ fault' = FALSE /\ running' = FALSE /\ cancelled' = FALSE
  /\ pc' = [w \in Workers |-> "off"] /\ cur' = [w \in Workers |-> NoMsg]
  /\ attempt' = [w \in Workers |-> 0] /\ settled' = [w \in Workers |-> FALSE]
  /\ UNCHANGED <<acked, dlq, db, history, cfg, task>>
-----------------------------------------------------------------------------
(* MessageHandler *)

\* A publish to the dead-letter queue that may fail without anybody noticing.
PublishToDlq(m) ==
  \/ dlq' = dlq \cup DlqCopies(m) /\ UNCHANGED excuse
  \/ Excuse(m, {"publish"}) /\ UNCHANGED dlq

\* HandleDelivery up to ProcessTask: a message that does not deserialize, or
\* whose context is done, goes to the dead-letter queue and is nacked.
Handle(w) ==
  /\ pc[w] = "handle"
  /\ \/ Goto(w, "nack") /\ PublishToDlq(cur[w])
     \/ cur[w] \notin Poison /\ Goto(w, "process") /\ UNCHANGED <<dlq, excuse>>
  /\ UNCHANGED <<ready, unacked, buffered, acked, chan, fault, running, cancelled,
                 cur, attempt, settled, db, seen, okRuns, dbMissed, restarts, cfg, task>>

\* The retry count in the message body: handleRetry raises only its own copy.
RetryCount == 0

\* ProcessTask returns, and its result picks the handler's path.
Process(w) ==
  /\ pc[w] = "process"
  /\ \E r \in ProcessTask(task[cur[w]]) :
       \/ /\ r.status = "completed"
          /\ Goto(w, "success")
          /\ okRuns' = [okRuns EXCEPT ![cur[w]] = IF @ < 2 THEN @ + 1 ELSE @]
       \/ /\ r.status = "failed" /\ r.retryable /\ RetryCount < cfg.MaxRetries
          /\ Goto(w, "retry") /\ UNCHANGED okRuns
       \/ /\ r.status = "failed" /\ ~(r.retryable /\ RetryCount < cfg.MaxRetries)
          /\ Goto(w, "failed") /\ UNCHANGED okRuns
  /\ UNCHANGED <<broker, running, cancelled, cur, attempt, settled, db, seen,
                 excuse, dbMissed, restarts, cfg, task>>

CompletedStatus(w) == "completed"
\* handleSuccess: the status update, whose error is only logged, then the ack.
HandleSuccess(w) ==
  /\ pc[w] = "success"
  /\ \/ db' = [db EXCEPT ![cur[w]] = CompletedStatus(w)] /\ UNCHANGED dbMissed
     \/ dbMissed' = dbMissed \cup {cur[w]} /\ UNCHANGED db
  /\ Goto(w, IF cfg.AckOnSuccess THEN "ack" ELSE "returnNil")
  /\ UNCHANGED <<broker, running, cancelled, cur, attempt, settled, seen, okRuns,
                 excuse, restarts, cfg, task>>

Ack(w) ==
  /\ pc[w] = "ack"
  /\ SettleAndReturn(w, "ack")
  /\ UNCHANGED <<buffered, chan, running, cancelled, cur, attempt, db, history, restarts, cfg, task>>

\* handleRetry: IncrementRetry leaves the row pending or, at its max_retries,
\* failed; then the nack.
HandleRetry(w) ==
  /\ pc[w] = "retry"
  /\ \E status \in {"pending", "failed", db[cur[w]]} :
       db' = [db EXCEPT ![cur[w]] = status]
  /\ Goto(w, IF cfg.NackOnFailure THEN "nackRetry" ELSE "returnNil")
  /\ Excuse(cur[w], {"retry"})
  /\ UNCHANGED <<broker, running, cancelled, cur, attempt, settled, seen, okRuns,
                 dbMissed, restarts, cfg, task>>

NackRetry(w) ==
  /\ pc[w] = "nackRetry"
  /\ SettleAndReturn(w, IF cfg.RequeueOnNack THEN "requeue" ELSE "reject")
  /\ UNCHANGED <<buffered, chan, running, cancelled, cur, attempt, db, history, restarts, cfg, task>>

HandleFailed(w) ==
  /\ pc[w] = "failed"
  /\ \E status \in {"failed", db[cur[w]]} : db' = [db EXCEPT ![cur[w]] = status]
  /\ Goto(w, "route")
  /\ UNCHANGED <<broker, running, cancelled, cur, attempt, settled, history, restarts, cfg, task>>

\* MUTANT: without a channel the failure is swallowed.
NoChannel_Nil == IF cfg.NackOnFailure THEN "nack" ELSE "returnNil"
NoChannel == IF cfg.NackOnFailure THEN "nack" ELSE "returnErr"

\* routeToDLQ: no channel for the publish (an error unless NackOnFailure), or a
\* publish, and then the nack.
RouteToDlq(w) ==
  /\ pc[w] = "route"
  /\ \/ /\ Goto(w, NoChannel)
        /\ (IF cfg.NackOnFailure THEN Excuse(cur[w], {"publish"}) ELSE UNCHANGED excuse)
        /\ UNCHANGED dlq
     \/ /\ Goto(w, IF cfg.NackOnFailure THEN "nack" ELSE "returnNil")
        /\ PublishToDlq(cur[w])
  /\ UNCHANGED <<ready, unacked, buffered, acked, chan, fault, running, cancelled,
                 cur, attempt, settled, db, seen, okRuns, dbMissed, restarts, cfg, task>>

Nack(w) ==
  /\ pc[w] = "nack"
  /\ SettleAndReturn(w, "reject")
  /\ UNCHANGED <<buffered, chan, running, cancelled, cur, attempt, db, history, restarts, cfg, task>>
-----------------------------------------------------------------------------
WorkerStep(w) ==
  \/ Attempt(w) \/ ReturnNil(w) \/ ReturnErr(w) \/ Handle(w) \/ Process(w)
  \/ HandleSuccess(w) \/ Ack(w) \/ HandleRetry(w) \/ NackRetry(w)
  \/ HandleFailed(w) \/ RouteToDlq(w) \/ Nack(w)

Next ==
  \/ \E m \in Msgs : Deliver(m)
  \/ CloseChannel \/ Start \/ Cancel \/ CancelReturns \/ Restart
  \/ \E w \in Workers, m \in Msgs : Take(w, m)
  \/ \E w \in Workers : WorkerExits(w) \/ WorkerStep(w)

Spec == Init /\ [][Next]_vars

\* Goroutines are scheduled, handlers return (TaskTimeout bounds them) and the
\* broker carries out the close it has decided on.
Fairness ==
  /\ WF_vars(CloseChannel)
  /\ \A w \in Workers : WF_vars(WorkerExits(w)) /\ WF_vars(WorkerStep(w))

FairSpec == Spec /\ Fairness
-----------------------------------------------------------------------------
\* Messages the broker no longer holds.
Gone == Msgs \ (ready \cup unacked)

\* While the process and its channel live, no message is processed
\* successfully twice: a repeat needs a restart or the channel fault that the
\* second settlement causes (consumer.go 141-186).
NoDuplicateWhileHealthy ==
  (restarts = 0 /\ chan = "open" /\ ~fault) => \A m \in Msgs : okRuns[m] <= 1

\* What the broker gives up without an ack is in a dead-letter queue, except on
\* three paths: a retryable failure, which only tasks that reach out to a server
\* or a shell can have; a failed publish; and a shutdown, the only one that
\* discards a message no handler has seen (handler.go 161-284, consumer.go
\* 144-186, processor.go 159-394).
LossIsExcused ==
  \A m \in Gone :
    /\ m \in acked \cup dlq \/ excuse[m] # {}
    /\ m \notin seen => "shutdown" \in excuse[m]
    /\ "retry" \in excuse[m] => task[m].type \in {"http", "webhook", "script", "shell"}

\* What an ack stands for, across crashes, redeliveries and the second ack of
\* processMessage: a success, a dead-letter copy or one of the two paths that
\* hide a failure; and where the handler settles by itself, as in the default
\* HandlerConfig, a success whose row says completed unless the status update
\* itself failed (handler.go 139-284, consumer.go 170-175).
AckMeansDone ==
  \A m \in acked :
    /\ okRuns[m] > 0 \/ m \in dlq \/ excuse[m] \cap {"retry", "publish"} # {}
    /\ (cfg.AckOnSuccess /\ cfg.NackOnFailure)
         => okRuns[m] > 0 /\ (db[m] = "completed" \/ m \in dbMissed)

\* After the channel is closed every worker goroutine returns: settling on the
\* dead channel keeps failing, and the attempt bound ends the loop
\* (consumer.go 121-139, 141-186).
DeadChannelStopsWorkers ==
  (chan = "closed") ~> (chan # "closed" \/ \A w \in Workers : pc[w] = "off")
=============================================================================
