---------------------------- MODULE WorkerCommand ----------------------------
(***************************************************************************)
(* The worker program (cmd/worker/main.go): start-up, the goroutine that   *)
(* watches the connection and dials again, the consumers that each start   *)
(* launches on the channel of the moment, and the shutdown that waits for  *)
(* them.  Only a routing key the program does not know makes               *)
(* handleDelivery fail.  The broker is external: it gives what a lost      *)
(* connection held back to its queue, marked redelivered, closes the       *)
(* channel of a consumer of a queue that does not exist, and the           *)
(* connection of one that reuses a consumer tag.                           *)
(***************************************************************************)
EXTENDS Integers, FiniteSets, Functions

CONSTANTS
  Messages, NoMessage,
  UnknownKey,         \* messages whose routing key handleDelivery does not know
  Queues, HomeQueue,  \* cfg.Worker.QueueNames, and the queue of a message
  Concurrency, PrefetchCount,
  Slots,              \* bound: consumer goroutines at the same time
  MaxDials            \* bound: connections

ASSUME CommandAssumption ==
  /\ NoMessage \notin Messages /\ UnknownKey \subseteq Messages
  /\ HomeQueue \in [Messages -> Queues]
  /\ {Concurrency, PrefetchCount, MaxDials} \subseteq Nat \ {0}
  /\ IsFiniteSet(Queues) /\ IsFiniteSet(Slots)
  /\ Cardinality(Slots) >= Cardinality(Queues) * Concurrency

VARIABLES
  phase,        \* runWorker: "rabbit", "redis", "serving", "waiting", "returned",
                \* "exited"
  link,         \* rmqConn and rmqChan: connections so far, whether they are open
  watch,        \* handleRabbitMQReconnect of the newest connection
  rejoins,    \* startConsumers calls that earlier ones still have to make
  consumer,     \* the goroutine in each slot
  place,        \* a message: "ready", "unacked", "acked" or "discarded"
  redelivered,  \* messages with the flag
  runs,         \* handleDelivery calls for a message, up to 2
  late          \* a consumer was started after the shutdown began

commandVars == <<phase, link, watch, rejoins, consumer, place, redelivered, runs, late>>

\* A goroutine of consumeQueue: its connection, the deliveries that wait in
\* msgs, and the one it processes.
NoConsumer == [pc |-> "none", queue |-> "", id |-> 0, gen |-> 0, msgs |-> {}, msg |-> NoMessage]
Alive(s) == consumer[s].pc # "none"
Connected == link.conn /\ link.chan
OnChannel(s) == consumer[s].gen = link.gen /\ Connected
Cancelled == phase \in {"waiting", "returned", "exited"}

CommandInit ==
  /\ phase = "rabbit" /\ watch = "none" /\ rejoins = 0 /\ late = FALSE
  /\ link = [gen |-> 0, conn |-> FALSE, chan |-> FALSE]
  /\ consumer = [s \in Slots |-> NoConsumer]
  /\ place = [m \in Messages |-> "ready"] /\ redelivered = {}
  /\ runs = [m \in Messages |-> 0]
-----------------------------------------------------------------------------
(* The broker *)

\* A message that is unacked goes back.
Returned(p) ==
  /\ place' = [m \in Messages |-> IF p[m] = "unacked" THEN "ready" ELSE p[m]]
  /\ redelivered' = redelivered \cup {m \in Messages : p[m] = "unacked"}

LoseConnection ==
  /\ link' = [link EXCEPT !.conn = FALSE, !.chan = FALSE] /\ Returned(place)

LoseChannel == link' = [link EXCEPT !.chan = FALSE] /\ Returned(place)

ConnectionBreaks ==
  /\ link.conn /\ phase # "exited" /\ LoseConnection
  /\ UNCHANGED <<phase, watch, rejoins, consumer, runs, late>>

Held(s) == consumer[s].msgs \cup ({consumer[s].msg} \ {NoMessage})

DeliverTo(s, m) ==
  /\ consumer[s].pc \in {"receive", "process"} /\ OnChannel(s) /\ phase # "exited"
  /\ place[m] = "ready" /\ HomeQueue[m] = consumer[s].queue
  /\ Cardinality(Held(s)) < PrefetchCount
  /\ place' = [place EXCEPT ![m] = "unacked"]
  /\ consumer' = [consumer EXCEPT ![s].msgs = @ \cup {m}]
  /\ UNCHANGED <<phase, link, watch, rejoins, redelivered, runs, late>>
-----------------------------------------------------------------------------
(* Connecting, and connecting again *)

\* connectRabbitMQ: the channel, its Qos, and a goroutine that will watch.
ConnectRabbitMQ ==
  /\ link.gen < MaxDials
  /\ link' = [gen |-> link.gen + 1, conn |-> TRUE, chan |-> TRUE]
  /\ watch' = "spawned"

\* startConsumers: one goroutine for each queue and number.
StartConsumers ==
  LET batch == Queues \X (0 .. Concurrency - 1)
      free == {s \in Slots : ~Alive(s)}
  IN  \E f \in {CHOOSE g \in Injection(batch, free) : TRUE} :
        consumer' = [s \in Slots |->
          IF s \in Range(f)
            THEN LET b == CHOOSE x \in batch : f[x] = s
                 IN  [NoConsumer EXCEPT !.pc = "start", !.queue = b[1], !.id = b[2]]
            ELSE consumer[s]]

EnoughSlots ==
  Cardinality({s \in Slots : ~Alive(s)}) >= Cardinality(Queues) * Concurrency

FirstConnect ==
  /\ phase = "rabbit"
  /\ \/ ConnectRabbitMQ /\ phase' = "redis"
     \/ phase' = "exited" /\ UNCHANGED <<link, watch>>
  /\ UNCHANGED <<rejoins, consumer, place, redelivered, runs, late>>

\* connectRedis, and then the consumers; an error ends the program.
ConnectRedis ==
  /\ phase = "redis"
  /\ \/ EnoughSlots /\ StartConsumers /\ phase' = "serving" /\ UNCHANGED <<place, redelivered>>
     \/ phase' = "exited" /\ Returned(place) /\ UNCHANGED consumer
  /\ UNCHANGED <<link, watch, rejoins, runs, late>>

\* NotifyClose: of a connection that is closed by now it says nothing.
Watch ==
  /\ watch = "spawned"
  /\ watch' = IF link.conn THEN "watching" ELSE "ended"
  /\ UNCHANGED <<phase, link, rejoins, consumer, place, redelivered, runs, late>>

SeeLoss ==
  /\ watch = "watching" /\ ~link.conn /\ watch' = "retrying"
  /\ UNCHANGED <<phase, link, rejoins, consumer, place, redelivered, runs, late>>

\* One turn of the retry loop: a done context and a timer that has fired are
\* both ready, and either is chosen.
GiveUp ==
  /\ watch = "retrying" /\ Cancelled /\ watch' = "ended"
  /\ UNCHANGED <<phase, link, rejoins, consumer, place, redelivered, runs, late>>

\* MUTANT: the consumers are not started again.
Again_Not == 0

Again == 1

Reconnect ==
  /\ watch = "retrying" /\ phase # "exited" /\ ConnectRabbitMQ
  /\ rejoins' = rejoins + Again
  /\ UNCHANGED <<phase, consumer, place, redelivered, runs, late>>

\* The goroutine that has reconnected starts consumers, and ends.
RestartConsumers ==
  /\ rejoins > 0 /\ phase # "exited" /\ EnoughSlots /\ StartConsumers
  /\ rejoins' = rejoins - 1 /\ late' = (late \/ Cancelled)
  /\ UNCHANGED <<phase, link, watch, place, redelivered, runs>>
-----------------------------------------------------------------------------
(* A consumer *)

EndConsumer(s) == consumer' = [consumer EXCEPT ![s] = NoConsumer]

SameTag(s) == \E x \in Slots \ {s} :
  consumer[x].pc \in {"receive", "process"} /\ OnChannel(x) /\ consumer[x].id = consumer[s].id

\* rmqChan.Consume, on the channel of now.  A tag is a number and a second.
Consume(s) ==
  /\ consumer[s].pc = "start" /\ phase # "exited"
  /\ \/ /\ Connected
        /\ consumer' = [consumer EXCEPT ![s].pc = "receive", ![s].gen = link.gen]
        /\ UNCHANGED <<link, place, redelivered>>
     \/ Connected /\ SameTag(s) /\ LoseConnection /\ EndConsumer(s)
     \/ Connected /\ LoseChannel /\ EndConsumer(s)
     \/ ~Connected /\ EndConsumer(s) /\ UNCHANGED <<link, place, redelivered>>
  /\ UNCHANGED <<phase, watch, rejoins, runs, late>>

\* The context is done, or msgs is closed.
StopConsuming(s) ==
  /\ consumer[s].pc = "receive" /\ phase # "exited"
  /\ Cancelled \/ ~OnChannel(s)
  /\ EndConsumer(s)
  /\ UNCHANGED <<phase, link, watch, rejoins, place, redelivered, runs, late>>

\* processMessage calls handleDelivery.  The client drops what it holds for a
\* closed channel.
ProcessMessage(s, m) ==
  /\ consumer[s].pc = "receive" /\ phase # "exited" /\ OnChannel(s)
  /\ m \in consumer[s].msgs
  /\ consumer' = [consumer EXCEPT ![s].pc = "process", ![s].msg = m, ![s].msgs = @ \ {m}]
  /\ runs' = [runs EXCEPT ![m] = IF @ < 2 THEN @ + 1 ELSE @]
  /\ UNCHANGED <<phase, link, watch, rejoins, place, redelivered, late>>

\* Nack's requeue argument is msg.Redelivered.
Requeue(m) == m \in redelivered

\* An ack, or a nack; on a channel that is gone it is an error that is logged.
Settled(s) ==
  LET m == consumer[s].msg
      known == m \notin UnknownKey
  IN  /\ consumer[s].pc = "process" /\ phase # "exited"
      /\ consumer' = [consumer EXCEPT ![s].pc = "receive", ![s].msg = NoMessage]
      /\ IF OnChannel(s)
           THEN /\ place' = [place EXCEPT ![m] =
                     CASE known -> "acked"
                       [] ~known /\ Requeue(m)  -> "ready"
                       [] ~known /\ ~Requeue(m) -> "discarded"]
                /\ redelivered' = IF ~known /\ Requeue(m) THEN redelivered \cup {m} ELSE redelivered
           ELSE UNCHANGED <<place, redelivered>>
      /\ UNCHANGED <<phase, link, watch, rejoins, runs, late>>
-----------------------------------------------------------------------------
(* Shutdown *)

Signal ==
  /\ phase = "serving" /\ phase' = "waiting"
  /\ UNCHANGED <<link, watch, rejoins, consumer, place, redelivered, runs, late>>

\* wg.Wait returns.
Waited == \A s \in Slots : ~Alive(s)

\* The deferred Close calls are of the first connection.
ReturnFromRun ==
  /\ phase = "waiting" /\ Waited /\ phase' = "returned"
  /\ IF link.gen = 1 /\ link.conn THEN LoseConnection ELSE UNCHANGED <<link, place, redelivered>>
  /\ UNCHANGED <<watch, rejoins, consumer, runs, late>>

Exit ==
  /\ phase = "returned" /\ phase' = "exited" /\ Returned(place)
  /\ UNCHANGED <<link, watch, rejoins, consumer, runs, late>>

CommandNext ==
  \/ FirstConnect \/ ConnectRedis \/ Watch \/ SeeLoss \/ GiveUp \/ Reconnect
  \/ RestartConsumers \/ ConnectionBreaks \/ Signal \/ ReturnFromRun \/ Exit
  \/ \E s \in Slots :
       \/ Consume(s) \/ StopConsuming(s) \/ Settled(s)
       \/ \E m \in Messages : DeliverTo(s, m) \/ ProcessMessage(s, m)
-----------------------------------------------------------------------------
\* Consumers that serve, or will.
Serving == {s \in Slots : Alive(s)}

(* What the program owes its queues (main.go:198-221, 245-334, 113-114).   *)
(* While its channel is open it has consumers or is about to start them,   *)
(* and before a reconnect no more than configured.  It acks only what it   *)
(* handled and discards only what it does not know, and that only on the   *)
(* first delivery: one that a lost connection has marked redelivered       *)
(* circulates for good.  A message is handled twice only if it was         *)
(* redelivered, and runWorker returns with a message in work only if a     *)
(* reconnect started consumers behind its back.                            *)
QueuesAreServed ==
  /\ (phase = "serving" /\ Connected) => Serving # {} \/ rejoins > 0
  /\ link.gen = 1 => Cardinality(Serving) <= Cardinality(Queues) * Concurrency
  /\ \A m \in Messages :
       /\ place[m] = "acked" => runs[m] > 0 /\ m \notin UnknownKey
       /\ place[m] = "discarded" => m \in UnknownKey /\ m \notin redelivered
       /\ runs[m] > 1 => m \in redelivered
  /\ (phase = "returned" /\ Serving # {}) => late
=============================================================================
