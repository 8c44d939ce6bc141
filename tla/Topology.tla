------------------------------ MODULE Topology ------------------------------
(***************************************************************************)
(* The RabbitMQ topology internal/queue/topology.go declares, and where    *)
(* the broker sends a message that is published to an exchange or          *)
(* dead-lettered by a queue of it.  Only what routing depends on is kept.  *)
(***************************************************************************)
EXTENDS FiniteSets

CONSTANT ExtraQueues   \* queues declared on the broker outside this topology

\* QueueConfig: the empty string is Go's zero value of a field left out.
Queue(name, dlx, dlq, dlxRouting) ==
  [Name |-> name, DLX |-> dlx, DLQ |-> dlq, DLXRouting |-> dlxRouting]

\* The queues DeclareTopology adds.  nexuspipe.dlq names its dead-letter
\* exchange in Args, which DeclareQueue lays over the defaults.
DeclaredQueues ==
  { Queue("nexuspipe.dlq", "nexuspipe.direct", "", ""),
    Queue("nexuspipe.events", "nexuspipe.dlx", "", "dead-letter"),
    Queue("nexuspipe.notifications", "nexuspipe.dlx", "", "dead-letter") }

\* The bindings it adds; the topic patterns event.# and notification.# match
\* the routing keys of the first word.
Bindings ==
  { [Queue |-> "nexuspipe.dlq", Exchange |-> "nexuspipe.dlx",
     Matches |-> {"dead-letter"}],
    [Queue |-> "nexuspipe.events", Exchange |-> "nexuspipe.topic",
     Matches |-> {"event.task"}],
    [Queue |-> "nexuspipe.notifications", Exchange |-> "nexuspipe.topic",
     Matches |-> {"notification.task"}] }

QueueNames == {q.Name : q \in DeclaredQueues} \cup ExtraQueues

\* defaultQueueArgs: x-dead-letter-routing-key is set only when DLQ is, and
\* without it the broker keeps the message's own routing key.
DeadLetterKey(q, key) == IF q.DLQ # "" THEN q.DLXRouting ELSE key

\* The broker: the queues that get a message published to an exchange.  The
\* default exchange "" routes to the queue the key names; no queue, no message.
Route(exchange, key) ==
  IF exchange = "" THEN QueueNames \cap {key}
  ELSE {b.Queue : b \in {d \in Bindings : d.Exchange = exchange /\ key \in d.Matches}}

\* The queues that get a message rejected, without requeue, by queue `name`.
DeadLettered(name, key) ==
  UNION {Route(q.DLX, DeadLetterKey(q, key)) : q \in {r \in DeclaredQueues : r.Name = name}}
=============================================================================
