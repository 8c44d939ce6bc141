------------------------- MODULE TaskDeliveryProofs -------------------------
(***************************************************************************)
(* Proofs about TaskDelivery, for every set of messages and workers, every *)
(* prefetch, retry and handler configuration and any number of restarts.   *)
(***************************************************************************)
EXTENDS TaskDelivery, TLAPS

TypeOK ==
  /\ {ready, unacked, buffered, acked, dlq, seen, dbMissed} \subseteq SUBSET Msgs
  /\ chan \in {"none", "open", "closed"}
  /\ {fault, running, cancelled} \subseteq BOOLEAN
  /\ pc \in [Workers -> Labels] /\ cur \in [Workers -> Msgs \cup {NoMsg}]
  /\ attempt \in [Workers -> Nat] /\ settled \in [Workers -> BOOLEAN]
  /\ db \in [Msgs -> {"pending", "completed", "failed"}]
  /\ okRuns \in [Msgs -> 0 .. 2]
  /\ excuse \in [Msgs -> SUBSET {"shutdown", "retry", "publish"}]
  /\ restarts \in Nat /\ cfg \in HandlerConfigs
  /\ task \in [Msgs \ Poison -> TaskKinds]

\* Where a message can be, and that a channel is opened once in a process.
Places ==
  /\ fault => chan = "open"
  /\ chan # "open" => unacked = {}
  /\ chan = "none" => \A w \in Workers : pc[w] = "off"
  /\ chan # "none" => running \/ cancelled
  /\ buffered \subseteq unacked
  /\ ready \cap unacked = {}
  /\ acked \cap (ready \cup unacked) = {}

\* A worker has a delivery exactly while processMessage runs; while the channel
\* is open, it alone holds a delivery it has not settled, and one that it has
\* settled is only waiting for the second ack.
Holding ==
  \A w \in Workers :
    /\ cur[w] = NoMsg <=> pc[w] \in {"off", "idle"}
    /\ pc[w] \in {"off", "idle"} => ~settled[w]
    /\ pc[w] \notin {"off", "idle", "returnNil"} => cur[w] \notin acked
    /\ (chan = "open" /\ settled[w]) => pc[w] = "returnNil"
    /\ (chan = "open" /\ ~settled[w] /\ cur[w] # NoMsg) =>
         /\ cur[w] \in unacked \ buffered
         /\ \A v \in Workers \ {w} : cur[v] = cur[w] => settled[v]

\* In the first life of the process and its channel a message that ran once is
\* either settled for good or still with the worker that ran it.
RanOnce ==
  restarts = 0 =>
    /\ chan = "none" => \A m \in Msgs : okRuns[m] = 0
    /\ (chan = "open" /\ ~fault) =>
         \A m \in Msgs :
           /\ okRuns[m] <= 1
           /\ okRuns[m] > 0 =>
                \/ m \notin ready \cup unacked
                \/ \E w \in Workers : /\ cur[w] = m /\ ~settled[w]
                                      /\ pc[w] \in {"success", "ack", "returnNil"}

Delivery == TypeOK /\ Places /\ Holding /\ RanOnce

HandlerSettles == cfg.AckOnSuccess /\ cfg.NackOnFailure
ReachesOut(m) == m \notin Poison /\ task[m].type \in {"http", "webhook", "script", "shell"}
Resolved(m) == okRuns[m] > 0 \/ m \in dlq \/ excuse[m] \cap {"retry", "publish"} # {}
Recorded(m) == okRuns[m] > 0 /\ (db[m] = "completed" \/ m \in dbMissed)

\* What the handler knows of the delivery of worker w at each place.
Knows(w) ==
  /\ pc[w] \notin {"off", "idle", "attempt"} => cur[w] \in seen
  /\ pc[w] = "process" => cur[w] \notin Poison
  /\ pc[w] = "retry" => ReachesOut(cur[w])
  /\ pc[w] = "nackRetry" => "retry" \in excuse[cur[w]]
  /\ pc[w] \in {"success", "ack"} => okRuns[cur[w]] > 0
  /\ pc[w] = "nack" => cur[w] \in dlq \/ "publish" \in excuse[cur[w]]
  /\ pc[w] = "returnNil" => Resolved(cur[w])
  /\ (pc[w] = "returnErr" /\ chan = "open") => ~cfg.NackOnFailure
  /\ (HandlerSettles /\ pc[w] = "returnNil") => settled[w]
  /\ (HandlerSettles /\ chan = "open" /\ pc[w] = "ack") => Recorded(cur[w])

\* What is known of a message that is gone or acked.
Accounted(m) ==
  /\ m \in Gone \ seen => "shutdown" \in excuse[m]
  /\ "retry" \in excuse[m] => ReachesOut(m)
  /\ m \in acked => Resolved(m) /\ (HandlerSettles => Recorded(m))

Outcome == (\A w \in Workers : Knows(w)) /\ (\A m \in Msgs : Accounted(m))

\* The first promise of LossIsExcused.
Kept == \A m \in Gone : m \in acked \cup dlq \/ excuse[m] # {}
-----------------------------------------------------------------------------
\* The consumer starts with every message in the queue.
LEMMA InitDelivery == Init => Delivery
<1> SUFFICES ASSUME Init PROVE Delivery
  OBVIOUS
<1>1. TypeOK
  <2>1. okRuns \in [Msgs -> 0 .. 2] /\ excuse \in [Msgs -> SUBSET {"shutdown", "retry", "publish"}]
    BY DEF Init
  <2> QED BY <2>1, DeliveryAssumption DEF Init, TypeOK, Labels
<1>2. Places /\ Holding /\ RanOnce
  BY DEF Init, Places, Holding, RanOnce
<1> QED BY <1>1, <1>2 DEF Delivery

\* What a dead-lettering queue gives a message is a copy of that message.
LEMMA CopiesOf ==
  ASSUME NEW m
  PROVE  DlqCopies(m) \subseteq {m} /\ DeadLetterCopies(m) \subseteq {m}
BY DEF DlqCopies, DeadLetterCopies

\* A settlement keeps the types of what the broker holds.
LEMMA SettleEffect ==
  ASSUME TypeOK, NEW w \in Workers, cur[w] \in Msgs, NEW how, Settle(w, how)
  PROVE  {ready', unacked', acked', dlq'} \subseteq SUBSET Msgs /\ fault' \in BOOLEAN
BY CopiesOf DEF Settle, TypeOK

\* A worker that takes a step in processMessage has a delivery.
LEMMA InHand ==
  ASSUME TypeOK, Holding, NEW w \in Workers, WorkerStep(w)
  PROVE  cur[w] \in Msgs
BY DEF WorkerStep, Attempt, ReturnNil, ReturnErr, Handle, Process, HandleSuccess, Ack,
       HandleRetry, NackRetry, HandleFailed, RouteToDlq, Nack, Holding, TypeOK

\* A worker's step keeps the types.
LEMMA WorkerType ==
  ASSUME TypeOK, NEW w \in Workers, WorkerStep(w), Holding
  PROVE  TypeOK'
<1> USE DeliveryAssumption, CopiesOf
<1>0. cur[w] \in Msgs
  BY InHand
<1>1. CASE Attempt(w)
  <2>1. CASE Aborts(w)
    <3>1. {ready', unacked', acked', dlq'} \subseteq SUBSET Msgs /\ fault' \in BOOLEAN
      BY <1>0, <1>1, <2>1, SettleEffect DEF Attempt
    <3>2. /\ Done(w) /\ UNCHANGED <<seen, buffered, chan, running, cancelled, db, okRuns,
                                     dbMissed, restarts, cfg, task>>
          /\ Excuse(cur[w], IF cancelled THEN {"shutdown"} ELSE {})
      BY <1>1, <2>1 DEF Attempt
    <3>3. excuse' \in [Msgs -> SUBSET {"shutdown", "retry", "publish"}]
      BY <1>0, <3>2 DEF Excuse, TypeOK
    <3> QED BY <3>1, <3>2, <3>3 DEF TypeOK, Done, Goto, Labels
  <2>2. CASE ~Aborts(w)
    BY <1>0, <1>1, <2>2 DEF Attempt, TypeOK, Goto, Labels
  <2> QED BY <2>1, <2>2
<1>2. CASE ReturnNil(w)
  BY <1>0, <1>2, SettleEffect DEF ReturnNil, TypeOK, Done, Goto, Labels, history
<1>3. CASE ReturnErr(w)
  <2>1. CASE LastAttempt(w)
    <3>1. {ready', unacked', acked', dlq'} \subseteq SUBSET Msgs /\ fault' \in BOOLEAN
      BY <1>0, <1>3, <2>1, SettleEffect DEF ReturnErr
    <3>2. Done(w) /\ UNCHANGED <<buffered, chan, running, cancelled, db, history, restarts, cfg, task>>
      BY <1>3, <2>1 DEF ReturnErr
    <3> QED BY <3>1, <3>2 DEF TypeOK, Done, Goto, Labels, history
  <2>2. CASE ~LastAttempt(w)
    BY <1>3, <2>2 DEF ReturnErr, TypeOK, Goto, Labels, history
  <2> QED BY <2>1, <2>2
<1>4. CASE Handle(w)
  BY <1>0, <1>4 DEF Handle, TypeOK, PublishToDlq, Goto, Excuse, Labels
<1>5. CASE Process(w)
  BY <1>0, <1>5 DEF Process, TypeOK, Goto, Labels, broker
<1>6. CASE HandleSuccess(w)
  BY <1>0, <1>6 DEF HandleSuccess, CompletedStatus, TypeOK, Goto, Labels, broker
<1>7. CASE Ack(w)
  BY <1>0, <1>7, SettleEffect DEF Ack, SettleAndReturn, SettleReturn, TypeOK, Goto, Labels, history
<1>8. CASE HandleRetry(w)
  BY <1>0, <1>8 DEF HandleRetry, TypeOK, Goto, Excuse, Labels, broker
<1>9. CASE NackRetry(w)
  BY <1>0, <1>9, SettleEffect DEF NackRetry, SettleAndReturn, SettleReturn, TypeOK, Goto, Labels, history
<1>10. CASE HandleFailed(w)
  BY <1>0, <1>10 DEF HandleFailed, TypeOK, Goto, Labels, broker, history
<1>11. CASE RouteToDlq(w)
  BY <1>0, <1>11 DEF RouteToDlq, NoChannel, PublishToDlq, TypeOK, Goto, Excuse, Labels
<1>12. CASE Nack(w)
  BY <1>0, <1>12, SettleEffect DEF Nack, SettleAndReturn, SettleReturn, TypeOK, Goto, Labels, history
<1> QED BY <1>1, <1>2, <1>3, <1>4, <1>5, <1>6, <1>7, <1>8, <1>9, <1>10, <1>11, <1>12 DEF WorkerStep

\* The broker and the consumer keep the types too.
LEMMA OtherType ==
  ASSUME TypeOK, Next, ~\E w \in Workers : WorkerStep(w)
  PROVE  TypeOK'
<1> USE DEF TypeOK, Labels, history, broker
<1>1. CASE \E m \in Msgs : Deliver(m)
  BY <1>1 DEF Deliver
<1>2. CASE CloseChannel
  BY <1>2, ZenonT(40) DEF CloseChannel
<1>3. CASE Start
  BY <1>3 DEF Start
<1>4. CASE Cancel \/ CancelReturns
  BY <1>4 DEF Cancel, CancelReturns
<1>5. CASE Restart
  <2>1. /\ pc' \in [Workers -> Labels] /\ cur' \in [Workers -> Msgs \cup {NoMsg}]
        /\ attempt' \in [Workers -> Nat] /\ settled' \in [Workers -> BOOLEAN]
    BY <1>5 DEF Restart
  <2>2. fault' = FALSE /\ running' = FALSE /\ cancelled' = FALSE /\ restarts' = restarts + 1
    BY <1>5 DEF Restart
  <2>3. {ready', unacked', buffered', acked', dlq', seen', dbMissed'} \subseteq SUBSET Msgs
    BY <1>5 DEF Restart
  <2>4. UNCHANGED <<db, okRuns, excuse, cfg, task>> /\ chan' = "none"
    BY <1>5 DEF Restart
  <2>5. {fault', running', cancelled'} \subseteq BOOLEAN
    BY <2>2
  <2>6. restarts' \in Nat
    BY <2>2
  <2> QED BY <2>1, <2>3, <2>4, <2>5, <2>6
<1>6. CASE \E w \in Workers, m \in Msgs : Take(w, m)
  BY <1>6 DEF Take, Goto
<1>7. CASE \E w \in Workers : WorkerExits(w)
  BY <1>7 DEF WorkerExits, Goto
<1> QED BY <1>1, <1>2, <1>3, <1>4, <1>5, <1>6, <1>7 DEF Next

\* The labels inside processMessage.
Inside == Labels \ {"off", "idle"}

\* A step of the handler that settles nothing leaves the deliveries where they are.
LEMMA MoveKeeps ==
  ASSUME Delivery, NEW w \in Workers, NEW l \in Inside,
         pc[w] \in Inside \ {"returnNil"}, Goto(w, l),
         UNCHANGED <<ready, unacked, buffered, acked, chan, fault, running, cancelled,
                     cur, settled, restarts>>
  PROVE  Places' /\ Holding'
<1>1. \A v \in Workers : pc'[v] = IF v = w THEN l ELSE pc[v]
  BY DEF Goto, Delivery, TypeOK
<1>2. Places'
  BY <1>1 DEF Delivery, Places, Inside
<1>3. Holding'
  BY <1>1 DEF Delivery, Holding, Inside
<1> QED BY <1>2, <1>3

\* It also keeps RanOnce when it does not leave a run that has succeeded.
LEMMA MoveKeepsRuns ==
  ASSUME Delivery, NEW w \in Workers, NEW l \in Inside, Goto(w, l),
         pc[w] \in {"success", "ack", "returnNil"} => l \in {"success", "ack", "returnNil"},
         UNCHANGED <<ready, unacked, chan, fault, cur, settled, restarts, okRuns>>
  PROVE  RanOnce'
<1>1. \A v \in Workers : pc'[v] = IF v = w THEN l ELSE pc[v]
  BY DEF Goto, Delivery, TypeOK
<1> QED BY <1>1 DEF Delivery, RanOnce

\* A settlement by the handler or by processMessage keeps all of it, if a
\* successful run is followed by no other settlement than an ack.
LEMMA SettleKeeps ==
  ASSUME Delivery, NEW w \in Workers, pc[w] \in Inside,
         NEW how \in {"ack", "requeue", "reject"}, Settle(w, how),
         pc[w] \in {"success", "ack", "returnNil"} => how = "ack",
         \/ Done(w)
         \/ /\ pc[w] # "returnNil" /\ Goto(w, SettleReturn)
            /\ settled' = [settled EXCEPT ![w] = TRUE] /\ UNCHANGED cur,
         UNCHANGED <<buffered, chan, running, cancelled, restarts, okRuns>>
  PROVE  Places' /\ Holding' /\ RanOnce'
<1> DEFINE m == cur[w]
           live == chan = "open" /\ ~fault /\ ~settled[w]
<1>1. m \in Msgs
  BY DEF Delivery, TypeOK, Holding, Inside
<1>2. /\ \A v \in Workers \ {w} : pc'[v] = pc[v] /\ cur'[v] = cur[v] /\ settled'[v] = settled[v]
      /\ \/ pc'[w] = "idle" /\ cur'[w] = NoMsg /\ settled'[w] = FALSE
         \/ /\ pc'[w] = SettleReturn /\ pc[w] # "returnNil"
            /\ cur'[w] = cur[w] /\ settled'[w] = TRUE
  BY DEF Goto, Done, Delivery, TypeOK
<1>3. CASE live
  <2>1. /\ fault' = FALSE /\ unacked' = unacked \ {m}
        /\ acked' = IF how = "ack" THEN acked \cup {m} ELSE acked
        /\ ready' = IF how = "requeue" THEN ready \cup {m} ELSE ready
    BY <1>3 DEF Settle
  <2>2. m \in unacked \ buffered /\ m \notin ready /\ m \notin acked
        /\ \A v \in Workers \ {w} : cur[v] = m => settled[v] /\ pc[v] = "returnNil"
    BY <1>1, <1>3, DeliveryAssumption DEF Delivery, Places, Holding
  <2>3. Places'
    BY <1>2, <1>3, <2>1, <2>2 DEF Delivery, Places, TypeOK
  <2>4. Holding'
    BY <1>1, <1>2, <1>3, <2>1, <2>2, DeliveryAssumption DEF Delivery, Holding, SettleReturn
  <2>5. RanOnce'
    BY <1>1, <1>2, <1>3, <2>1, <2>2 DEF Delivery, RanOnce, Holding, TypeOK
  <2> QED BY <2>3, <2>4, <2>5
<1>4. CASE ~live
  <2>1. UNCHANGED <<unacked, acked, ready>> /\ (chan = "open" => fault')
    BY <1>4 DEF Settle
  <2>2. fault' => chan = "open"
    BY <1>4 DEF Settle, Delivery, Places
  <2>3. Places'
    BY <1>2, <2>1, <2>2 DEF Delivery, Places, Inside
  <2>4. Holding'
    BY <1>1, <1>2, <2>1, DeliveryAssumption DEF Delivery, Holding, SettleReturn, Inside
  <2>5. RanOnce'
    BY <2>1 DEF Delivery, RanOnce, Places
  <2> QED BY <2>3, <2>4, <2>5
<1> QED BY <1>3, <1>4

\* A worker's step keeps the deliveries in order.
LEMMA WorkerDelivery ==
  ASSUME Delivery, NEW w \in Workers, WorkerStep(w)
  PROVE  Delivery'
<1>0. TypeOK'
  BY WorkerType DEF Delivery
<1> SUFFICES Places' /\ Holding' /\ RanOnce'
  BY <1>0 DEF Delivery
<1> USE DEF Inside, Labels
<1>1. CASE Attempt(w)
  <2>1. CASE Aborts(w)
    BY <1>1, <2>1, SettleKeeps DEF Attempt
  <2>2. CASE ~Aborts(w)
    BY <1>1, <2>2, MoveKeeps, MoveKeepsRuns DEF Attempt
  <2> QED BY <2>1, <2>2
<1>2. CASE ReturnNil(w)
  BY <1>2, SettleKeeps DEF ReturnNil, history
<1>3. CASE ReturnErr(w)
  <2>1. CASE LastAttempt(w)
    BY <1>3, <2>1, SettleKeeps DEF ReturnErr, history
  <2>2. CASE ~LastAttempt(w)
    BY <1>3, <2>2, MoveKeeps, MoveKeepsRuns DEF ReturnErr, history
  <2> QED BY <2>1, <2>2
<1>4. CASE Handle(w)
  BY <1>4, MoveKeeps, MoveKeepsRuns DEF Handle
<1>5. CASE Process(w)
  <2>1. PICK l \in {"success", "retry", "failed"} :
          /\ Goto(w, l)
          /\ \/ l = "success" /\ okRuns' = [okRuns EXCEPT ![cur[w]] = IF @ < 2 THEN @ + 1 ELSE @]
             \/ UNCHANGED okRuns
    BY <1>5 DEF Process
  <2>2. UNCHANGED <<ready, unacked, buffered, acked, chan, fault, running, cancelled,
                     cur, settled, restarts>>
    BY <1>5 DEF Process, broker
  <2>3. Places' /\ Holding'
    BY <1>5, <2>1, <2>2, MoveKeeps DEF Process
  <2>4. RanOnce'
    <3>1. CASE UNCHANGED okRuns
      BY <1>5, <2>1, <2>2, <3>1, MoveKeepsRuns DEF Process
    <3>2. CASE l = "success" /\ okRuns' = [okRuns EXCEPT ![cur[w]] = IF @ < 2 THEN @ + 1 ELSE @]
      <4> SUFFICES ASSUME restarts = 0, chan # "closed", ~fault PROVE RanOnce'
        BY <2>2, <3>2 DEF RanOnce, Delivery, Places
      <4>1. chan = "open"
        BY <1>5 DEF Process, Delivery, Places, TypeOK
      <4>2. ~settled[w] /\ cur[w] \in Msgs /\ cur[w] \in unacked
        BY <1>5, <4>1 DEF Process, Delivery, Holding, TypeOK
      <4>3. okRuns[cur[w]] = 0
        BY <1>5, <4>1, <4>2, DeliveryAssumption DEF Process, Delivery, RanOnce, Holding, TypeOK
      <4>4. \A m \in Msgs : okRuns'[m] = IF m = cur[w] THEN 1 ELSE okRuns[m]
        BY <3>2, <4>2, <4>3 DEF Delivery, TypeOK
      <4>5. \A v \in Workers : pc'[v] = IF v = w THEN "success" ELSE pc[v]
        BY <2>1, <3>2 DEF Goto, Delivery, TypeOK
      <4> QED BY <1>5, <2>2, <4>1, <4>2, <4>4, <4>5 DEF Process, Delivery, RanOnce
    <3> QED BY <2>1, <3>1, <3>2
  <2> QED BY <2>3, <2>4
<1>6. CASE HandleSuccess(w)
  BY <1>6, MoveKeeps, MoveKeepsRuns DEF HandleSuccess, broker
<1>7. CASE Ack(w)
  BY <1>7, SettleKeeps DEF Ack, SettleAndReturn, history
<1>8. CASE HandleRetry(w)
  BY <1>8, MoveKeeps, MoveKeepsRuns DEF HandleRetry, broker
<1>9. CASE NackRetry(w)
  BY <1>9, SettleKeeps DEF NackRetry, SettleAndReturn, history
<1>10. CASE HandleFailed(w)
  BY <1>10, MoveKeeps, MoveKeepsRuns DEF HandleFailed, broker, history
<1>11. CASE RouteToDlq(w)
  BY <1>11, MoveKeeps, MoveKeepsRuns DEF RouteToDlq, NoChannel
<1>12. CASE Nack(w)
  BY <1>12, SettleKeeps DEF Nack, SettleAndReturn, history
<1> QED BY <1>1, <1>2, <1>3, <1>4, <1>5, <1>6, <1>7, <1>8, <1>9, <1>10, <1>11, <1>12 DEF WorkerStep

\* So do the steps of the broker and of the consumer itself.
LEMMA OtherDelivery ==
  ASSUME Delivery, Next, ~\E w \in Workers : WorkerStep(w)
  PROVE  Delivery'
<1>0. TypeOK'
  BY OtherType DEF Delivery
<1> SUFFICES Places' /\ Holding' /\ RanOnce'
  BY <1>0 DEF Delivery
<1> USE DEF Delivery
<1>1. CASE \E m \in Msgs : Deliver(m)
  <2> PICK m \in Msgs : Deliver(m)
    BY <1>1
  <2>1. Places'
    BY DEF Deliver, Places
  <2>2. Holding'
    BY DEF Deliver, Holding, Places
  <2>3. RanOnce'
    BY DEF Deliver, RanOnce, history
  <2> QED BY <2>1, <2>2, <2>3
<1>2. CASE CloseChannel
  BY <1>2 DEF CloseChannel, Places, Holding, RanOnce
<1>3. CASE Start
  BY <1>3, DeliveryAssumption DEF Start, Places, Holding, RanOnce, history, TypeOK
<1>4. CASE Cancel \/ CancelReturns
  BY <1>4 DEF Cancel, CancelReturns, Places, Holding, RanOnce, broker, history
<1>5. CASE Restart
  BY <1>5, DeliveryAssumption DEF Restart, Places, Holding, RanOnce, TypeOK
<1>6. CASE \E w \in Workers, m \in Msgs : Take(w, m)
  <2> PICK w \in Workers, m \in Msgs : Take(w, m)
    BY <1>6
  <2>1. \A v \in Workers : pc'[v] = (IF v = w THEN "attempt" ELSE pc[v]) /\ cur'[v] = IF v = w THEN m ELSE cur[v]
    BY DEF Take, Goto, TypeOK
  <2>2. Places'
    BY <2>1 DEF Take, Places
  <2>3. Holding'
    BY <2>1, DeliveryAssumption DEF Take, Holding, Places
  <2>4. RanOnce'
    BY <2>1 DEF Take, RanOnce, Holding, history
  <2> QED BY <2>2, <2>3, <2>4
<1>7. CASE \E w \in Workers : WorkerExits(w)
  <2> PICK w \in Workers : WorkerExits(w)
    BY <1>7
  <2>1. \A v \in Workers : pc'[v] = IF v = w THEN "off" ELSE pc[v]
    BY DEF WorkerExits, Goto, TypeOK
  <2> QED BY <2>1 DEF WorkerExits, Places, Holding, RanOnce, broker, history
<1> QED BY <1>1, <1>2, <1>3, <1>4, <1>5, <1>6, <1>7 DEF Next

\* Each step, or none, keeps the deliveries in order.
LEMMA NextDelivery == Delivery /\ [Next]_vars => Delivery'
<1>1. ASSUME Delivery, Next PROVE Delivery'
  BY <1>1, WorkerDelivery, OtherDelivery
<1>2. ASSUME Delivery, UNCHANGED vars PROVE Delivery'
  BY <1>2 DEF vars, broker, history, Delivery, TypeOK, Places, Holding, RanOnce
<1> QED BY <1>1, <1>2

(***************************************************************************)
(* While the process and its channel live, no message is processed         *)
(* successfully twice, whatever the handler configuration: Delivery says   *)
(* who holds a message, and RanOnce what its one run has become.           *)
(***************************************************************************)
THEOREM NoDuplicates == Spec => []NoDuplicateWhileHealthy
<1>1. Delivery => NoDuplicateWhileHealthy
  BY DEF Delivery, RanOnce, NoDuplicateWhileHealthy
<1> QED BY <1>1, InitDelivery, NextDelivery, PTL DEF Spec
-----------------------------------------------------------------------------
(* What the handler's paths leave behind. *)

\* Only a task that reaches out to a server or a shell fails retryably.
LEMMA RetryableReachesOut ==
  ASSUME NEW t, NEW r \in ProcessTask(t), r.status = "failed", r.retryable
  PROVE  t.type \in {"http", "webhook", "script", "shell"}
<1> SUFFICES ASSUME t.type \notin {"http", "webhook", "script", "shell"} PROVE FALSE
  OBVIOUS
<1>1. ProcessTask(t) \subseteq {Completed, Failed(FALSE)}
  BY DEF ProcessTask, ProcessGRPC, ProcessSQL, ProcessTransform
<1> QED BY <1>1 DEF Completed, Failed

\* The histories only grow, and the configuration stays.
Grows ==
  /\ seen \subseteq seen' /\ dlq \subseteq dlq' /\ dbMissed \subseteq dbMissed'
  /\ \A m \in Msgs : okRuns'[m] \in okRuns[m] .. 2 /\ excuse[m] \subseteq excuse'[m]
  /\ UNCHANGED <<cfg, task>>

\* A worker's step lets the histories grow.
LEMMA WorkerGrows ==
  ASSUME Delivery, NEW w \in Workers, WorkerStep(w)
  PROVE  Grows
<1>0. cur[w] \in Msgs /\ \A m \in Msgs : okRuns[m] \in 0 .. 2
  BY InHand DEF Delivery, TypeOK
<1> USE <1>0 DEF Grows, Delivery, TypeOK
<1>1. CASE Attempt(w)
  BY <1>1 DEF Attempt, Settle, Excuse
<1>2. CASE ReturnNil(w)
  BY <1>2 DEF ReturnNil, Settle, history
<1>3. CASE ReturnErr(w)
  BY <1>3 DEF ReturnErr, Settle, history
<1>4. CASE Handle(w)
  BY <1>4 DEF Handle, PublishToDlq, Excuse
<1>5. CASE Process(w)
  BY <1>5 DEF Process, broker
<1>6. CASE HandleSuccess(w)
  BY <1>6 DEF HandleSuccess, broker
<1>7. CASE Ack(w)
  BY <1>7 DEF Ack, SettleAndReturn, Settle, history
<1>8. CASE HandleRetry(w)
  BY <1>8 DEF HandleRetry, Excuse, broker
<1>9. CASE NackRetry(w)
  BY <1>9 DEF NackRetry, SettleAndReturn, Settle, history
<1>10. CASE HandleFailed(w)
  BY <1>10 DEF HandleFailed, broker, history
<1>11. CASE RouteToDlq(w)
  BY <1>11 DEF RouteToDlq, PublishToDlq, Excuse
<1>12. CASE Nack(w)
  BY <1>12 DEF Nack, SettleAndReturn, Settle, history
<1> QED BY <1>1, <1>2, <1>3, <1>4, <1>5, <1>6, <1>7, <1>8, <1>9, <1>10, <1>11, <1>12 DEF WorkerStep

\* A row is written only for the message in hand, which is not acked and,
\* while the channel is open, in no other unsettled hands.
LEMMA RowsOfOthers ==
  ASSUME Delivery, NEW w \in Workers, WorkerStep(w), NEW m \in Msgs, db'[m] # db[m]
  PROVE  /\ m = cur[w] /\ m \notin acked
         /\ chan = "open" => \A v \in Workers \ {w} : cur[v] = m => pc[v] = "returnNil"
<1>1. m = cur[w] /\ pc[w] \in {"success", "retry", "failed"}
  BY DEF WorkerStep, Attempt, ReturnNil, ReturnErr, Handle, Process, HandleSuccess, Ack,
         HandleRetry, NackRetry, HandleFailed, RouteToDlq, Nack, Delivery, TypeOK
<1> QED BY <1>1, DeliveryAssumption DEF Delivery, Holding

\* A step of one worker keeps what the others know.
LEMMA OthersKnow ==
  ASSUME Delivery, Outcome, NEW w \in Workers, WorkerStep(w), NEW v \in Workers \ {w}
  PROVE  Knows(v)'
<1>1. UNCHANGED <<pc[v], cur[v], settled[v], chan>>
  BY DEF WorkerStep, Attempt, ReturnNil, ReturnErr, Handle, Process, HandleSuccess, Ack,
         HandleRetry, NackRetry, HandleFailed, RouteToDlq, Nack, SettleAndReturn, Done, Goto,
         broker, Delivery, TypeOK
<1>2. Grows
  BY WorkerGrows
<1>3. pc[v] \notin {"off", "idle"} => cur[v] \in Msgs
  BY DEF Delivery, Holding, TypeOK
<1>4. pc[v] = "ack" /\ chan = "open" => db'[cur[v]] = db[cur[v]]
  BY <1>3, RowsOfOthers
<1>5. /\ ReachesOut(cur[v]) => ReachesOut(cur[v])'
      /\ HandlerSettles' = HandlerSettles
  BY <1>1, <1>2 DEF Grows, ReachesOut, HandlerSettles
<1>6. pc[v] \notin {"off", "idle"} =>
        /\ okRuns[cur[v]] > 0 => okRuns'[cur[v]] > 0
        /\ Resolved(cur[v]) => Resolved(cur[v])'
  BY <1>1, <1>2, <1>3 DEF Grows, Resolved, Delivery, TypeOK
<1>7. pc[v] = "ack" /\ chan = "open" /\ Recorded(cur[v]) => Recorded(cur[v])'
  BY <1>1, <1>2, <1>3, <1>4, <1>6 DEF Grows, Recorded
<1> QED BY <1>1, <1>2, <1>3, <1>5, <1>6, <1>7 DEF Outcome, Knows, Grows

\* The handler's DLQName is a queue of the broker.
DlqDeclared == "tasks.dlq" \in ExtraQueues

\* A publish to the dead-letter queue leaves a copy or the excuse.
LEMMA PublishLeaves ==
  ASSUME DlqDeclared, TypeOK, NEW m \in Msgs, PublishToDlq(m)
  PROVE  m \in dlq' \/ "publish" \in excuse'[m]
<1>1. DlqCopies(m) = {m}
  BY DEF DlqDeclared, DlqCopies, Route, QueueNames
<1> QED BY <1>1 DEF PublishToDlq, Excuse, TypeOK

\* A worker's own step keeps what its handler knows.
LEMMA WorkerKnows ==
  ASSUME DlqDeclared, Delivery, Outcome, NEW w \in Workers, WorkerStep(w)
  PROVE  Knows(w)'
<1>0. /\ cur[w] \in Msgs /\ \A m \in Msgs : okRuns[m] \in 0 .. 2
      /\ Grows /\ Knows(w) /\ pc[w] \in Labels
      /\ pc \in [Workers -> Labels] /\ cur \in [Workers -> Msgs \cup {NoMsg}]
      /\ settled \in [Workers -> BOOLEAN]
  BY WorkerGrows, InHand DEF Delivery, TypeOK, Outcome
<1>r. ASSUME NEW m \in Msgs, Resolved(m) PROVE Resolved(m)'
  BY <1>0, <1>r DEF Resolved, Grows
<1>d. ASSUME Done(w) PROVE Knows(w)'
  BY <1>0, <1>d DEF Done, Goto, Knows
<1>1. CASE Attempt(w)
  <2>1. CASE Aborts(w)
    BY <1>1, <1>d, <2>1 DEF Attempt
  <2>2. CASE ~Aborts(w)
    BY <1>0, <1>1, <2>2 DEF Attempt, Goto, Knows
  <2> QED BY <2>1, <2>2
<1>2. CASE ReturnNil(w)
  BY <1>2, <1>d DEF ReturnNil
<1>3. CASE ReturnErr(w)
  <2>1. CASE LastAttempt(w)
    BY <1>3, <1>d, <2>1 DEF ReturnErr
  <2>2. CASE ~LastAttempt(w)
    BY <1>0, <1>3, <2>2 DEF ReturnErr, Goto, Knows
  <2> QED BY <2>1, <2>2
<1>4. CASE Handle(w)
  <2>1. CASE Goto(w, "nack") /\ PublishToDlq(cur[w])
    BY <1>0, <1>4, <2>1, PublishLeaves DEF Handle, Goto, Knows, Delivery
  <2>2. CASE cur[w] \notin Poison /\ Goto(w, "process")
    BY <1>0, <1>4, <2>2 DEF Handle, Goto, Knows
  <2> QED BY <1>4, <2>1, <2>2 DEF Handle
<1>5. CASE Process(w)
  <2>1. PICK r \in ProcessTask(task[cur[w]]) :
       \/ /\ r.status = "completed"
          /\ Goto(w, "success")
          /\ okRuns' = [okRuns EXCEPT ![cur[w]] = IF @ < 2 THEN @ + 1 ELSE @]
       \/ /\ r.status = "failed" /\ r.retryable /\ Goto(w, "retry")
       \/ Goto(w, "failed")
    BY <1>5 DEF Process
  <2>2. UNCHANGED <<cur, task>> /\ cur[w] \notin Poison /\ cur[w] \in seen /\ seen' = seen
    BY <1>0, <1>5 DEF Process, Knows
  <2>3. r.status = "failed" /\ r.retryable => ReachesOut(cur[w])'
    BY <2>2, RetryableReachesOut DEF ReachesOut
  <2>4. CASE Goto(w, "success") /\ okRuns' = [okRuns EXCEPT ![cur[w]] = IF @ < 2 THEN @ + 1 ELSE @]
    <3>1. okRuns'[cur[w]] > 0
      BY <1>0, <2>4 DEF Delivery, TypeOK
    <3> QED BY <1>0, <2>2, <2>4, <3>1 DEF Goto, Knows
  <2>5. CASE r.status = "failed" /\ r.retryable /\ Goto(w, "retry")
    BY <1>0, <2>2, <2>3, <2>5 DEF Goto, Knows
  <2>6. CASE Goto(w, "failed")
    BY <1>0, <2>2, <2>6 DEF Goto, Knows
  <2> QED BY <2>1, <2>4, <2>5, <2>6
<1>6. CASE HandleSuccess(w)
  <2>1. /\ pc[w] = "success" /\ cur[w] \in seen /\ okRuns[cur[w]] > 0
        /\ pc'[w] = IF cfg.AckOnSuccess THEN "ack" ELSE "returnNil"
        /\ UNCHANGED <<cur, seen, okRuns, settled, cfg>>
    BY <1>0, <1>6 DEF HandleSuccess, Goto, Knows
  <2>2. db'[cur[w]] = "completed" \/ cur[w] \in dbMissed'
    BY <1>0, <1>6 DEF HandleSuccess, CompletedStatus, Delivery, TypeOK
  <2>3. Resolved(cur[w])' /\ Recorded(cur[w])'
    BY <2>1, <2>2 DEF Resolved, Recorded
  <2> QED BY <2>1, <2>3 DEF Knows, HandlerSettles, Recorded
<1>7. CASE Ack(w)
  <2>1. /\ pc[w] = "ack" /\ cur[w] \in seen /\ okRuns[cur[w]] > 0
        /\ pc'[w] = SettleReturn /\ settled'[w] = TRUE
        /\ UNCHANGED <<cur, seen, okRuns, chan>>
    BY <1>0, <1>7 DEF Ack, SettleAndReturn, Goto, Knows, history
  <2>2. Resolved(cur[w])'
    BY <2>1 DEF Resolved
  <2> QED BY <2>1, <2>2 DEF Knows, SettleReturn
<1>8. CASE HandleRetry(w)
  <2>1. /\ cur[w] \in seen /\ UNCHANGED <<cur, seen, cfg>>
        /\ pc'[w] = IF cfg.NackOnFailure THEN "nackRetry" ELSE "returnNil"
        /\ "retry" \in excuse'[cur[w]]
    BY <1>0, <1>8 DEF HandleRetry, Goto, Excuse, Knows, Delivery, TypeOK
  <2>2. Resolved(cur[w])'
    BY <2>1 DEF Resolved
  <2> QED BY <2>1, <2>2 DEF Knows, HandlerSettles
<1>9. CASE NackRetry(w)
  <2>1. /\ cur[w] \in seen /\ Resolved(cur[w])
        /\ pc'[w] = SettleReturn /\ settled'[w] = TRUE
        /\ UNCHANGED <<cur, seen, chan>>
    BY <1>0, <1>9 DEF NackRetry, SettleAndReturn, Goto, Knows, Resolved, history
  <2>2. Resolved(cur[w])'
    BY <1>0, <1>r, <2>1 DEF Resolved
  <2> QED BY <2>1, <2>2 DEF Knows, SettleReturn
<1>10. CASE HandleFailed(w)
  BY <1>0, <1>10 DEF HandleFailed, Goto, Knows, history
<1>11. CASE RouteToDlq(w)
  <2>1. cur[w] \in seen /\ UNCHANGED <<cur, seen, cfg, chan, settled>>
    BY <1>0, <1>11 DEF RouteToDlq, Knows
  <2>2. CASE /\ Goto(w, NoChannel)
             /\ IF cfg.NackOnFailure THEN Excuse(cur[w], {"publish"}) ELSE UNCHANGED excuse
    <3>1. cfg.NackOnFailure => "publish" \in excuse'[cur[w]]
      BY <1>0, <2>2 DEF Excuse, Delivery, TypeOK
    <3>2. pc'[w] = IF cfg.NackOnFailure THEN "nack" ELSE "returnErr"
      BY <1>0, <2>2 DEF Goto, NoChannel
    <3> QED BY <2>1, <3>1, <3>2 DEF Knows
  <2>3. CASE /\ Goto(w, IF cfg.NackOnFailure THEN "nack" ELSE "returnNil")
             /\ PublishToDlq(cur[w])
    <3>1. cur[w] \in dlq' \/ "publish" \in excuse'[cur[w]]
      BY <1>0, <2>3, PublishLeaves DEF Delivery
    <3>2. pc'[w] = IF cfg.NackOnFailure THEN "nack" ELSE "returnNil"
      BY <1>0, <2>3 DEF Goto
    <3> QED BY <2>1, <3>1, <3>2 DEF Knows, Resolved, HandlerSettles
  <2> QED BY <1>11, <2>2, <2>3 DEF RouteToDlq
<1>12. CASE Nack(w)
  <2>1. /\ cur[w] \in seen /\ Resolved(cur[w])
        /\ pc'[w] = SettleReturn /\ settled'[w] = TRUE
        /\ UNCHANGED <<cur, seen, chan>>
    BY <1>0, <1>12 DEF Nack, SettleAndReturn, Goto, Knows, Resolved, history
  <2>2. Resolved(cur[w])'
    BY <1>0, <1>r, <2>1 DEF Resolved
  <2> QED BY <2>1, <2>2 DEF Knows, SettleReturn
<1> QED BY <1>1, <1>2, <1>3, <1>4, <1>5, <1>6, <1>7, <1>8, <1>9, <1>10, <1>11, <1>12 DEF WorkerStep

\* What a settlement takes from the broker.
LEMMA SettleTakes ==
  ASSUME Delivery, NEW w \in Workers, cur[w] \in Msgs,
         NEW how \in {"ack", "requeue", "reject"}, Settle(w, how), NEW m \in Msgs
  PROVE  /\ m \in Gone' => m \in Gone \/ (m = cur[w] /\ how # "requeue" /\ chan = "open" /\ ~settled[w])
         /\ m \in acked' => m \in acked \/ (m = cur[w] /\ how = "ack" /\ chan = "open" /\ ~settled[w])
         /\ m \in acked => m \in acked'
         /\ (m = cur[w] /\ how = "ack" /\ m \in Gone' \ Gone) => m \in acked'
BY DEF Settle, Gone

\* The messages that a worker's step adds to those gone or acked.
LEMMA WorkerTakes ==
  ASSUME Delivery, NEW w \in Workers, WorkerStep(w), NEW m \in Msgs
  PROVE  /\ m \in acked => m \in acked'
         /\ m \in Gone' \ Gone =>
              /\ m = cur[w] /\ chan = "open" /\ ~settled[w]
              /\ \/ pc[w] = "attempt" /\ "shutdown" \in excuse'[m]
                 \/ pc[w] \in {"returnNil", "ack"} /\ m \in acked'
                 \/ pc[w] = "returnErr" /\ ~RequeueOnFail
                 \/ pc[w] \in {"nackRetry", "nack"}
         /\ m \in acked' \ acked =>
              m = cur[w] /\ chan = "open" /\ ~settled[w] /\ pc[w] \in {"returnNil", "ack"}
         /\ ("retry" \in excuse'[m] /\ "retry" \notin excuse[m]) => m = cur[w] /\ pc[w] = "retry"
<1>0. cur[w] \in Msgs
  BY InHand DEF Delivery
<1>1. CASE Attempt(w)
  <2>1. CASE Aborts(w)
    <3>1. excuse' = [excuse EXCEPT ![cur[w]] = @ \cup {"shutdown"}]
      BY <1>1, <2>1 DEF Attempt, Aborts, Excuse
    <3> QED BY <1>0, <1>1, <2>1, <3>1, SettleTakes DEF Attempt, Delivery, TypeOK
  <2>2. CASE ~Aborts(w)
    BY <1>1, <2>2 DEF Attempt, Gone
  <2> QED BY <2>1, <2>2
<1>2. CASE ReturnNil(w)
  BY <1>0, <1>2, SettleTakes DEF ReturnNil, history
<1>3. CASE ReturnErr(w)
  <2>1. CASE LastAttempt(w)
    BY <1>0, <1>3, <2>1, SettleTakes DEF ReturnErr, history
  <2>2. CASE ~LastAttempt(w)
    BY <1>3, <2>2 DEF ReturnErr, Gone, history
  <2> QED BY <2>1, <2>2
<1>4. CASE Handle(w)
  BY <1>0, <1>4 DEF Handle, PublishToDlq, Excuse, Gone, Delivery, TypeOK
<1>5. CASE Process(w) \/ HandleSuccess(w) \/ HandleFailed(w)
  BY <1>5 DEF Process, HandleSuccess, HandleFailed, Gone, broker, history
<1>6. CASE Ack(w)
  BY <1>0, <1>6, SettleTakes DEF Ack, SettleAndReturn, history
<1>7. CASE HandleRetry(w)
  BY <1>0, <1>7 DEF HandleRetry, Excuse, Gone, broker, Delivery, TypeOK
<1>8. CASE NackRetry(w)
  BY <1>0, <1>8, SettleTakes DEF NackRetry, SettleAndReturn, history
<1>9. CASE RouteToDlq(w)
  BY <1>0, <1>9 DEF RouteToDlq, PublishToDlq, Excuse, Gone, Delivery, TypeOK
<1>10. CASE Nack(w)
  BY <1>0, <1>10, SettleTakes DEF Nack, SettleAndReturn, history
<1> QED BY <1>1, <1>2, <1>3, <1>4, <1>5, <1>6, <1>7, <1>8, <1>9, <1>10 DEF WorkerStep

\* A worker's step accounts for the message it settles.
LEMMA WorkerAccounts ==
  ASSUME Delivery, Outcome, NEW w \in Workers, WorkerStep(w), NEW m \in Msgs
  PROVE  Accounted(m)'
<1>1. Grows /\ Knows(w) /\ Accounted(m) /\ okRuns[m] \in 0 .. 2
  BY WorkerGrows DEF Outcome, Delivery, TypeOK
<1>2. /\ Resolved(m) => Resolved(m)'
      /\ ReachesOut(m) => ReachesOut(m)'
      /\ HandlerSettles' = HandlerSettles
      /\ (Recorded(m) /\ db'[m] = db[m]) => Recorded(m)'
  BY <1>1 DEF Grows, Resolved, ReachesOut, Recorded, HandlerSettles
<1>3. m \in Gone' \ seen' => "shutdown" \in excuse'[m]
  BY <1>1, WorkerTakes DEF Accounted, Knows, Grows
<1>4. "retry" \in excuse'[m] => ReachesOut(m)'
  BY <1>1, <1>2, WorkerTakes DEF Accounted, Knows
<1>5. ASSUME m \in acked' PROVE Resolved(m)' /\ (HandlerSettles' => Recorded(m)')
  <2>1. CASE m \in acked
    BY <1>1, <1>2, <2>1, RowsOfOthers DEF Accounted
  <2>2. CASE m \notin acked
    <3>1. m = cur[w] /\ chan = "open" /\ ~settled[w] /\ pc[w] \in {"returnNil", "ack"}
      BY <1>5, <2>2, WorkerTakes
    <3>2. Resolved(m) /\ (HandlerSettles => Recorded(m))
      BY <1>1, <3>1 DEF Knows, Resolved
    <3>3. db' = db
      BY <3>1 DEF WorkerStep, Attempt, ReturnNil, ReturnErr, Handle, Process, HandleSuccess, Ack,
                  HandleRetry, NackRetry, HandleFailed, RouteToDlq, Nack
    <3> QED BY <1>2, <3>2, <3>3
  <2> QED BY <2>1, <2>2
<1> QED BY <1>3, <1>4, <1>5 DEF Accounted

\* The broker and the consumer lose nothing.
LEMMA OtherOutcome ==
  ASSUME Delivery, Outcome, Next, ~\E w \in Workers : WorkerStep(w)
  PROVE  Outcome' /\ (Kept => Kept')
<1>1. UNCHANGED <<acked, dlq, db, seen, okRuns, excuse, dbMissed, cfg, task>>
  BY DEF Next, Deliver, CloseChannel, Start, Cancel, CancelReturns, Restart, Take, WorkerExits,
         broker, history
<1>2. Gone' = Gone
  <2>1. ready' \cup unacked' = ready \cup unacked
    BY DEF Next, Deliver, CloseChannel, Start, Cancel, CancelReturns, Restart, Take, WorkerExits, broker
  <2> QED BY <2>1 DEF Gone
<1>3. ASSUME NEW w \in Workers PROVE Knows(w)'
  <2>1. \/ pc'[w] \in {"off", "idle", "attempt"}
        \/ UNCHANGED <<pc[w], cur[w], settled[w]>> /\ (chan' = "open" => chan = "open")
    BY DEF Next, Deliver, CloseChannel, Start, Cancel, CancelReturns, Restart, Take, WorkerExits,
           Goto, broker, Delivery, TypeOK
  <2>2. CASE pc'[w] \in {"off", "idle", "attempt"}
    BY <2>2 DEF Knows
  <2>3. CASE UNCHANGED <<pc[w], cur[w], settled[w]>> /\ (chan' = "open" => chan = "open")
    BY <1>1, <2>3 DEF Outcome, Knows, Resolved, Recorded, ReachesOut, HandlerSettles
  <2> QED BY <2>1, <2>2, <2>3
<1>4. ASSUME NEW m \in Msgs PROVE Accounted(m)'
  BY <1>1, <1>2 DEF Outcome, Accounted, Resolved, Recorded, ReachesOut, HandlerSettles
<1>5. Kept => Kept'
  BY <1>1, <1>2 DEF Kept
<1> QED BY <1>3, <1>4, <1>5 DEF Outcome

\* Nothing is gone or acked at the start.
LEMMA InitOutcome == Init => Outcome /\ Kept
BY DEF Init, Outcome, Knows, Accounted, Kept, Gone

\* Each step, or none, keeps what is known of messages and of the handlers' deliveries.
LEMMA NextOutcome ==
  ASSUME DlqDeclared, Delivery, Outcome, [Next]_vars
  PROVE  Outcome'
<1>1. CASE \E w \in Workers : WorkerStep(w)
  BY <1>1, WorkerKnows, OthersKnow, WorkerAccounts DEF Outcome
<1>2. CASE Next /\ ~\E w \in Workers : WorkerStep(w)
  BY <1>2, OtherOutcome
<1>3. CASE UNCHANGED vars
  BY <1>3 DEF vars, broker, history, Outcome, Knows, Accounted, Gone, Resolved, Recorded,
              ReachesOut, HandlerSettles
<1> QED BY <1>1, <1>2, <1>3

\* No message without an excuse is rejected.
NoFinalReject == RequeueOnFail \/ \A c \in HandlerConfigs : c.NackOnFailure

\* A message goes only with an ack, a dead-letter copy or an excuse.
LEMMA NextKept ==
  ASSUME NoFinalReject, Delivery, Outcome, Kept, [Next]_vars
  PROVE  Kept'
<1>1. CASE \E w \in Workers : WorkerStep(w)
  <2> PICK w \in Workers : WorkerStep(w)
    BY <1>1
  <2> SUFFICES ASSUME NEW m \in Gone' PROVE m \in acked' \cup dlq' \/ excuse'[m] # {}
    BY DEF Kept
  <2>1. m \in Msgs /\ Grows /\ Knows(w) /\ (m \in acked => m \in acked')
    BY WorkerGrows, WorkerTakes DEF Gone, Outcome
  <2>2. CASE m \in Gone
    BY <2>1, <2>2 DEF Kept, Grows
  <2>3. CASE m \notin Gone
    <3>1. ~(pc[w] = "returnErr" /\ chan = "open" /\ ~RequeueOnFail)
      BY <2>1 DEF NoFinalReject, Knows, Delivery, TypeOK
    <3> QED BY <2>1, <2>3, <3>1, WorkerTakes DEF Knows, Grows
  <2> QED BY <2>2, <2>3
<1>2. CASE Next /\ ~\E w \in Workers : WorkerStep(w)
  BY <1>2, OtherOutcome
<1>3. CASE UNCHANGED vars
  BY <1>3 DEF vars, broker, history, Kept, Gone
<1> QED BY <1>1, <1>2, <1>3

(***************************************************************************)
(* An ack stands for a success, a dead-letter copy or an excuse, and where *)
(* the handler settles by itself for a recorded success, on every broker   *)
(* that has the handler's dead-letter queue.                               *)
(***************************************************************************)
THEOREM AcksMeanDone ==
  ASSUME DlqDeclared
  PROVE  Spec => []AckMeansDone
<1>1. Outcome /\ Delivery => AckMeansDone
  BY DEF Outcome, Delivery, TypeOK, Accounted, AckMeansDone, Resolved, Recorded, HandlerSettles
<1>2. Delivery /\ Outcome /\ [Next]_vars => Delivery' /\ Outcome'
  BY NextDelivery, NextOutcome
<1> QED BY <1>1, <1>2, InitDelivery, InitOutcome, PTL DEF Spec

(***************************************************************************)
(* A message that the broker gives up without an ack is in a dead-letter   *)
(* queue or has an excuse: where the dead-letter queue exists and the      *)
(* final nack of processMessage requeues or is never met, because the      *)
(* handler nacks its failures itself.  Both defaults satisfy it.           *)
(***************************************************************************)
THEOREM LossesAreExcused ==
  ASSUME DlqDeclared, NoFinalReject
  PROVE  Spec => []LossIsExcused
<1>1. Outcome /\ Kept => LossIsExcused
  BY DEF Outcome, Kept, Accounted, LossIsExcused, Gone, ReachesOut
<1>2. Delivery /\ Outcome /\ Kept /\ [Next]_vars => Delivery' /\ Outcome' /\ Kept'
  BY NextDelivery, NextOutcome, NextKept
<1> QED BY <1>1, <1>2, InitDelivery, InitOutcome, PTL DEF Spec

\* No message leaves the acked ones.
LEMMA AckedGrows ==
  ASSUME Next PROVE acked \subseteq acked'
<1>1. ASSUME NEW w \in Workers, WorkerStep(w) PROVE acked \subseteq acked'
  BY <1>1 DEF WorkerStep, Attempt, ReturnNil, ReturnErr, Handle, Process, HandleSuccess, Ack,
              HandleRetry, NackRetry, HandleFailed, RouteToDlq, Nack, SettleAndReturn, Settle, broker
<1>2. CASE ~\E w \in Workers : WorkerStep(w)
  BY <1>2 DEF Next, Deliver, CloseChannel, Start, Cancel, CancelReturns, Restart, Take,
              WorkerExits, broker
<1> QED BY <1>1, <1>2

\* A successful run is counted only for a message that is not acked.
LEMMA RunsOfOthers ==
  ASSUME Delivery, NEW w \in Workers, WorkerStep(w), NEW m \in acked
  PROVE  okRuns'[m] = okRuns[m]
<1>1. CASE Process(w)
  <2>1. m # cur[w]
    BY <1>1 DEF Process, Delivery, Holding
  <2> QED BY <1>1, <2>1 DEF Process, Delivery, TypeOK
<1>2. CASE ~Process(w)
  BY <1>2 DEF WorkerStep, Attempt, ReturnNil, ReturnErr, Handle, HandleSuccess, Ack,
              HandleRetry, NackRetry, HandleFailed, RouteToDlq, Nack, history
<1> QED BY <1>1, <1>2

\* What a step may never do to a message the broker has accepted an ack for:
\* put it back, deliver it, run it again or write its row.
AckIsFinal ==
  \A m \in acked :
    /\ m \in acked' /\ m \notin ready' \cup unacked'
    /\ okRuns'[m] = okRuns[m] /\ db'[m] = db[m]

(***************************************************************************)
(* An ack is final: through channel faults, restarts and the stale         *)
(* deliveries a worker still has in hand, no step puts an acked message    *)
(* back, runs it or writes its row (consumer.go 141-186, handler.go        *)
(* 139-284).  This needs Delivery: the only worker whose delivery can be   *)
(* acked is on its way out of processMessage.                              *)
(***************************************************************************)
THEOREM AcksAreFinal == Spec => [][AckIsFinal]_vars
<1>1. ASSUME Delivery, Delivery', Next PROVE AckIsFinal
  <2>1. acked \subseteq acked'
    BY <1>1, AckedGrows
  <2>2. \A m \in acked : m \in Msgs /\ m \notin ready' \cup unacked'
    BY <1>1, <2>1 DEF Delivery, Places, TypeOK
  <2>3. CASE \E w \in Workers : WorkerStep(w)
    BY <1>1, <2>1, <2>2, <2>3, RunsOfOthers, RowsOfOthers DEF AckIsFinal
  <2>4. CASE ~\E w \in Workers : WorkerStep(w)
    <3>1. UNCHANGED <<okRuns, db>>
      BY <1>1, <2>4 DEF Next, Deliver, CloseChannel, Start, Cancel, CancelReturns, Restart,
                        Take, WorkerExits, history
    <3> QED BY <2>1, <2>2, <3>1 DEF AckIsFinal
  <2> QED BY <2>3, <2>4
<1>2. Delivery /\ Delivery' /\ [Next]_vars => [AckIsFinal]_vars
  BY <1>1
<1> QED BY <1>2, InitDelivery, NextDelivery, PTL DEF Spec
=============================================================================
