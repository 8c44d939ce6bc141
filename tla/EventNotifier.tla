---------------------------- MODULE EventNotifier ----------------------------
(***************************************************************************)
(* The webhook notifier of internal/webhook/notifier.go: its workers and   *)
(* batch processors share one bounded channel; a failed delivery puts the  *)
(* whole task back on it after a timer, or into the bounded dead-letter    *)
(* list.  Which webhooks match an event is fixed; Deliver (delivery.go),   *)
(* with its inner attempts, is one outcome.                                *)
(***************************************************************************)
EXTENDS Integers, SequencesExt, Bags

CONSTANTS
  Events, Hooks,
  Matching,                 \* MatchWebhooks: the webhooks of each event
  QueueSize, WorkerCount, BatchSize, DeadLetterLimit,   \* NotifierConfig
  MaxRetries,               \* of a task; 3 in Notify
  MaxExtras                 \* bound: restarts and replays in one behaviour

ASSUME NotifierAssumption ==
  /\ {QueueSize, WorkerCount, MaxRetries, MaxExtras} \subseteq Nat
  /\ {BatchSize, DeadLetterLimit} \subseteq Nat \ {0}
  /\ Matching \in [Events -> (SUBSET Hooks) \ {{}}]

VARIABLES
  started, closed,    \* n.started; n.stopCh is closed
  stopping,           \* Stop calls between the unlock and close(stopCh)
  panicked,           \* a second close of stopCh has ended the process
  starts,             \* Start calls that started goroutines
  taskCh,             \* the channel
  sending,            \* tasks that a timer or a replay is about to send
  deadLetter,
  pc, hand, todo,     \* per goroutine: place, tasks it took off the channel,
                      \* webhooks left of the one it processes
  sent,               \* events Notify accepted
  passes, delivered, failed, replays, discarded   \* history, see below

life == <<started, closed, stopping, panicked, starts>>
history == <<sent, passes, delivered, failed, replays, discarded>>
vars == <<life, taskCh, sending, deadLetter, pc, hand, todo, history>>

Task == [event : Events, hooks : SUBSET Hooks, retries : 0 .. MaxRetries]

\* Goroutines of the g-th Start: <<g, 0>> is its batchProcessor, which Stop does
\* not wait for, the others are its workers.
Threads == (1 .. MaxExtras + 1) \X (0 .. WorkerCount)
IsBatch(t) == t[2] = 0

Init ==
  /\ started = FALSE /\ closed = FALSE /\ stopping = 0 /\ panicked = FALSE
  /\ starts = 0 /\ taskCh = <<>> /\ sending = EmptyBag /\ deadLetter = <<>>
  /\ pc = [t \in Threads |-> "off"] /\ hand = [t \in Threads |-> <<>>]
  /\ todo = [t \in Threads |-> {}] /\ sent = {}
  /\ passes = [e \in Events |-> 0] /\ delivered = [e \in Events |-> [h \in Hooks |-> 0]]
  /\ failed = {} /\ replays = [e \in Events |-> 0] /\ discarded = {}
-----------------------------------------------------------------------------
(* Start and Stop *)

Restarts == IF starts = 0 THEN 0 ELSE starts - 1
Extras == Restarts + SumFunction(replays)

Start ==
  /\ ~started /\ (starts > 0 => Extras < MaxExtras)
  /\ started' = TRUE /\ starts' = starts + 1
  /\ pc' = [t \in Threads |-> IF t[1] = starts + 1 THEN "select" ELSE pc[t]]
  /\ UNCHANGED <<closed, stopping, panicked, taskCh, sending, deadLetter, hand,
                 todo, history>>

CanStop == started

Stop ==
  /\ CanStop /\ stopping <= MaxExtras
  /\ started' = FALSE /\ stopping' = stopping + 1
  /\ UNCHANGED <<closed, panicked, starts, taskCh, sending, deadLetter, pc, hand,
                 todo, history>>

\* close(n.stopCh), which Start never makes anew.
CloseStopCh ==
  /\ stopping > 0 /\ stopping' = stopping - 1
  /\ closed' = TRUE /\ panicked' = closed
  /\ UNCHANGED <<started, starts, taskCh, sending, deadLetter, pc, hand, todo, history>>
-----------------------------------------------------------------------------
(* The channel and the dead letters *)

HasRoom == Len(taskCh) < QueueSize

\* moveToDeadLetter: at the limit the oldest entry goes.
MoveToDeadLetter(task) ==
  LET full == Len(deadLetter) >= DeadLetterLimit IN
  /\ deadLetter' = Append(IF full THEN Tail(deadLetter) ELSE deadLetter, task)
  /\ discarded' = IF full THEN discarded \cup {Head(deadLetter).event} ELSE discarded

\* Notify: queued for the webhooks that match, or refused with an error.
Notify(e) ==
  /\ e \notin sent /\ HasRoom
  /\ taskCh' = Append(taskCh, [event |-> e, hooks |-> Matching[e], retries |-> 0])
  /\ sent' = sent \cup {e}
  /\ UNCHANGED <<life, sending, deadLetter, pc, hand, todo, passes, delivered,
                 failed, replays, discarded>>

\* MUTANT: a full channel drops the task.
OnFull_Drop(task) == UNCHANGED <<deadLetter, discarded>>
OnFull(task) == MoveToDeadLetter(task)

\* A retry timer fires, or a replay sends: the channel or the dead letters.
Send(task) ==
  /\ BagIn(task, sending) /\ sending' = sending (-) SetToBag({task})
  /\ IF HasRoom
     THEN taskCh' = Append(taskCh, task) /\ UNCHANGED <<deadLetter, discarded>>
     ELSE OnFull(task) /\ UNCHANGED taskCh
  /\ UNCHANGED <<life, pc, hand, todo, sent, passes, delivered, failed, replays>>

Fresh(task) == [task EXCEPT !.retries = 0]
EntriesOf(e) == {i \in DOMAIN deadLetter : deadLetter[i].event = e}

\* ReplayDeadLetter takes an entry out under the lock and sends it later.
ReplayDeadLetter(i) ==
  /\ Extras < MaxExtras
  /\ deadLetter' = RemoveAt(deadLetter, i)
  /\ sending' = sending (+) SetToBag({Fresh(deadLetter[i])})
  /\ replays' = [replays EXCEPT ![deadLetter[i].event] = @ + 1]
  /\ UNCHANGED <<life, taskCh, pc, hand, todo, sent, passes, delivered, failed, discarded>>

\* The dead letters, fresh again, as a bag.
Renewed ==
  LET with(c) == {i \in DOMAIN deadLetter : Fresh(deadLetter[i]) = c}
  IN  [c \in {Fresh(deadLetter[i]) : i \in DOMAIN deadLetter} |-> Cardinality(with(c))]

\* ReplayAllDeadLetter takes them all.
ReplayAllDeadLetter ==
  /\ deadLetter # <<>> /\ Extras + Len(deadLetter) <= MaxExtras
  /\ deadLetter' = <<>>
  /\ sending' = sending (+) Renewed
  /\ replays' = [e \in Events |-> replays[e] + Cardinality(EntriesOf(e))]
  /\ UNCHANGED <<life, taskCh, pc, hand, todo, sent, passes, delivered, failed, discarded>>

ClearDeadLetter ==
  /\ deadLetter # <<>> /\ deadLetter' = <<>>
  /\ discarded' = discarded \cup {task.event : task \in Range(deadLetter)}
  /\ UNCHANGED <<life, taskCh, sending, pc, hand, todo, sent, passes, delivered,
                 failed, replays>>
-----------------------------------------------------------------------------
(* worker, batchProcessor and processTask *)

Delivering(t) == pc[t] \in {"deliver", "lastDeliver"}

\* Goroutine t begins processTask with the first of the tasks.
StartPass(t, tasks, label) ==
  /\ pc' = [pc EXCEPT ![t] = label]
  /\ hand' = [hand EXCEPT ![t] = tasks]
  /\ todo' = [todo EXCEPT ![t] = Head(tasks).hooks]
  /\ passes' = [passes EXCEPT ![Head(tasks).event] = @ + 1]

Rest == Tail(taskCh)

\* A worker processes the task it receives, a batch processor collects it.
Receive(t) ==
  LET tasks == Append(hand[t], Head(taskCh)) IN
  /\ pc[t] = "select" /\ taskCh # <<>>
  /\ taskCh' = Rest
  /\ IF IsBatch(t) /\ Len(tasks) < BatchSize
     THEN hand' = [hand EXCEPT ![t] = tasks] /\ UNCHANGED <<pc, todo, passes>>
     ELSE StartPass(t, tasks, "deliver")
  /\ UNCHANGED <<life, sending, deadLetter, sent, delivered, failed, replays, discarded>>

\* MUTANT: only a full batch is flushed.
TickFlushes_Never(t) == FALSE
TickFlushes(t) == IsBatch(t) /\ hand[t] # <<>>

BatchTick(t) ==
  /\ pc[t] = "select" /\ TickFlushes(t)
  /\ StartPass(t, hand[t], "deliver")
  /\ UNCHANGED <<life, taskCh, sending, deadLetter, sent, delivered, failed,
                 replays, discarded>>

\* A closed stopCh: a worker returns, a batch processor flushes first.  The
\* select may still choose the channel.
SeeStop(t) ==
  /\ pc[t] = "select" /\ closed
  /\ IF hand[t] = <<>>
     THEN pc' = [pc EXCEPT ![t] = "off"] /\ UNCHANGED <<hand, todo, passes>>
     ELSE StartPass(t, hand[t], "lastDeliver")
  /\ UNCHANGED <<life, taskCh, sending, deadLetter, sent, delivered, failed,
                 replays, discarded>>

\* The turn for webhook h is over and leaves the pass's own task as given: the
\* next webhook, the next task of the batch, or the end of processing.
Proceed(t, h, task) ==
  IF todo[t] # {h}
  THEN /\ todo' = [todo EXCEPT ![t] = @ \ {h}]
       /\ hand' = [hand EXCEPT ![t] = <<task>> \o Tail(@)]
       /\ UNCHANGED <<pc, passes>>
  ELSE IF Len(hand[t]) > 1
  THEN StartPass(t, Tail(hand[t]), pc[t])
  ELSE /\ pc' = [pc EXCEPT ![t] = IF @ = "deliver" THEN "select" ELSE "off"]
       /\ hand' = [hand EXCEPT ![t] = <<>>] /\ todo' = [todo EXCEPT ![t] = {}]
       /\ UNCHANGED passes

\* MUTANT: only the copy that is sent again counts the retry.
Retried_CopyOnly(task) == task
\* task.Retries++ of the pass itself: its later webhooks see it.
Retried(task) == [task EXCEPT !.retries = @ + 1]

\* One turn of processTask's loop: Deliver fails, and the whole task is sent
\* again later or dead.
DeliveryFails(t, h) ==
  LET task == Head(hand[t]) IN
  /\ Delivering(t) /\ h \in todo[t]
  /\ failed' = failed \cup {task.event}
  /\ IF task.retries < MaxRetries
     THEN /\ sending' = sending (+) SetToBag({[task EXCEPT !.retries = @ + 1]})
          /\ Proceed(t, h, Retried(task))
          /\ UNCHANGED <<deadLetter, discarded>>
     ELSE MoveToDeadLetter(task) /\ Proceed(t, h, task) /\ UNCHANGED sending
  /\ UNCHANGED <<life, taskCh, sent, delivered, replays>>

DeliverySucceeds(t, h) ==
  LET task == Head(hand[t]) IN
  /\ Delivering(t) /\ h \in todo[t]
  /\ delivered' = [delivered EXCEPT ![task.event][h] = IF @ < 2 THEN @ + 1 ELSE @]
  /\ Proceed(t, h, task)
  /\ UNCHANGED <<life, taskCh, sending, deadLetter, sent, failed, replays, discarded>>

ThreadStep(t) ==
  /\ ~panicked
  /\ \/ Receive(t) \/ BatchTick(t) \/ SeeStop(t)
     \/ \E h \in Hooks : DeliveryFails(t, h) \/ DeliverySucceeds(t, h)

SendStep == ~panicked /\ \E task \in BagToSet(sending) : Send(task)

Next ==
  \/ ~panicked /\ (Start \/ Stop \/ CloseStopCh \/ ReplayAllDeadLetter \/ ClearDeadLetter)
  \/ ~panicked /\ \E e \in Events : Notify(e)
  \/ ~panicked /\ \E i \in DOMAIN deadLetter : ReplayDeadLetter(i)
  \/ SendStep
  \/ \E t \in Threads : ThreadStep(t)

Spec == Init /\ [][Next]_vars

\* Goroutines are scheduled, deliveries end (their context has a timeout), the
\* batch ticker ticks and timers fire.
Fairness == WF_vars(SendStep) /\ \A t \in Threads : WF_vars(ThreadStep(t))

FairSpec == Spec /\ Fairness
-----------------------------------------------------------------------------
\* Goroutine t still has event e to deliver to webhook h.
Holds(t, e, h) ==
  \E i \in DOMAIN hand[t] :
    hand[t][i].event = e /\ (i > 1 \/ ~Delivering(t) \/ h \in todo[t])

\* An accepted event reaches each of its webhooks, or a copy of its task still
\* exists: on the channel, with a timer or a replay, in a goroutine's hands or
\* among the dead letters, unless the dead-letter limit or ClearDeadLetter
\* discarded one.  No race of timers, replays, full channel and Stop makes it
\* vanish (lines 212-300, 344-436).
NothingVanishes ==
  \A e \in sent \ discarded : \A h \in Matching[e] :
    \/ delivered[e][h] > 0
    \/ \E task \in Range(taskCh) \cup BagToSet(sending) \cup Range(deadLetter) : task.event = e
    \/ \E t \in Threads : Holds(t, e, h)

\* A webhook gets an event twice only if some webhook of the event failed: the
\* retry repeats the whole task, the ones that succeeded included.  The copies
\* multiply, one per failing webhook of a pass, but each pass counts its retries
\* up for the copies that follow: one acceptance or replay leads to at most
\* 2^MaxRetries passes (lines 216-275).
RepeatsBounded ==
  \A e \in Events :
    /\ (\E h \in Hooks : delivered[e][h] > 1) => e \in failed
    /\ passes[e] <= 2 ^ MaxRetries * (1 + replays[e])

Healthy == started /\ ~closed /\ stopping = 0
Settled(e) ==
  /\ \A task \in Range(taskCh) \cup BagToSet(sending) : task.event # e
  /\ \A t \in Threads, h \in Hooks : ~Holds(t, e, h)

\* A running notifier comes to an end with every accepted event: no copy of it
\* waits on the channel, with a timer or in a goroutine, whatever is left is a
\* dead letter (lines 196-328).
AcceptedSettles ==
  \A e \in Events : (Healthy /\ e \in sent) ~> (Settled(e) \/ ~Healthy)
==============================================================================
