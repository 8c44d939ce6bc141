-------------------------- MODULE WebhookDeliveries --------------------------
(***************************************************************************)
(* The webhook subsystem at work: events are matched against the manager's *)
(* routes when they are accepted, delivered later by workers through the   *)
(* Deliverer's loop of attempts, and kept in the history, while webhooks   *)
(* are edited and the history is trimmed.  The notifier's channel, timers  *)
(* and dead letters are those of EventNotifier; here a task waits in a bag *)
(* between its passes.                                                     *)
(***************************************************************************)
EXTENDS WebhookManager, WebhookHistory, Bags

CONSTANTS
  Workers,
  MaxAttempts,     \* Deliverer's DeliveryConfig.MaxRetries
  HookRetries,     \* RetryConfig.MaxRetries of the webhooks
  TaskRetries      \* NotificationTask.MaxRetries

ASSUME DeliveriesAssumption ==
  /\ MaxAttempts \in Nat \ {0}
  /\ {HookRetries, TaskRetries} \subseteq Nat

VARIABLES
  tasks,      \* accepted tasks waiting for a pass
  worker,     \* the workers in processTask
  created     \* last delivery id given out

workVars == <<tasks, worker, created>>
deliveriesVars == <<managerVars, historyVars, workVars>>

NoPass == [pc |-> "idle", hooks |-> EmptyBag, todo |-> EmptyBag, retries |-> 0,
           h |-> "none", d |-> 0, attempt |-> 0, ok |-> FALSE]

DeliveriesInit ==
  /\ ManagerInit /\ HistoryInit
  /\ tasks = EmptyBag /\ worker = [w \in Workers |-> NoPass]
  /\ created = 0
-----------------------------------------------------------------------------
\* Notify keeps the webhooks that match now; with none there is no task.
NotifyMatching(e) ==
  LET matched == [h \in {x \in HookIds : Matches(e, x) > 0} |-> Matches(e, h)]
  IN  /\ HasSubscribers(e)
      /\ calls < MaxCalls /\ calls' = calls + 1
      /\ tasks' = tasks (+) SetToBag({[hooks |-> matched, retries |-> 0]})
      /\ UNCHANGED <<webhooks, eventRoutes, paused, historyVars, worker, created>>

TakeTask(w) ==
  /\ worker[w].pc = "idle"
  /\ w = CHOOSE x \in Workers : worker[x].pc = "idle"
  /\ \E t \in BagToSet(tasks) :
       /\ tasks' = tasks (-) SetToBag({t})
       /\ worker' = [worker EXCEPT ![w] = [NoPass EXCEPT !.pc = "next", !.hooks = t.hooks,
                                           !.todo = t.hooks, !.retries = t.retries]]
  /\ UNCHANGED <<managerVars, historyVars, created>>

\* The next webhook of the task, deleted or not, with a new delivery; or the end.
NextHook(w) ==
  /\ worker[w].pc = "next"
  /\ \/ /\ worker[w].todo = EmptyBag
        /\ worker' = [worker EXCEPT ![w] = NoPass]
        /\ UNCHANGED created
     \/ \E h \in BagToSet(worker[w].todo) :
          /\ created + 1 \in Deliveries
          /\ created' = created + 1
          /\ worker' = [worker EXCEPT ![w].pc = "record", ![w].h = h, ![w].d = created + 1,
                                      ![w].todo = @ (-) SetToBag({h})]
  /\ UNCHANGED <<managerVars, historyVars, tasks>>

Record(w) ==
  /\ worker[w].pc = "record"
  /\ RecordDelivery(worker[w].d, worker[w].h)
  /\ worker' = [worker EXCEPT ![w].pc = "send", ![w].attempt = 1]
  /\ UNCHANGED <<managerVars, tasks, created>>

\* Deliver: one sendAttempt, answered with a 2xx status or not; between two
\* attempts the pass's context may end, which returns the last result.
SendAttempt(w) ==
  /\ worker[w].pc = "send"
  /\ \/ worker' = [worker EXCEPT ![w].pc = "report", ![w].ok = TRUE]
     \/ worker' = [worker EXCEPT ![w].pc = "report", ![w].ok = FALSE]
     \/ /\ worker[w].attempt < MaxAttempts
        /\ worker' = [worker EXCEPT ![w].attempt = @ + 1]
  /\ UNCHANGED <<managerVars, historyVars, tasks, created>>

Status(w) ==
  IF worker[w].ok THEN "success"
  ELSE IF worker[w].attempt < HookRetries THEN "retrying" ELSE "failed"

\* MUTANT: a failure is written by the retry that follows it.
ReportStatus_Success(w) ==
  IF worker[w].ok THEN UpdateDeliveryStatus(worker[w].d, Status(w)) ELSE UNCHANGED historyVars

ReportStatus(w) == UpdateDeliveryStatus(worker[w].d, Status(w))

\* The outcome goes into the history; after a failure a copy of the whole task is
\* sent again, while it has retries left, else it is a dead letter.
Report(w) ==
  LET again == ~worker[w].ok /\ worker[w].retries < TaskRetries
      n == worker[w].retries + 1
  IN  /\ worker[w].pc = "report"
      /\ ReportStatus(w)
      /\ tasks' = tasks (+) SetToBag(IF again THEN {[hooks |-> worker[w].hooks, retries |-> n]} ELSE {})
      /\ worker' = [worker EXCEPT ![w] = [NoPass EXCEPT
                      !.pc = "next", !.hooks = worker[w].hooks, !.todo = worker[w].todo,
                      !.retries = IF again THEN n ELSE worker[w].retries]]
      /\ UNCHANGED <<managerVars, created>>

WorkerStep(w) ==
  TakeTask(w) \/ NextHook(w) \/ Record(w) \/ SendAttempt(w) \/ Report(w)

Housekeeping ==
  /\ \/ \E cutoff \in 0 .. created : EnforceRetention(cutoff)
     \/ Clear
  /\ UNCHANGED <<managerVars, workVars>>

DeliveriesNext ==
  \/ ManagerNext /\ UNCHANGED <<historyVars, workVars>>
  \/ \E e \in EventTypes : NotifyMatching(e)
  \/ \E w \in Workers : WorkerStep(w)
  \/ Housekeeping

\* Workers run, and every attempt ends: the client has a timeout.
DeliveriesSpec ==
  DeliveriesInit /\ [][DeliveriesNext]_deliveriesVars /\ \A w \in Workers : WF_deliveriesVars(WorkerStep(w))
-----------------------------------------------------------------------------
(* The list and the map of the history agree (history.go:100, 322-338),    *)
(* and an entry that no bucket of the statistics counts is one a worker is *)
(* still delivering: whatever is kept of an ended delivery shows its       *)
(* outcome, however retention, Clear and two workers interleave (387-398). *)
HistoryTellsOutcomes ==
  /\ byID = Range(entries)
  /\ \A d \in byID : delivery[d].status \notin Counted =>
       \E w \in Workers : worker[w].d = d /\ worker[w].pc \in {"send", "report"}

(* The pages of GetHistory, put together, are the filtered list, each      *)
(* delivery once and newest first although two workers may record theirs   *)
(* in the other order (history.go:126-173, 244-266).                       *)
PagesPartition ==
  \A hooks \in {HookIds} \cup {{h} : h \in HookIds}, perPage \in 1 .. 2 :
    LET list == Filtered(hooks, {"delivering"} \cup Counted)
        pages == [p \in 1 .. TotalPages(list, perPage) |-> Page(list, p, perPage)]
    IN  /\ FlattenSeq(pages) = list
        /\ \A i \in 1 .. Len(list) - 1 : list[i] > list[i + 1]
        /\ Len(list) = Len(SelectSeq(Recent(0), LAMBDA d : delivery[d].hook \in hooks))

(* A delivery does not stay under way: its entry gets its outcome, unless  *)
(* it is removed first (delivery.go:110-139, notifier.go:216-280).         *)
DeliveriesEnd ==
  \A d \in Deliveries :
    (d \in byID /\ delivery[d].status = "delivering")
      ~> (d \notin byID \/ delivery[d].status # "delivering")
=============================================================================
