-------------------------- MODULE SchedulerService --------------------------
(***************************************************************************)
(* The scheduler service: a cron engine and a poll loop over the schedule  *)
(* table, started, stopped and edited by concurrent callers.  The store's  *)
(* cache is left out: the service reads the table, and writes through it.  *)
(*                                                                         *)
(* Time is counted per schedule in occurrences: clock[s] is the number of  *)
(* instants at which s was due so far, and a row is due when its next run  *)
(* is no later than that.  A five-field cron expression parses for the row *)
(* but not for the engine, which wants seconds; a descriptor parses for    *)
(* both.                                                                   *)
(***************************************************************************)
EXTENDS Naturals, FiniteSets

CONSTANTS
    Schedules,      \* ids of rows in schedule_config
    Callers,        \* goroutines that call AddJob, RemoveJob, ...
    Slots,          \* concurrent executeJob goroutines
    Policies,       \* skip policies of the recovery engine
    MaxClock,       \* occurrences per schedule
    MaxEntries,     \* cron entries ever added
    MaxCalls        \* calls of AddJob, RemoveJob, UpdateJob, ReloadJobs

ASSUME ScheduleAssumption ==
    /\ IsFiniteSet(Schedules) /\ "none" \notin Schedules
    /\ Policies \subseteq {"none", "latest", "skip", "all"}
    /\ {MaxClock, MaxEntries, MaxCalls} \subseteq Nat

VARIABLES
    rows,        \* schedule_config: enabled flag, form of the expression, next run
    clock,       \* occurrences so far
    entries,     \* the cron engine's entries: id, schedule, job.Disabled, due
    cronOn,      \* the engine runs
    nextId,      \* last EntryID given out
    activeJobs,  \* entry of each schedule, 0 for none
    svc,         \* the caller of Start and Stop
    poll,        \* the poll loop and the due rows it still looks at
    thr,         \* the callers
    exec,        \* the executeJob goroutines
    calls,       \* history: calls so far
    runs,        \* history: dispatches since the last occurrence, or Excused
    serial       \* history: no two calls overlapped, none added a managed schedule

dbVars   == <<rows, clock>>
cronVars == <<entries, cronOn, nextId>>
histVars == <<calls, runs, serial>>
vars == <<dbVars, cronVars, activeJobs, svc, poll, thr, exec, histVars>>

None == "none"
Excused == 9
Idle == [pc |-> "idle", s |-> None, off |-> FALSE, e |-> 0, todo |-> {}]
Rest == [pc |-> "idle", s |-> None, at |-> 0]

Init ==
    /\ rows \in [Schedules -> {[enabled |-> TRUE, five |-> b, next |-> 0] : b \in BOOLEAN}]
    /\ clock = [s \in Schedules |-> 0]
    /\ entries = {} /\ cronOn = FALSE /\ nextId = 0
    /\ activeJobs = [s \in Schedules |-> 0]
    /\ svc = [pc |-> "new", todo |-> {}, cancelled |-> FALSE]
    /\ poll = [pc |-> "none", todo |-> {}]
    /\ thr = [c \in Callers |-> Idle]
    /\ exec = [x \in Slots |-> Rest]
    /\ calls = 0 /\ runs = [s \in Schedules |-> 0] /\ serial = TRUE

-----------------------------------------------------------------------------
(* The schedule table.                                                     *)

Active(s) == rows[s].enabled

\* GetDueSchedules: enabled, active, next run not in the future.
Due(s) == Active(s) /\ rows[s].next <= clock[s]

\* GetActiveSchedules.
Listed == {s \in Schedules : Active(s)}

\* schedule.Next(now).
NextRun(s) == clock[s] + 1

\* Another process disables or enables the schedule, or the service itself
\* marks it as failed, which writes the same column.
ToggleEnabled(s) ==
    /\ svc.pc \in {"new", "load", "started"}
    /\ calls < MaxCalls
    /\ calls' = calls + 1
    /\ rows' = [rows EXCEPT ![s].enabled = ~@]
    /\ UNCHANGED <<clock, cronVars, activeJobs, svc, poll, thr, exec, runs, serial>>

-----------------------------------------------------------------------------
(* The cron engine (external): entries become due with the clock and are   *)
(* fired once, however late.                                               *)

Tick(s) ==
    /\ svc.pc = "started"          \* before and after, nobody looks
    /\ clock[s] < MaxClock
    /\ clock' = [clock EXCEPT ![s] = @ + 1]
    /\ entries' = {IF n.s = s THEN [n EXCEPT !.due = cronOn] ELSE n : n \in entries}
    /\ runs' = [runs EXCEPT ![s] = IF @ = Excused THEN @ ELSE 0]
    /\ UNCHANGED <<rows, cronOn, nextId, activeJobs, svc, poll, thr, exec, calls, serial>>

Live(e) == \E n \in entries : n.id = e
Removed(e) == {n \in entries : n.id # e}

\* NewScheduledJob copies the enabled flag of the schedule the caller read;
\* AddFunc parses with seconds.
AddFunc(s, off) ==
    /\ ~rows[s].five
    /\ nextId < MaxEntries
    /\ nextId' = nextId + 1
    /\ entries' = entries \cup {[id |-> nextId + 1, s |-> s, off |-> off, due |-> FALSE]}

-----------------------------------------------------------------------------
(* executeJob.                                                             *)

Excuse(S) == runs' = [s \in Schedules |-> IF s \in S THEN Excused ELSE runs[s]]

Running(s) == {x \in Slots : exec[x].s = s}
Adding(s)  == \E c \in Callers : thr[c].pc = "set" /\ thr[c].s = s

\* executeJob starts.  It may repeat a dispatch when it overlaps another of the
\* same schedule, a list of the poll loop, or an AddJob that has an entry and
\* has not set activeJobs.
Overlaps(s) == Running(s) # {} \/ Adding(s) \/ s \in poll.todo

Free == {x \in Slots : exec[x] = Rest}

Spawn(s, overlap) ==
    /\ Free # {}
    /\ exec' = [exec EXCEPT ![CHOOSE x \in Free : TRUE] = [pc |-> "publish", s |-> s, at |-> clock[s]]]
    /\ Excuse(IF overlap THEN {s} ELSE {})

CronFires(n) ==
    /\ cronOn /\ n.due
    /\ entries' = (entries \ {n}) \cup {[n EXCEPT !.due = FALSE]}
    /\ IF n.off THEN UNCHANGED <<exec, runs>> ELSE Spawn(n.s, Overlaps(n.s))
    /\ UNCHANGED <<dbVars, cronOn, nextId, activeJobs, svc, poll, thr, calls, serial>>

\* A dispatch counts for the occurrence its execution was started in.
Dispatched(x) ==
    runs' = IF exec[x].at = clock[exec[x].s] /\ runs[exec[x].s] \in 0..1 THEN [runs EXCEPT ![exec[x].s] = @ + 1] ELSE runs

Publish(x) ==
    LET s == exec[x].s
    IN  /\ exec[x].pc = "publish"
        /\ \/ /\ ~svc.cancelled
              /\ Dispatched(x)
              /\ exec' = [exec EXCEPT ![x].pc = "store", ![x].at = NextRun(s)]
           \/ \* every attempt failed, or failed after the broker had taken it
              /\ exec' = [exec EXCEPT ![x] = Rest]
              /\ UNCHANGED runs \/ Excuse({s})
        /\ UNCHANGED <<dbVars, cronVars, activeJobs, svc, poll, thr, calls, serial>>

\* UpdateNextRunTime; it fails when the context has ended.
StoreRun(x) ==
    LET s == exec[x].s
    IN  /\ exec[x].pc = "store"
        /\ exec' = [exec EXCEPT ![x] = Rest]
        /\ \/ /\ ~svc.cancelled
              /\ rows' = [rows EXCEPT ![s].next = exec[x].at]
              /\ UNCHANGED runs
           \/ /\ Excuse({s})
              /\ UNCHANGED rows
        /\ UNCHANGED <<clock, cronVars, activeJobs, svc, poll, thr, calls, serial>>

-----------------------------------------------------------------------------
(* The poll loop.                                                          *)

\* MUTANT: the loop waits for the ticker only.
PollStops_Never == FALSE

\* The select prefers neither case; a cancelled context ends the loop.
PollStops == svc.cancelled

DueList == {s \in Schedules : Due(s)}

\* pollDueSchedules reads the due rows; a cancelled context fails the query.
PollReads ==
    /\ poll.pc = "idle"
    /\ ~svc.cancelled
    /\ poll' = [pc |-> "scan", todo |-> DueList]
    /\ Excuse({s \in DueList : Running(s) # {}})
    /\ UNCHANGED <<dbVars, cronVars, activeJobs, svc, thr, exec, calls, serial>>

\* MUTANT: due rows are dispatched whether or not the cron engine has them.
PollSkips_Never(s) == FALSE

PollSkips(s) == activeJobs[s] # 0      \* HasJob

PollStarts(s) ==
    /\ poll.pc = "scan" /\ s \in poll.todo
    /\ poll' = [poll EXCEPT !.todo = @ \ {s}]
    /\ IF PollSkips(s) THEN UNCHANGED <<exec, runs>> ELSE Spawn(s, Running(s) # {} \/ Adding(s))
    /\ UNCHANGED <<dbVars, cronVars, activeJobs, svc, thr, calls, serial>>

PollEnds ==
    /\ \/ poll.pc = "scan" /\ poll.todo = {} /\ poll' = [poll EXCEPT !.pc = "idle"]
       \/ poll.pc = "idle" /\ PollStops /\ poll' = [poll EXCEPT !.pc = "done"]
    /\ UNCHANGED <<dbVars, cronVars, activeJobs, svc, thr, exec, histVars>>

-----------------------------------------------------------------------------
(* Callers: AddJob in two steps, RemoveJob in three.                       *)

Busy == {c \in Callers : thr[c].pc # "idle"}

\* A new call on the service, by any caller that is idle.
Call(call) ==
    /\ svc.pc = "started"
    /\ Busy # Callers
    /\ calls < MaxCalls
    /\ calls' = calls + 1
    /\ thr' = [thr EXCEPT ![CHOOSE c \in Callers \ Busy : TRUE] = call]
    /\ serial' = (serial /\ Busy = {} /\ (call.pc = "add" => activeJobs[call.s] = 0))
    /\ Excuse(IF serial' THEN {} ELSE Schedules)

Enter(pc, s, todo) ==
    /\ Call([Idle EXCEPT !.pc = pc, !.s = s, !.off = ~rows[s].enabled, !.todo = todo])
    /\ UNCHANGED <<dbVars, cronVars, activeJobs, svc, poll, exec>>

AddJob(s)    == Enter("add", s, {})
RemoveJob(s) == Enter("look", s, {})
UpdateJob(s) == Enter("look", s, {s})

\* ReloadJobs removes every managed entry under the lock, then lists the rows.
ReloadJobs ==
    /\ Call([Idle EXCEPT !.pc = "next", !.todo = Listed])
    /\ entries' = {n \in entries : activeJobs[n.s] # n.id}
    /\ activeJobs' = [s \in Schedules |-> 0]
    /\ UNCHANGED <<dbVars, cronOn, nextId, svc, poll, exec>>

\* This AddJob or RemoveJob is done; ReloadJobs and UpdateJob go on.
Over(c) ==
    thr' = [thr EXCEPT ![c].pc = "next", ![c].s = None, ![c].e = 0, ![c].off = @ /\ thr[c].todo # {}]

\* The next schedule to add, or the end of the call.
NextAdd(c) ==
    /\ thr[c].pc = "next"
    /\ \/ /\ thr[c].todo = {}
          /\ thr' = [thr EXCEPT ![c] = Idle]
       \/ \E s \in thr[c].todo :
              thr' = [thr EXCEPT ![c].pc = "add", ![c].s = s, ![c].todo = @ \ {s}]
    /\ UNCHANGED <<dbVars, cronVars, activeJobs, svc, poll, exec, histVars>>

\* NewScheduledJob and AddFunc; a failure ends this AddJob.
AddToCron(c) ==
    /\ thr[c].pc = "add"
    /\ \/ /\ AddFunc(thr[c].s, thr[c].off)
          /\ thr' = [thr EXCEPT ![c].pc = "set", ![c].e = nextId']
       \/ /\ rows[thr[c].s].five
          /\ Over(c)
          /\ UNCHANGED <<entries, nextId>>
    /\ UNCHANGED <<dbVars, cronOn, activeJobs, svc, poll, exec, histVars>>

SetActive(c) ==
    /\ thr[c].pc = "set"
    /\ activeJobs' = [activeJobs EXCEPT ![thr[c].s] = thr[c].e]
    /\ Over(c)
    /\ UNCHANGED <<dbVars, cronVars, svc, poll, exec, histVars>>

LookUp(c) ==
    /\ thr[c].pc = "look"
    /\ \/ activeJobs[thr[c].s] = 0 /\ Over(c)
       \/ /\ activeJobs[thr[c].s] # 0
          /\ thr' = [thr EXCEPT ![c].pc = "remove", ![c].e = activeJobs[thr[c].s]]
    /\ UNCHANGED <<dbVars, cronVars, activeJobs, svc, poll, exec, histVars>>

\* MUTANT: the cron entry is left in the engine.
RemoveEntry_Missing(c) == entries

RemoveEntry(c) == Removed(thr[c].e)

RemoveFromCron(c) ==
    /\ thr[c].pc = "remove"
    /\ entries' = RemoveEntry(c)
    /\ thr' = [thr EXCEPT ![c].pc = "delete"]
    /\ UNCHANGED <<dbVars, cronOn, nextId, activeJobs, svc, poll, exec, histVars>>

DeleteActive(c) ==
    /\ thr[c].pc = "delete"
    /\ activeJobs' = [activeJobs EXCEPT ![thr[c].s] = 0]
    /\ Over(c)
    /\ UNCHANGED <<dbVars, cronVars, svc, poll, exec, histVars>>

-----------------------------------------------------------------------------
(* Start and Stop.                                                         *)

\* recoverSingleSchedule: a row that is due gets its next run, except under
\* policy "none" or when the lookback window holds no missed run.  Whatever
\* the policy, executeRecoveryJob publishes nothing.
Recovered(s, policy, missed) ==
    IF Due(s) /\ missed /\ policy # "none" THEN [rows[s] EXCEPT !.next = NextRun(s)] ELSE rows[s]

\* Start: recovery, then the list of rows to load.  Either query may fail;
\* the second failure ends Start without a poll loop.
Start ==
    /\ svc.pc = "new"
    /\ \E policy \in Policies, missed \in [Schedules -> BOOLEAN], reached \in BOOLEAN :
           rows' = IF reached THEN [s \in Schedules |-> Recovered(s, policy, missed[s])] ELSE rows
    /\ \/ svc' = [svc EXCEPT !.pc = "load", !.todo = Listed]
       \/ svc' = [svc EXCEPT !.pc = "failed"]
    /\ UNCHANGED <<clock, cronVars, activeJobs, poll, thr, exec, histVars>>

\* loadActiveJobs; no caller is admitted before Start returns.
LoadJob(s) ==
    /\ svc.pc = "load" /\ s \in svc.todo
    /\ svc' = [svc EXCEPT !.todo = @ \ {s}]
    /\ \/ AddFunc(s, FALSE) /\ activeJobs' = [activeJobs EXCEPT ![s] = nextId']
       \/ rows[s].five /\ UNCHANGED <<entries, nextId, activeJobs>>
    /\ UNCHANGED <<dbVars, cronOn, poll, thr, exec, histVars>>

Started ==
    /\ svc.pc = "load" /\ svc.todo = {}
    /\ cronOn' = TRUE
    /\ poll' = [poll EXCEPT !.pc = "idle"]
    /\ svc' = [svc EXCEPT !.pc = "started"]
    /\ UNCHANGED <<dbVars, entries, nextId, activeJobs, thr, exec, histVars>>

\* Stop cancels the context and then waits for pollDone.
Stop ==
    /\ svc.pc \in {"started", "failed"}
    /\ svc' = [svc EXCEPT !.pc = "wait", !.cancelled = TRUE]
    /\ UNCHANGED <<dbVars, cronVars, activeJobs, poll, thr, exec, histVars>>

\* cron.Stop, whose jobs are waited for at most ten seconds; the maps are emptied.
StopReturns ==
    /\ svc.pc = "wait"
    /\ poll.pc = "done"
    /\ svc' = [svc EXCEPT !.pc = "stopped"]
    /\ cronOn' = FALSE
    /\ activeJobs' = [s \in Schedules |-> 0]
    /\ UNCHANGED <<dbVars, entries, nextId, poll, thr, exec, histVars>>

-----------------------------------------------------------------------------
CallStep(c) == NextAdd(c) \/ AddToCron(c) \/ SetActive(c) \/ LookUp(c) \/ RemoveFromCron(c) \/ DeleteActive(c)
ExecStep(x) == Publish(x) \/ StoreRun(x)
PollStep    == PollReads \/ PollEnds \/ \E s \in Schedules : PollStarts(s)
CronStep    == \E n \in entries : CronFires(n)
SvcStep     == (\E s \in Schedules : LoadJob(s)) \/ Started \/ StopReturns

Next ==
    \/ \E c \in Callers : CallStep(c)
    \/ \E s \in Schedules : AddJob(s) \/ RemoveJob(s) \/ UpdateJob(s)
    \/ \E x \in Slots : ExecStep(x)
    \/ PollStep \/ CronStep \/ SvcStep
    \/ Start \/ Stop \/ ReloadJobs
    \/ \E s \in Schedules : Tick(s) \/ ToggleEnabled(s)

\* Goroutines run; the ticker ticks.  Callers, the clock and faults owe nothing.
Fairness ==
    /\ WF_vars(PollStep) /\ WF_vars(CronStep) /\ WF_vars(SvcStep)
    /\ \A x \in Slots : WF_vars(ExecStep(x))
    /\ \A c \in Callers : WF_vars(CallStep(c))

Spec == Init /\ [][Next]_vars /\ Fairness

-----------------------------------------------------------------------------
(* activeJobs and the cron engine agree, on the way through RemoveJob's    *)
(* three locks (service.go:172-184) and AddJob's two steps (150-159): a    *)
(* managed schedule has a live entry or is being removed; and while calls  *)
(* do not overlap and add nothing twice, every entry is managed, so that   *)
(* RemoveJob can reach it.                                                 *)
EntriesMatchJobs ==
    /\ \A s \in Schedules : activeJobs[s] # 0 =>
           Live(activeJobs[s]) \/ \E c \in Callers : thr[c].pc = "delete" /\ thr[c].s = s
    /\ serial /\ svc.pc # "stopped" => \A n \in entries :
           activeJobs[n.s] = n.id \/ \E c \in Callers : thr[c].pc = "set" /\ thr[c].e = n.id

(* A schedule is dispatched at most once per occurrence although both the  *)
(* cron engine and the poll loop start it (service.go:289), unless an      *)
(* execution overlapped another one, the poll's list or a half-done        *)
(* AddJob, or a publish or the update of the next run failed half way.     *)
OneDispatchPerOccurrence ==
    \A s \in Schedules : runs[s] # 2

(* Stop returns after a Start that got as far as the poll loop, whatever   *)
(* jobs and callers do meanwhile (service.go:113-142).  After a failed     *)
(* Start nobody closes pollDone and Stop waits for ever.                   *)
StopEnds == (svc.pc = "wait" /\ poll.pc # "none") ~> svc.pc = "stopped"

=============================================================================
