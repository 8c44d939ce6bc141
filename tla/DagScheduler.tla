---------------------------- MODULE DagScheduler -----------------------------
(***************************************************************************)
(* DAGScheduler of internal/dag/scheduler.go: schedules in a cron engine,  *)
(* runs started by the engine and by RunNow, and the cancel functions that *)
(* Stop calls.  The call of Execute is the contract of DagRun: it answers, *)
(* with an error only when its context has ended.  LastRun, NextRun and    *)
(* the events of a run are reported and never read back.                   *)
(***************************************************************************)
EXTENDS Naturals, FiniteSets

CONSTANTS
  Ids,         \* schedules that may be added
  Slots,       \* executeSchedule calls at the same time
  MaxEdits     \* bound: calls of SetCondition, EnableSchedule, DisableSchedule

VARIABLES
  added,       \* AddSchedule of each id: "no", "cron", "yes", and "removed"
  schedule,    \* enabled flag, whether a condition is set, EntryID
  entries,     \* EntryIDs the cron engine holds, by schedule
  nextEntry,   \* last EntryID given out
  engine,      \* "new", "on", "off"
  stop,        \* Stop: "no", "wait" for the engine's jobs, "done"
  activeRuns,  \* the run whose cancel function is stored, per schedule
  runs,        \* the executeSchedule calls
  crash,       \* EntryID whose look-up killed the process, 0 for none
  edits

setup == <<added, schedule, entries, nextEntry>>
vars == <<setup, engine, stop, activeRuns, runs, crash, edits>>

None == "none"
Rest == [pc |-> "idle", of |-> None, cron |-> FALSE, done |-> FALSE, excused |-> FALSE]

Init ==
  /\ added = [i \in Ids |-> "no"]
  /\ schedule = [i \in Ids |-> [enabled |-> TRUE, cond |-> FALSE, entry |-> 0]]
  /\ entries = [i \in Ids |-> 0] /\ nextEntry = 0
  /\ engine = "new" /\ stop = "no"
  /\ activeRuns = [i \in Ids |-> None]
  /\ runs = [x \in Slots |-> Rest]
  /\ crash = 0 /\ edits = 0
-----------------------------------------------------------------------------
(* Schedules *)

Alive == crash = 0

\* AddSchedule: the graph is valid and the expression parses; the job is in the
\* engine before the schedule knows its EntryID.  Ids are fresh: any will do.
AddFunc(i) ==
  /\ added[i] = "no" /\ i = CHOOSE j \in Ids : added[j] = "no"
  /\ added' = [added EXCEPT ![i] = "cron"]
  /\ nextEntry' = nextEntry + 1
  /\ entries' = [entries EXCEPT ![i] = nextEntry + 1]
  /\ UNCHANGED <<schedule, engine, stop, activeRuns, runs, crash, edits>>

AddSchedule(i) ==
  /\ added[i] = "cron"
  /\ added' = [added EXCEPT ![i] = "yes"]
  /\ schedule' = [schedule EXCEPT ![i].entry = entries[i]]
  /\ UNCHANGED <<entries, nextEntry, engine, stop, activeRuns, runs, crash, edits>>

RemoveSchedule(i) ==
  /\ added[i] = "yes"
  /\ added' = [added EXCEPT ![i] = "removed"]
  /\ entries' = [entries EXCEPT ![i] = 0]
  /\ UNCHANGED <<schedule, nextEntry, engine, stop, activeRuns, runs, crash, edits>>

\* SetCondition, EnableSchedule, DisableSchedule.
Edit(i) ==
  /\ added[i] = "yes"
  /\ edits < MaxEdits /\ edits' = edits + 1
  /\ \/ schedule' = [schedule EXCEPT ![i].cond = TRUE]
     \/ \E b \in BOOLEAN : schedule' = [schedule EXCEPT ![i].enabled = b]
  /\ UNCHANGED <<added, entries, nextEntry, engine, stop, activeRuns, runs, crash>>
-----------------------------------------------------------------------------
(* executeSchedule *)

Begins(i, cron) ==
  /\ \E x \in Slots : runs[x] = Rest
  /\ runs' = [runs EXCEPT ![CHOOSE x \in Slots : runs[x] = Rest] =
                [Rest EXCEPT !.pc = "check", !.of = i, !.cron = cron]]
  /\ UNCHANGED <<setup, engine, stop, activeRuns, crash, edits>>

\* The engine (external) starts a goroutine per firing, overlaps included.
CronFires(i) == engine = "on" /\ entries[i] # 0 /\ Begins(i, TRUE)

RunNow(i) == added[i] = "yes" /\ Begins(i, FALSE)

Move(x, pc) == runs' = [runs EXCEPT ![x].pc = pc]

\* MUTANT: the index is one too high.
Indexes_Next(x) ==
  schedule[runs[x].of].entry + 1 < Cardinality({i \in Ids : entries[i] # 0})

\* Entries() is a slice of the live entries and EntryID, counted from one, its
\* index: out of range, it panics, and the engine does not recover.
Indexes(x) ==
  schedule[runs[x].of].entry < Cardinality({i \in Ids : entries[i] # 0})

LookUp(x, next) ==
  \/ Indexes(x) /\ Move(x, next) /\ UNCHANGED crash
  \/ ~Indexes(x) /\ crash' = schedule[runs[x].of].entry /\ UNCHANGED runs

Check(x) ==
  /\ runs[x].pc = "check"
  /\ \/ /\ ~schedule[runs[x].of].enabled
        /\ runs' = [runs EXCEPT ![x] = Rest] /\ UNCHANGED crash
     \/ schedule[runs[x].of].enabled /\ LookUp(x, "condition")
  /\ UNCHANGED <<setup, engine, stop, activeRuns, edits>>

\* The condition fails, is not met, or lets the run begin.
Condition(x) ==
  /\ runs[x].pc = "condition"
  /\ \/ schedule[runs[x].of].cond /\ runs' = [runs EXCEPT ![x] = Rest]
     \/ Move(x, "register")
  /\ UNCHANGED <<setup, engine, stop, activeRuns, crash, edits>>

\* Runs of the same schedule that have registered and not yet unregistered.
Beside(x) ==
  {y \in Slots \ {x} : runs[y].of = runs[x].of /\ runs[y].pc \in {"running", "last", "unregister"}}

Register(x) ==
  /\ runs[x].pc = "register"
  /\ activeRuns' = [activeRuns EXCEPT ![runs[x].of] = x]
  /\ runs' = [y \in Slots |->
       IF y = x THEN [runs[x] EXCEPT !.pc = "running", !.excused = Beside(x) # {} \/ stop = "done"]
       ELSE [runs[y] EXCEPT !.excused = @ \/ y \in Beside(x)]]
  /\ UNCHANGED <<setup, engine, stop, crash, edits>>

TimesOut(x) ==
  /\ runs[x].pc = "running" /\ ~runs[x].done
  /\ runs' = [runs EXCEPT ![x].done = TRUE]
  /\ UNCHANGED <<setup, engine, stop, activeRuns, crash, edits>>

\* Execute answers "ctx", or the context has ended: failed or timed out, and
\* LastRun is left alone.
ExecuteAnswers(x) ==
  /\ runs[x].pc = "running"
  /\ \/ runs[x].done /\ Move(x, "unregister")
     \/ ~runs[x].done /\ Move(x, "last")
  /\ UNCHANGED <<setup, engine, stop, activeRuns, crash, edits>>

SetLastRun(x) ==
  /\ runs[x].pc = "last"
  /\ LookUp(x, "unregister")
  /\ UNCHANGED <<setup, engine, stop, activeRuns, edits>>

\* The deferred delete, by schedule and not by run.
Unregister(x) ==
  /\ runs[x].pc = "unregister"
  /\ activeRuns' = [activeRuns EXCEPT ![runs[x].of] = None]
  /\ runs' = [runs EXCEPT ![x] = Rest]
  /\ UNCHANGED <<setup, engine, stop, crash, edits>>

RunStep(x) ==
  \/ Check(x) \/ Condition(x) \/ Register(x) \/ ExecuteAnswers(x)
  \/ SetLastRun(x) \/ Unregister(x)
-----------------------------------------------------------------------------
(* Start and Stop *)

Start ==
  /\ engine = "new" /\ engine' = "on"
  /\ UNCHANGED <<setup, stop, activeRuns, runs, crash, edits>>

Stop ==
  /\ engine = "on" /\ engine' = "off"
  /\ stop' = "wait"
  /\ UNCHANGED <<setup, activeRuns, runs, crash, edits>>

\* The context of cron.Stop is done when the jobs of the engine have returned.
JobsOver == \A x \in Slots : ~runs[x].cron

\* MUTANT: the map is emptied, and nothing cancelled.
Cancelled_Not(x) == FALSE

Cancelled(x) == activeRuns[runs[x].of] = x

StopSweeps ==
  /\ stop = "wait" /\ JobsOver
  /\ stop' = "done"
  /\ runs' = [x \in Slots |->
       IF runs[x] = Rest THEN Rest ELSE [runs[x] EXCEPT !.done = @ \/ Cancelled(x)]]
  /\ activeRuns' = [i \in Ids |-> None]
  /\ UNCHANGED <<setup, engine, crash, edits>>
-----------------------------------------------------------------------------
Next ==
  /\ Alive
  /\ \/ \E i \in Ids : AddFunc(i) \/ AddSchedule(i) \/ RemoveSchedule(i) \/ Edit(i)
     \/ \E i \in Ids : CronFires(i) \/ RunNow(i)
     \/ \E x \in Slots : RunStep(x) \/ TimesOut(x)
     \/ Start \/ Stop \/ StopSweeps

-----------------------------------------------------------------------------
(* Stop cancels every run that is under way when it returns                *)
(* (scheduler.go:87-92), unless the run shared its schedule with another   *)
(* run - the map has one cancel function per schedule (281, 286) - or      *)
(* registered itself only after Stop had looked.                           *)
StopCancelsRuns ==
  \A x \in Slots : (stop = "done" /\ runs[x].pc = "running") => runs[x].done \/ runs[x].excused

(* As long as nothing was removed, the look-up by EntryID (scheduler.go:241*)
(* and 341) is out of range for the newest entry only.                     *)
OnlyNewestPanics ==
  (crash # 0 /\ \A i \in Ids : added[i] # "removed") => crash = nextEntry
=============================================================================
