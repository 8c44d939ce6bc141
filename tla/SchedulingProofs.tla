--------------------------- MODULE SchedulingProofs --------------------------
(***************************************************************************)
(* Proofs about the two schedulers, DagScheduler (D) and SchedulerService, *)
(* for all sets of schedules, callers and executions and all bounds.       *)
(***************************************************************************)
EXTENDS MCScheduling, FiniteSetTheorems, TLAPS

-----------------------------------------------------------------------------
(* The DAG scheduler *)

DagRun ==
  [pc : {"idle", "check", "condition", "register", "running", "last", "unregister"},
   of : DagIds \cup {D!None}, cron : BOOLEAN, done : BOOLEAN, excused : BOOLEAN]

DagType ==
  /\ added \in [DagIds -> {"no", "cron", "yes", "removed"}]
  /\ schedule \in [DagIds -> [enabled : BOOLEAN, cond : BOOLEAN, entry : Nat]]
  /\ dagEntries \in [DagIds -> Nat] /\ nextEntry \in Nat /\ crash \in Nat
  /\ engine \in {"new", "on", "off"} /\ stop \in {"no", "wait", "done"}
  /\ activeRuns \in [DagIds -> DagSlots \cup {D!None}]
  /\ dagRuns \in [DagSlots -> DagRun]
  /\ \A x \in DagSlots : dagRuns[x].pc # "idle" => dagRuns[x].of \in DagIds

\* Run x has stored its cancel function, and its deferred delete is to come.
Registered(x) == dagRuns[x].pc \in {"running", "last", "unregister"}

\* A run that is registered with another one of its schedule is excused; one
\* that is not excused is the one whose cancel function is stored.
Cancellable ==
  /\ stop # "no" => engine = "off"
  /\ \A x, y \in DagSlots :
       (x # y /\ Registered(x) /\ Registered(y) /\ dagRuns[x].of = dagRuns[y].of)
         => dagRuns[x].excused
  /\ \A x \in DagSlots :
       (stop # "done" /\ Registered(x) /\ ~dagRuns[x].excused) => activeRuns[dagRuns[x].of] = x
  /\ StopCancelsRuns

\* The schedules that the engine has.
InEngine == {i \in DagIds : dagEntries[i] # 0}
NoneRemoved == \A i \in DagIds : added[i] # "removed"

\* The engine has given out as many EntryIDs as it has entries, until one is
\* removed.
Numbered ==
  /\ \A i \in DagIds : /\ added[i] = "no" => dagEntries[i] = 0
                       /\ dagEntries[i] <= nextEntry /\ schedule[i].entry <= nextEntry
  /\ NoneRemoved => IsFiniteSet(InEngine) /\ Cardinality(InEngine) = nextEntry
  /\ OnlyNewestPanics

\* The types of the DAG scheduler.
LEMMA DagTypeKept ==
  ASSUME DagType, D!Next
  PROVE  DagType'
<1> USE DEF DagType, DagRun, D!setup
<1>1. ASSUME NEW i \in DagIds, D!AddFunc(i) \/ D!AddSchedule(i) \/ D!RemoveSchedule(i) \/ D!Edit(i)
      PROVE  DagType'
  <2>1. CASE D!AddFunc(i)
    BY <2>1 DEF D!AddFunc
  <2>2. CASE D!AddSchedule(i)
    BY <2>2 DEF D!AddSchedule
  <2>3. CASE D!RemoveSchedule(i)
    BY <2>3 DEF D!RemoveSchedule
  <2>4. CASE D!Edit(i)
    <3>1. schedule' \in [DagIds -> [enabled : BOOLEAN, cond : BOOLEAN, entry : Nat]]
      <4>1. CASE schedule' = [schedule EXCEPT ![i].cond = TRUE]
        BY <4>1, ZenonT(40)
      <4>2. ASSUME NEW b \in BOOLEAN, schedule' = [schedule EXCEPT ![i].enabled = b]
            PROVE  schedule' \in [DagIds -> [enabled : BOOLEAN, cond : BOOLEAN, entry : Nat]]
        BY <4>2
      <4> QED BY <2>4, <4>1, <4>2 DEF D!Edit
    <3>2. UNCHANGED <<added, dagEntries, nextEntry, engine, stop, activeRuns, dagRuns, crash>>
      BY <2>4 DEF D!Edit
    <3> QED BY <3>1, <3>2
  <2> QED BY <1>1, <2>1, <2>2, <2>3, <2>4
<1>2. ASSUME NEW i \in DagIds, D!CronFires(i) \/ D!RunNow(i)
      PROVE  DagType'
  <2>1. PICK b \in BOOLEAN : D!Begins(i, b)
    BY <1>2 DEF D!CronFires, D!RunNow
  <2> DEFINE r == [D!Rest EXCEPT !.pc = "check", !.of = i, !.cron = b]
  <2>2. r \in DagRun /\ r.of \in DagIds
    BY DEF D!Rest
  <2>3. PICK z \in DagSlots : dagRuns' = [dagRuns EXCEPT ![z] = r]
    BY <2>1, Zenon DEF D!Begins
  <2>4. UNCHANGED <<added, schedule, dagEntries, nextEntry, engine, stop, activeRuns, crash>>
    BY <2>1 DEF D!Begins
  <2> HIDE DEF r
  <2> QED BY <2>2, <2>3, <2>4
<1>3. ASSUME NEW x \in DagSlots, D!Check(x) \/ D!Condition(x) \/ D!ExecuteAnswers(x)
                                 \/ D!SetLastRun(x) \/ D!TimesOut(x) \/ D!Unregister(x)
      PROVE  DagType'
  <2>1. D!Rest \in DagRun /\ D!Rest.pc = "idle"
    BY DEF D!Rest, D!None
  <2>2. CASE D!Check(x)
    <3>1. CASE dagRuns' = [dagRuns EXCEPT ![x] = D!Rest] /\ UNCHANGED crash
      BY <2>1, <2>2, <3>1 DEF D!Check
    <3>2. CASE D!LookUp(x, "condition")
      <4>1. dagRuns[x].of \in DagIds
        BY <2>2 DEF D!Check
      <4>2. UNCHANGED <<added, schedule, dagEntries, nextEntry, engine, stop, activeRuns>>
        BY <2>2 DEF D!Check
      <4>3. CASE D!Move(x, "condition") /\ UNCHANGED crash
        <5>1. dagRuns' = [dagRuns EXCEPT ![x].pc = "condition"] /\ UNCHANGED crash
          BY <4>3 DEF D!Move
        <5>2. dagRuns' \in [DagSlots -> DagRun]
          BY <5>1
        <5>3. \A y \in DagSlots : dagRuns'[y].of = dagRuns[y].of /\ (y # x => dagRuns'[y] = dagRuns[y])
          BY <5>1
        <5> QED BY <4>1, <4>2, <5>1, <5>2, <5>3
      <4>4. CASE crash' = schedule[dagRuns[x].of].entry /\ UNCHANGED dagRuns
        BY <4>1, <4>2, <4>4
      <4> QED BY <3>2, <4>3, <4>4 DEF D!LookUp
    <3> QED BY <2>2, <3>1, <3>2 DEF D!Check
  <2>3. CASE D!Condition(x)
    <3>1. CASE dagRuns' = [dagRuns EXCEPT ![x] = D!Rest]
      BY <2>1, <2>3, <3>1 DEF D!Condition
    <3>2. CASE D!Move(x, "register")
      BY <2>3, <3>2 DEF D!Condition, D!Move
    <3> QED BY <2>3, <3>1, <3>2 DEF D!Condition
  <2>4. CASE D!ExecuteAnswers(x)
    BY <2>4, SMTT(20) DEF D!ExecuteAnswers, D!Move
  <2>5. CASE D!SetLastRun(x)
    BY <2>5, SMTT(20) DEF D!SetLastRun, D!LookUp, D!Move
  <2>6. CASE D!TimesOut(x)
    BY <2>6, ZenonT(40) DEF D!TimesOut
  <2>7. CASE D!Unregister(x)
    BY <2>1, <2>7 DEF D!Unregister
  <2> QED BY <1>3, <2>2, <2>3, <2>4, <2>5, <2>6, <2>7
<1>4. ASSUME NEW x \in DagSlots, D!Register(x)
      PROVE  DagType'
  <2> DEFINE r(y) == IF y = x
                     THEN [dagRuns[x] EXCEPT !.pc = "running", !.excused = D!Beside(x) # {} \/ stop = "done"]
                     ELSE [dagRuns[y] EXCEPT !.excused = @ \/ y \in D!Beside(x)]
  <2>1. \A y \in DagSlots : /\ r(y) \in DagRun /\ r(y).of = dagRuns[y].of
                            /\ r(y).pc = IF y = x THEN "running" ELSE dagRuns[y].pc
    BY ZenonT(40)
  <2>2. dagRuns' = [y \in DagSlots |-> r(y)] /\ dagRuns[x].pc = "register"
    BY <1>4 DEF D!Register
  <2>3. /\ UNCHANGED <<added, schedule, dagEntries, nextEntry, engine, stop, crash>>
        /\ activeRuns' = [activeRuns EXCEPT ![dagRuns[x].of] = x]
    BY <1>4 DEF D!Register
  <2> HIDE DEF r
  <2> QED BY <2>1, <2>2, <2>3
<1>5. CASE D!Start \/ D!Stop
  BY <1>5 DEF D!Start, D!Stop
<1>6. CASE D!StopSweeps
  <2> DEFINE r(y) == IF dagRuns[y] = D!Rest THEN D!Rest
                     ELSE [dagRuns[y] EXCEPT !.done = @ \/ D!Cancelled(y)]
  <2>1. \A y \in DagSlots : r(y) \in DagRun /\ r(y).of = dagRuns[y].of /\ r(y).pc = dagRuns[y].pc
    BY ZenonT(40) DEF D!Rest, D!Cancelled
  <2>2. dagRuns' = [y \in DagSlots |-> r(y)]
    BY <1>6 DEF D!StopSweeps
  <2>3. /\ UNCHANGED <<added, schedule, dagEntries, nextEntry, engine, crash>> /\ stop' = "done"
        /\ activeRuns' = [i \in DagIds |-> D!None]
    BY <1>6 DEF D!StopSweeps
  <2> HIDE DEF r
  <2> QED BY <2>1, <2>2, <2>3
<1> QED BY <1>1, <1>2, <1>3, <1>4, <1>5, <1>6 DEF D!Next, D!RunStep

\* What a step does to the runs, seen from one of them: a new run is not yet
\* registered, and a registered run goes on or is over.
LEMMA RunGoes ==
  ASSUME DagType, NEW x \in DagSlots, D!Next, ~\E z \in DagSlots : D!Register(z), ~D!StopSweeps
  PROVE  /\ Registered(x)' => /\ Registered(x) /\ dagRuns'[x].of = dagRuns[x].of
                              /\ dagRuns'[x].excused = dagRuns[x].excused
                              /\ dagRuns[x].done => dagRuns'[x].done
                              /\ dagRuns'[x].pc = "running" => dagRuns[x].pc = "running"
         /\ stop # "done" => stop' # "done"
         /\ UNCHANGED activeRuns \/ \E z \in DagSlots : D!Unregister(z)
<1> USE DEF DagType, DagRun, D!setup, Registered
<1>0. D!Rest.pc = "idle"
  BY DEF D!Rest
<1>1. ASSUME NEW i \in DagIds, D!AddFunc(i) \/ D!AddSchedule(i) \/ D!RemoveSchedule(i) \/ D!Edit(i)
      PROVE  UNCHANGED <<dagRuns, stop, activeRuns>>
  BY <1>1 DEF D!AddFunc, D!AddSchedule, D!RemoveSchedule, D!Edit
<1>2. ASSUME NEW i \in DagIds, D!CronFires(i) \/ D!RunNow(i)
      PROVE  UNCHANGED <<stop, activeRuns>> /\ (Registered(x)' => dagRuns'[x] = dagRuns[x])
  <2>1. PICK b \in BOOLEAN : D!Begins(i, b)
    BY <1>2 DEF D!CronFires, D!RunNow
  <2> DEFINE r == [D!Rest EXCEPT !.pc = "check", !.of = i, !.cron = b]
  <2>2. r.pc = "check"
    BY DEF D!Rest
  <2>3. PICK z \in DagSlots : dagRuns' = [dagRuns EXCEPT ![z] = r]
    BY <2>1, Zenon DEF D!Begins
  <2>4. UNCHANGED <<stop, activeRuns>>
    BY <2>1 DEF D!Begins
  <2> HIDE DEF r
  <2> QED BY <2>2, <2>3, <2>4
<1>3. ASSUME NEW z \in DagSlots, D!Check(z) \/ D!Condition(z) \/ D!Unregister(z)
      PROVE  /\ Registered(x)' => dagRuns'[x] = dagRuns[x]
             /\ UNCHANGED stop /\ (UNCHANGED activeRuns \/ D!Unregister(z))
  BY <1>0, <1>3 DEF D!Check, D!Condition, D!Unregister, D!LookUp, D!Move
<1>4. ASSUME NEW z \in DagSlots, D!ExecuteAnswers(z) \/ D!SetLastRun(z) \/ D!TimesOut(z)
      PROVE  /\ Registered(x)' => /\ Registered(x) /\ dagRuns'[x].of = dagRuns[x].of
                                  /\ dagRuns'[x].excused = dagRuns[x].excused
                                  /\ dagRuns[x].done => dagRuns'[x].done
                                  /\ dagRuns'[x].pc = "running" => dagRuns[x].pc = "running"
             /\ UNCHANGED <<stop, activeRuns>>
  BY <1>4 DEF D!ExecuteAnswers, D!SetLastRun, D!TimesOut, D!LookUp, D!Move
<1>5. CASE D!Start \/ D!Stop
  BY <1>5 DEF D!Start, D!Stop
<1> QED BY <1>1, <1>2, <1>3, <1>4, <1>5 DEF D!Next, D!RunStep

\* The cancel functions.
LEMMA CancellableKept ==
  ASSUME DagType, Cancellable, D!Next
  PROVE  Cancellable'
<1>0. DagType'
  BY DagTypeKept
<1>1. (stop # "no" => engine = "off")'
  BY DEF Cancellable, DagType, D!Next, D!RunStep, D!AddFunc, D!AddSchedule, D!RemoveSchedule, D!Edit,
         D!CronFires, D!RunNow, D!Begins, D!Check, D!Condition, D!Register, D!ExecuteAnswers,
         D!SetLastRun, D!Unregister, D!TimesOut, D!Start, D!Stop, D!StopSweeps
<1>2. ASSUME NEW z \in DagSlots, D!Register(z) PROVE Cancellable'
  <2>1. /\ activeRuns' = [activeRuns EXCEPT ![dagRuns[z].of] = z] /\ UNCHANGED stop
        /\ dagRuns[z].of \in DagIds /\ activeRuns \in [DagIds -> DagSlots \cup {D!None}]
    BY <1>2 DEF D!Register, DagType
  <2>2. \A y \in DagSlots :
          /\ dagRuns'[y].of = dagRuns[y].of
          /\ dagRuns'[y].pc = IF y = z THEN "running" ELSE dagRuns[y].pc
          /\ dagRuns'[y].excused <=> IF y = z THEN D!Beside(z) # {} \/ stop = "done"
                                     ELSE dagRuns[y].excused \/ y \in D!Beside(z)
          /\ dagRuns'[y].done = dagRuns[y].done
    BY <1>2, ZenonT(40) DEF D!Register, DagType, DagRun
  <2>3. \A y \in DagSlots \ {z} : y \in D!Beside(z) <=> Registered(y) /\ dagRuns[y].of = dagRuns[z].of
    BY DEF D!Beside, Registered
  <2>4. \A y \in DagSlots : Registered(y)' <=> y = z \/ Registered(y)
    BY <2>2 DEF Registered
  <2>5. \A x, y \in DagSlots :
          (x # y /\ Registered(x)' /\ Registered(y)' /\ dagRuns'[x].of = dagRuns'[y].of)
            => dagRuns'[x].excused
    BY <2>2, <2>3, <2>4 DEF Cancellable
  <2>6. \A x \in DagSlots :
          (stop' # "done" /\ Registered(x)' /\ ~dagRuns'[x].excused) => activeRuns'[dagRuns'[x].of] = x
    BY <2>1, <2>2, <2>3, <2>4 DEF Cancellable
  <2>7. StopCancelsRuns'
    BY <2>1, <2>2 DEF Cancellable, StopCancelsRuns, D!StopCancelsRuns
  <2> QED BY <1>1, <2>5, <2>6, <2>7 DEF Cancellable
<1>3. CASE D!StopSweeps
  <2>1. /\ stop' = "done" /\ stop = "wait"
        /\ \A x \in DagSlots : /\ dagRuns'[x].of = dagRuns[x].of /\ dagRuns'[x].pc = dagRuns[x].pc
                               /\ dagRuns'[x].excused = dagRuns[x].excused
                               /\ (Registered(x) /\ D!Cancelled(x)) => dagRuns'[x].done
    <3>1. /\ stop' = "done" /\ stop = "wait"
          /\ \A x \in DagSlots : dagRuns'[x] = IF dagRuns[x] = D!Rest THEN D!Rest
                                     ELSE [dagRuns[x] EXCEPT !.done = @ \/ D!Cancelled(x)]
      BY <1>3 DEF D!StopSweeps
    <3>2. \A x \in DagSlots : /\ dagRuns[x] \in DagRun
                              /\ dagRuns[x] = D!Rest => ~Registered(x)
      BY DEF DagType, D!Rest, Registered
    <3> QED BY <3>1, <3>2 DEF DagRun
  <2>2. \A x \in DagSlots : Registered(x)' <=> Registered(x)
    BY <2>1 DEF Registered
  <2>3. StopCancelsRuns'
    BY <2>1 DEF Cancellable, Registered, D!Cancelled, StopCancelsRuns, D!StopCancelsRuns
  <2> QED BY <1>1, <2>1, <2>2, <2>3 DEF Cancellable
<1>4. CASE ~(\E z \in DagSlots : D!Register(z)) /\ ~D!StopSweeps
  <2>1. \A x \in DagSlots :
          /\ Registered(x)' => /\ Registered(x) /\ dagRuns'[x].of = dagRuns[x].of
                               /\ dagRuns'[x].excused = dagRuns[x].excused
                               /\ dagRuns[x].done => dagRuns'[x].done
                               /\ dagRuns'[x].pc = "running" => dagRuns[x].pc = "running"
          /\ stop # "done" => stop' # "done"
    BY <1>4, RunGoes
  <2>2. \A x, y \in DagSlots :
          (x # y /\ Registered(x)' /\ Registered(y)' /\ dagRuns'[x].of = dagRuns'[y].of)
            => dagRuns'[x].excused
    BY <2>1 DEF Cancellable
  <2>3. StopCancelsRuns'
    BY <2>1 DEF Cancellable, StopCancelsRuns, D!StopCancelsRuns, Registered
  <2>4. ASSUME NEW x \in DagSlots, stop' # "done", Registered(x)', ~dagRuns'[x].excused
        PROVE  activeRuns'[dagRuns'[x].of] = x
    <3>1. stop # "done"
      BY <2>4 DEF D!Next, D!RunStep, D!AddFunc, D!AddSchedule, D!RemoveSchedule, D!Edit, Cancellable,
         D!CronFires, D!RunNow, D!Begins, D!Check, D!Condition, D!Register, D!ExecuteAnswers,
         D!SetLastRun, D!Unregister, D!TimesOut, D!Start, D!Stop, D!StopSweeps
    <3>2. activeRuns[dagRuns[x].of] = x /\ Registered(x) /\ ~dagRuns[x].excused
      BY <2>1, <2>4, <3>1 DEF Cancellable
    <3>3. CASE UNCHANGED activeRuns
      BY <2>1, <2>4, <3>2, <3>3
    <3>4. ASSUME NEW z \in DagSlots, D!Unregister(z) PROVE activeRuns'[dagRuns'[x].of] = x
      <4>1. /\ Registered(z) /\ ~Registered(z)' /\ dagRuns[x].of \in DagIds /\ dagRuns[z].of \in DagIds
            /\ activeRuns' = [activeRuns EXCEPT ![dagRuns[z].of] = D!None]
        BY <3>2, <3>4 DEF D!Unregister, Registered, DagType, DagRun, D!Rest
      <4>2. dagRuns[z].of # dagRuns[x].of
        BY <2>4, <3>2, <4>1 DEF Cancellable
      <4> QED BY <2>1, <2>4, <3>2, <4>1, <4>2 DEF DagType
    <3> QED BY <1>4, <2>4, <3>3, <3>4, RunGoes
  <2> QED BY <1>1, <2>2, <2>3, <2>4 DEF Cancellable
<1> QED BY <1>2, <1>3, <1>4

\* The EntryIDs, and the look-up by them.
LEMMA NumberedKept ==
  ASSUME DagType, Numbered, D!Next
  PROVE  Numbered'
<1> USE DEF D!setup
<1>0. /\ added \in [DagIds -> {"no", "cron", "yes", "removed"}] /\ nextEntry \in Nat
      /\ schedule \in [DagIds -> [enabled : BOOLEAN, cond : BOOLEAN, entry : Nat]]
      /\ dagEntries \in [DagIds -> Nat] /\ crash = 0
  BY DEF DagType, D!Next, D!Alive
<1>1. ASSUME NEW i \in DagIds, D!AddFunc(i) PROVE Numbered'
  <2>1. /\ added[i] = "no" /\ added' = [added EXCEPT ![i] = "cron"] /\ nextEntry' = nextEntry + 1
        /\ dagEntries' = [dagEntries EXCEPT ![i] = nextEntry + 1] /\ UNCHANGED <<schedule, crash>>
    BY <1>1 DEF D!AddFunc
  <2>2. InEngine' = InEngine \cup {i} /\ i \notin InEngine
    BY <1>0, <2>1 DEF InEngine, Numbered
  <2>3. NoneRemoved' => NoneRemoved
    BY <1>0, <2>1 DEF NoneRemoved
  <2>4. NoneRemoved' => IsFiniteSet(InEngine') /\ Cardinality(InEngine') = nextEntry'
    BY <1>0, <2>1, <2>2, <2>3, FS_AddElement DEF Numbered
  <2>5. OnlyNewestPanics'
    BY <1>0, <2>1 DEF OnlyNewestPanics, D!OnlyNewestPanics
  <2>6. ASSUME NEW j \in DagIds
        PROVE  /\ added'[j] = "no" => dagEntries'[j] = 0
               /\ dagEntries'[j] <= nextEntry' /\ schedule'[j].entry <= nextEntry'
    BY <1>0, <2>1 DEF Numbered
  <2> QED BY <2>4, <2>5, <2>6 DEF Numbered
<1>2. ASSUME NEW i \in DagIds, D!AddSchedule(i) PROVE Numbered'
  <2>1. /\ added' = [added EXCEPT ![i] = "yes"] /\ UNCHANGED <<dagEntries, nextEntry, crash>>
        /\ schedule' = [schedule EXCEPT ![i].entry = dagEntries[i]] /\ added[i] = "cron"
    BY <1>2 DEF D!AddSchedule
  <2>2. InEngine' = InEngine /\ (NoneRemoved' => NoneRemoved)
    BY <1>0, <2>1 DEF InEngine, NoneRemoved
  <2>3. ASSUME NEW j \in DagIds
        PROVE  /\ added'[j] = "no" => dagEntries'[j] = 0
               /\ dagEntries'[j] <= nextEntry' /\ schedule'[j].entry <= nextEntry'
    BY <1>0, <2>1 DEF Numbered
  <2>4. OnlyNewestPanics'
    BY <1>0, <2>1 DEF OnlyNewestPanics, D!OnlyNewestPanics
  <2> QED BY <2>1, <2>2, <2>3, <2>4 DEF Numbered
<1>3. ASSUME NEW i \in DagIds, D!RemoveSchedule(i) PROVE Numbered'
  <2>1. /\ added' = [added EXCEPT ![i] = "removed"] /\ UNCHANGED <<schedule, nextEntry, crash>>
        /\ dagEntries' = [dagEntries EXCEPT ![i] = 0]
    BY <1>3 DEF D!RemoveSchedule
  <2>2. ~NoneRemoved'
    BY <1>0, <2>1 DEF NoneRemoved
  <2>3. ASSUME NEW j \in DagIds
        PROVE  /\ added'[j] = "no" => dagEntries'[j] = 0
               /\ dagEntries'[j] <= nextEntry' /\ schedule'[j].entry <= nextEntry'
    BY <1>0, <2>1 DEF Numbered
  <2>4. OnlyNewestPanics'
    BY <1>0, <2>1 DEF OnlyNewestPanics, D!OnlyNewestPanics
  <2> QED BY <2>2, <2>3, <2>4 DEF Numbered
<1>4. ASSUME NEW i \in DagIds, D!Edit(i) PROVE Numbered'
  <2>1. UNCHANGED <<added, dagEntries, nextEntry, crash>>
    BY <1>4 DEF D!Edit
  <2>2. \A j \in DagIds : schedule'[j].entry = schedule[j].entry
    BY <1>0, <1>4 DEF D!Edit
  <2> QED BY <1>0, <2>1, <2>2
          DEF Numbered, InEngine, NoneRemoved, OnlyNewestPanics, D!OnlyNewestPanics
<1>5. ASSUME UNCHANGED D!setup,
             \/ UNCHANGED crash
             \/ \E x \in DagSlots : /\ crash' = schedule[dagRuns[x].of].entry /\ ~D!Indexes(x)
                                    /\ dagRuns[x].of \in DagIds
      PROVE  Numbered'
  <2>1. UNCHANGED <<added, schedule, dagEntries, nextEntry, InEngine>> /\ (NoneRemoved' => NoneRemoved)
    BY <1>5 DEF InEngine, NoneRemoved
  <2>2. OnlyNewestPanics'
    <3>1. CASE UNCHANGED crash
      BY <1>0, <3>1 DEF OnlyNewestPanics, D!OnlyNewestPanics
    <3>2. ASSUME NEW x \in DagSlots, crash' = schedule[dagRuns[x].of].entry, ~D!Indexes(x),
                 dagRuns[x].of \in DagIds
          PROVE  OnlyNewestPanics'
      <4>1. /\ NoneRemoved => ~(schedule[dagRuns[x].of].entry < nextEntry)
            /\ schedule[dagRuns[x].of].entry <= nextEntry /\ schedule[dagRuns[x].of].entry \in Nat
        <5>1. D!Indexes(x) <=> schedule[dagRuns[x].of].entry < Cardinality(InEngine)
          BY DEF D!Indexes, InEngine, D!Cardinality, Cardinality
        <5> QED BY <1>0, <3>2, <5>1 DEF Numbered
      <4>2. NoneRemoved => crash' = nextEntry'
        BY <1>0, <2>1, <3>2, <4>1, SMTT(20)
      <4> QED BY <2>1, <4>2 DEF OnlyNewestPanics, D!OnlyNewestPanics, NoneRemoved
    <3> QED BY <1>5, <3>1, <3>2
  <2> QED BY <2>1, <2>2 DEF Numbered
<1>6. ASSUME NEW i \in DagIds, D!CronFires(i) \/ D!RunNow(i)
      PROVE  UNCHANGED D!setup /\ UNCHANGED crash
  BY <1>6 DEF D!CronFires, D!RunNow, D!Begins
<1>7. ASSUME NEW x \in DagSlots, D!RunStep(x) \/ D!TimesOut(x)
      PROVE  /\ UNCHANGED D!setup
             /\ \/ UNCHANGED crash
                \/ /\ crash' = schedule[dagRuns[x].of].entry /\ ~D!Indexes(x)
                   /\ dagRuns[x].of \in DagIds
  BY <1>7 DEF D!RunStep, D!Check, D!Condition, D!Register, D!ExecuteAnswers, D!SetLastRun,
              D!Unregister, D!TimesOut, D!LookUp, DagType
<1>8. ASSUME D!Start \/ D!Stop \/ D!StopSweeps
      PROVE  UNCHANGED D!setup /\ UNCHANGED crash
  BY <1>8 DEF D!Start, D!Stop, D!StopSweeps
<1> QED BY <1>1, <1>2, <1>3, <1>4, <1>5, <1>6, <1>7, <1>8 DEF D!Next

\* The DAG scheduler's share of every step of either scheduler.
LEMMA DagInvariant == MCSpec => [](DagType /\ Cancellable /\ Numbered)
<1>1. MCInit => DagType /\ Cancellable /\ Numbered
  <2> SUFFICES ASSUME MCInit PROVE DagType /\ Cancellable /\ Numbered
    OBVIOUS
  <2> USE DEF MCInit, D!Init
  <2>1. \A x \in DagSlots : dagRuns[x] \in DagRun /\ dagRuns[x].pc = "idle"
    BY DEF D!Rest, DagRun
  <2>2. DagType
    BY <2>1 DEF DagType
  <2>3. Cancellable
    BY <2>1 DEF Cancellable, Registered, StopCancelsRuns, D!StopCancelsRuns
  <2>4. InEngine = {}
    BY DEF InEngine
  <2>5. Numbered
    BY <2>4, FS_EmptySet DEF Numbered, OnlyNewestPanics, D!OnlyNewestPanics
  <2> QED BY <2>2, <2>3, <2>5
<1>2. (DagType /\ Cancellable /\ Numbered) /\ [MCNext]_<<half, vars, dagVars>>
        => (DagType /\ Cancellable /\ Numbered)'
  <2> SUFFICES ASSUME DagType, Cancellable, Numbered, [MCNext]_<<half, vars, dagVars>>
               PROVE  (DagType /\ Cancellable /\ Numbered)'
    OBVIOUS
  <2>1. CASE D!Next
    BY <2>1, DagTypeKept, CancellableKept, NumberedKept
  <2>2. CASE UNCHANGED dagVars
    BY <2>2 DEF dagVars, DagType, Cancellable, Numbered, Registered, StopCancelsRuns,
                D!StopCancelsRuns, OnlyNewestPanics, D!OnlyNewestPanics, InEngine, NoneRemoved
  <2> QED BY <2>1, <2>2 DEF MCNext
<1> QED BY <1>1, <1>2, PTL DEF MCSpec

\* Stop of the DAG scheduler cancels every run that is under way when it returns,
\* unless the run shared its schedule with another one or registered after Stop
\* had looked (dag/scheduler.go:87-92, 281-286).
THEOREM StopsCancelRuns == MCSpec => []StopCancelsRuns
<1>1. Cancellable => StopCancelsRuns
  BY DEF Cancellable
<1> QED BY <1>1, DagInvariant, PTL

\* While no schedule was removed, the look-up by EntryID is out of range for the
\* newest entry only (dag/scheduler.go:241, 341).
THEOREM NewestPanicsOnly == MCSpec => []OnlyNewestPanics
<1>1. Numbered => OnlyNewestPanics
  BY DEF Numbered
<1> QED BY <1>1, DagInvariant, PTL

-----------------------------------------------------------------------------
(* The scheduler service *)

Entry == [id : Nat \ {0}, s : Schedules, off : BOOLEAN, due : BOOLEAN]
CallRec ==
  [pc : {"idle", "add", "set", "look", "remove", "delete", "next"}, s : Schedules \cup {None},
   off : BOOLEAN, e : Nat, todo : SUBSET Schedules]
ExecRec == [pc : {"idle", "publish", "store"}, s : Schedules \cup {None}, at : Nat]

TableType ==
  /\ rows \in [Schedules -> [enabled : BOOLEAN, five : BOOLEAN, next : Nat]]
  /\ clock \in [Schedules -> Nat] /\ runs \in [Schedules -> Nat]
  /\ serial \in BOOLEAN /\ calls \in Nat
EngineType ==
  /\ entries \in SUBSET Entry /\ cronOn \in BOOLEAN /\ nextId \in Nat
  /\ activeJobs \in [Schedules -> Nat]
ServiceType ==
  /\ svc \in [pc : {"new", "load", "started", "failed", "wait", "stopped"},
              todo : SUBSET Schedules, cancelled : BOOLEAN]
  /\ poll \in [pc : {"none", "idle", "scan", "done"}, todo : SUBSET Schedules]
CallType ==
  /\ thr \in [Callers -> CallRec]
  /\ \A c \in Callers : thr[c].pc \notin {"idle", "next"} => thr[c].s \in Schedules
ExecType ==
  /\ exec \in [Slots -> ExecRec]
  /\ \A x \in Slots : exec[x].pc # "idle" <=> exec[x].s \in Schedules
SchedType == TableType /\ EngineType /\ ServiceType /\ CallType /\ ExecType

\* Where the service, the engine and the poll loop are.
Phases ==
  /\ svc.pc = "new" => activeJobs = [s \in Schedules |-> 0] /\ entries = {}
  /\ svc.pc = "load" => \A s \in svc.todo : activeJobs[s] = 0
  /\ svc.pc \in {"new", "load", "failed"} => \A c \in Callers : thr[c].pc = "idle"
  /\ svc.pc \in {"new", "load", "failed"} => poll.pc = "none"
  /\ svc.pc = "stopped" => poll.pc = "done" /\ ~cronOn
  /\ poll.todo # {} => poll.pc = "scan"

\* Callers that have an entry's id in their hands.
HasId(c) == thr[c].pc \in {"set", "remove"}

\* An id is given out once, to one schedule.
Owned ==
  /\ \A s \in Schedules : activeJobs[s] <= nextId
  /\ \A n \in entries : n.id <= nextId
  /\ \A c \in Callers : HasId(c) => thr[c].e \in 1 .. nextId
  /\ \A m, n \in entries : m.id = n.id => m = n
  /\ \A n \in entries, s \in Schedules : activeJobs[s] = n.id => n.s = s
  /\ \A s, t \in Schedules : (activeJobs[s] = activeJobs[t] /\ activeJobs[s] # 0) => s = t
  /\ \A c \in Callers : HasId(c) =>
       /\ \A n \in entries : n.id = thr[c].e => n.s = thr[c].s
       /\ \A s \in Schedules : activeJobs[s] = thr[c].e => s = thr[c].s
  /\ \A b, c \in Callers : (HasId(b) /\ HasId(c) /\ thr[b].e = thr[c].e) => thr[b].s = thr[c].s

\* An entry that AddJob has made and not yet noted is nobody else's.
Pending ==
  \A c \in Callers : thr[c].pc = "set" =>
    /\ Live(thr[c].e)
    /\ \A s \in Schedules : activeJobs[s] # thr[c].e
    /\ \A b \in Callers \ {c} : HasId(b) => thr[b].e # thr[c].e

\* While calls do not overlap, what the call under way knows of activeJobs.
Alone ==
  serial =>
    /\ \A b, c \in Callers : thr[b].pc # "idle" /\ thr[c].pc # "idle" => b = c
    /\ svc.pc # "stopped" => \A c \in Callers :
         /\ thr[c].pc \in {"add", "set"} => activeJobs[thr[c].s] = 0 /\ thr[c].s \notin thr[c].todo
         /\ thr[c].pc \in {"add", "set", "next"} => \A s \in thr[c].todo : activeJobs[s] = 0
         /\ thr[c].pc \in {"look", "remove", "delete"} => thr[c].todo \subseteq {thr[c].s}
         /\ thr[c].pc \in {"remove", "delete"} => activeJobs[thr[c].s] = thr[c].e
         /\ thr[c].pc = "delete" => ~Live(thr[c].e)

Matched == Phases /\ Owned /\ Pending /\ Alone /\ EntriesMatchJobs

\* The dispatches of a schedule that is not excused: it runs at most once at a
\* time, not while the poll loop has it on its list, and after a dispatch nothing
\* makes it due before the next occurrence.
OnceFor(s) ==
  /\ serial /\ runs[s] \in {0, 1}
  /\ \A x, y \in Running(s) : x = y
  /\ s \in poll.todo => Running(s) = {} /\ runs[s] = 0
  /\ \A x \in Running(s) : exec[x].pc = "publish" =>
       /\ exec[x].at <= clock[s]
       /\ exec[x].at = clock[s] => runs[s] = 0 /\ \A n \in entries : n.s = s => ~n.due
  /\ runs[s] = 1 =>
       /\ \A n \in entries : n.s = s => ~n.due
       /\ \A x \in Running(s) : exec[x].pc = "store" /\ exec[x].at > clock[s]
       /\ Running(s) = {} => rows[s].next > clock[s]
Once == \A s \in Schedules : runs[s] # Excused => OnceFor(s)

\* The record r takes the place of caller c's.
Becomes(c, r) == r \in CallRec /\ thr' = [thr EXCEPT ![c] = r]

\* What Over leaves of a call.
LEMMA OverIs ==
  ASSUME CallType, NEW c \in Callers, Over(c)
  PROVE  \E r \in CallRec : Becomes(c, r) /\ r.pc = "next" /\ r.todo = thr[c].todo
<1> DEFINE r == [thr[c] EXCEPT !.pc = "next", !.s = None, !.e = 0, !.off = @ /\ thr[c].todo # {}]
<1>1. r \in CallRec /\ r.pc = "next" /\ r.todo = thr[c].todo
  BY DEF CallType, CallRec
<1>2. thr' = [thr EXCEPT ![c] = r]
  BY DEF Over, CallType
<1> HIDE DEF r
<1> QED BY <1>1, <1>2 DEF Becomes

\* The steps of a call, by what they do to the call, the entries and activeJobs.
Finds(c, r) ==
  /\ UNCHANGED <<entries, nextId, activeJobs>>
  /\ \/ thr[c].pc = "next" /\ r.pc = "idle"
     \/ thr[c].pc = "next" /\ r.pc = "add" /\ r.s \in thr[c].todo /\ r.todo = thr[c].todo \ {r.s}
     \/ thr[c].pc = "add" /\ r.pc = "next" /\ r.todo = thr[c].todo
     \/ thr[c].pc = "look" /\ r.pc = "next" /\ r.todo = thr[c].todo /\ activeJobs[thr[c].s] = 0
     \/ /\ thr[c].pc = "look" /\ r.pc = "remove" /\ r.todo = thr[c].todo /\ r.s = thr[c].s
        /\ r.e = activeJobs[thr[c].s] /\ r.e # 0
Adds(c, r) ==
  /\ thr[c].pc = "add" /\ r.pc = "set" /\ r.todo = thr[c].todo /\ r.s = thr[c].s /\ r.e = nextId + 1
  /\ nextId' = nextId + 1 /\ UNCHANGED activeJobs
  /\ \E n \in Entry : n.id = nextId + 1 /\ n.s = r.s /\ ~n.due /\ entries' = entries \cup {n}
Notes(c, r) ==
  /\ thr[c].pc = "set" /\ r.pc = "next" /\ r.todo = thr[c].todo
  /\ activeJobs' = [activeJobs EXCEPT ![thr[c].s] = thr[c].e] /\ UNCHANGED <<entries, nextId>>
Drops(c, r) ==
  /\ thr[c].pc = "remove" /\ r.pc = "delete" /\ r.todo = thr[c].todo /\ r.s = thr[c].s /\ r.e = thr[c].e
  /\ entries' = {n \in entries : n.id # thr[c].e} /\ UNCHANGED <<activeJobs, nextId>>
Forgets(c, r) ==
  /\ thr[c].pc = "delete" /\ r.pc = "next" /\ r.todo = thr[c].todo
  /\ activeJobs' = [activeJobs EXCEPT ![thr[c].s] = 0] /\ UNCHANGED <<entries, nextId>>

\* Every step of a call is one of these.
LEMMA CallStepIs ==
  ASSUME SchedType, NEW c \in Callers, CallStep(c)
  PROVE  /\ \E r \in CallRec : /\ Becomes(c, r)
                               /\ Finds(c, r) \/ Adds(c, r) \/ Notes(c, r) \/ Drops(c, r) \/ Forgets(c, r)
         /\ UNCHANGED <<rows, clock, cronOn, svc, poll, exec, calls, runs, serial>>
<1>0. thr \in [Callers -> CallRec] /\ thr[c] \in CallRec /\ nextId \in Nat
      /\ activeJobs \in [Schedules -> Nat] /\ CallType
      /\ (thr[c].pc \notin {"idle", "next"} => thr[c].s \in Schedules)
  BY DEF SchedType, CallType, EngineType
<1>1. UNCHANGED <<rows, clock, cronOn, svc, poll, exec, calls, runs, serial>>
  BY DEF CallStep, NextAdd, AddToCron, SetActive, LookUp, RemoveFromCron, DeleteActive, dbVars,
         cronVars, histVars
<1>2. CASE NextAdd(c)
  <2>0. thr[c].pc = "next" /\ UNCHANGED <<entries, nextId, activeJobs>>
    BY <1>2 DEF NextAdd, cronVars
  <2>1. CASE thr' = [thr EXCEPT ![c] = Idle]
    <3>1. Idle \in CallRec /\ Idle.pc = "idle"
      BY DEF Idle, CallRec
    <3> QED BY <1>1, <2>0, <2>1, <3>1 DEF Becomes, Finds
  <2>2. ASSUME NEW s \in thr[c].todo,
               thr' = [thr EXCEPT ![c].pc = "add", ![c].s = s, ![c].todo = @ \ {s}]
        PROVE  \E r \in CallRec : Becomes(c, r) /\ Finds(c, r)
    <3> DEFINE r == [thr[c] EXCEPT !.pc = "add", !.s = s, !.todo = @ \ {s}]
    <3>1. r \in CallRec /\ r.pc = "add" /\ r.s = s /\ r.todo = thr[c].todo \ {s}
      BY <1>0 DEF CallRec
    <3>2. thr' = [thr EXCEPT ![c] = r]
      BY <1>0, <2>2
    <3> HIDE DEF r
    <3> QED BY <2>0, <3>1, <3>2 DEF Becomes, Finds
  <2> QED BY <1>1, <1>2, <2>1, <2>2 DEF NextAdd
<1>3. CASE AddToCron(c)
  <2>0. thr[c].pc = "add" /\ UNCHANGED activeJobs
    BY <1>3 DEF AddToCron
  <2>1. CASE AddFunc(thr[c].s, thr[c].off) /\ thr' = [thr EXCEPT ![c].pc = "set", ![c].e = nextId']
    <3> DEFINE r == [thr[c] EXCEPT !.pc = "set", !.e = nextId']
               n == [id |-> nextId + 1, s |-> thr[c].s, off |-> thr[c].off, due |-> FALSE]
    <3>1. nextId' = nextId + 1 /\ entries' = entries \cup {n}
      BY <2>1 DEF AddFunc
    <3>2. r \in CallRec /\ r.pc = "set" /\ r.s = thr[c].s /\ r.todo = thr[c].todo /\ r.e = nextId'
      <4>1. nextId' \in Nat
        BY <1>0, <3>1
      <4> QED BY <1>0, <4>1 DEF CallRec
    <3>3. n \in Entry /\ n.id = nextId + 1 /\ n.s = thr[c].s /\ ~n.due
      BY <1>0, <2>0 DEF CallRec, Entry
    <3>4. thr' = [thr EXCEPT ![c] = r]
      BY <1>0, <2>1
    <3> HIDE DEF r, n
    <3> QED BY <1>1, <2>0, <3>1, <3>2, <3>3, <3>4 DEF Becomes, Adds
  <2>2. CASE Over(c) /\ UNCHANGED <<entries, nextId>>
    BY <1>0, <1>1, <2>0, <2>2, OverIs DEF Finds
  <2> QED BY <1>3, <2>1, <2>2 DEF AddToCron
<1>4. CASE SetActive(c)
  BY <1>0, <1>1, <1>4, OverIs DEF SetActive, Notes, cronVars
<1>5. CASE LookUp(c)
  <2>0. thr[c].pc = "look" /\ UNCHANGED <<entries, nextId, activeJobs>> /\ thr[c].s \in Schedules
    BY <1>0, <1>5 DEF LookUp, cronVars
  <2>1. CASE activeJobs[thr[c].s] = 0 /\ Over(c)
    BY <1>0, <1>1, <2>0, <2>1, OverIs DEF Finds
  <2>2. CASE activeJobs[thr[c].s] # 0
    <3> DEFINE r == [thr[c] EXCEPT !.pc = "remove", !.e = activeJobs[thr[c].s]]
    <3>1. /\ r \in CallRec /\ r.pc = "remove" /\ r.s = thr[c].s /\ r.todo = thr[c].todo
          /\ r.e = activeJobs[thr[c].s]
      BY <1>0, <2>0 DEF CallRec
    <3>2. thr' = [thr EXCEPT ![c] = r]
      BY <1>0, <1>5, <2>2 DEF LookUp
    <3> HIDE DEF r
    <3> QED BY <1>1, <2>0, <2>2, <3>1, <3>2 DEF Becomes, Finds
  <2> QED BY <1>5, <2>1, <2>2 DEF LookUp
<1>6. CASE RemoveFromCron(c)
  <2> DEFINE r == [thr[c] EXCEPT !.pc = "delete"]
  <2>1. r \in CallRec /\ r.pc = "delete" /\ r.s = thr[c].s /\ r.todo = thr[c].todo /\ r.e = thr[c].e
    BY <1>0 DEF CallRec
  <2>2. thr' = [thr EXCEPT ![c] = r]
    BY <1>0, <1>6 DEF RemoveFromCron
  <2> HIDE DEF r
  <2> QED BY <1>1, <1>6, <2>1, <2>2 DEF Becomes, Drops, RemoveFromCron, RemoveEntry, Removed
<1>7. CASE DeleteActive(c)
  BY <1>0, <1>1, <1>7, OverIs DEF DeleteActive, Forgets, cronVars
<1> QED BY <1>2, <1>3, <1>4, <1>5, <1>6, <1>7 DEF CallStep

\* A new call, on the service as it is.
Admits(c, r) ==
  /\ Becomes(c, r) /\ thr[c].pc = "idle" /\ svc.pc = "started" /\ calls' = calls + 1
  /\ serial' = (serial /\ (\A b \in Callers : thr[b].pc = "idle") /\ (r.pc = "add" => activeJobs[r.s] = 0))
  /\ runs' = [s \in Schedules |-> IF serial' THEN runs[s] ELSE Excused]

\* Call gives the record to a caller that is idle.
LEMMA CallIs ==
  ASSUME SchedType, NEW r \in CallRec, Call(r)
  PROVE  \E c \in Callers : Admits(c, r)
<1>1. PICK c \in Callers \ Busy : thr' = [thr EXCEPT ![c] = r]
  BY Zenon DEF Call, Busy
<1>2. thr[c].pc = "idle" /\ c \in Callers
  BY <1>1 DEF Busy
<1>3. (Busy = {}) <=> \A b \in Callers : thr[b].pc = "idle"
  BY DEF Busy
<1>4. runs' = [s \in Schedules |-> IF serial' THEN runs[s] ELSE Excused]
  <2>1. CASE serial'
    BY <2>1 DEF Call, Excuse
  <2>2. CASE ~serial'
    BY <2>2 DEF Call, Excuse
  <2> QED BY <2>1, <2>2
<1>5. svc.pc = "started" /\ calls' = calls + 1
  BY DEF Call
<1>6. serial' = (serial /\ Busy = {} /\ (r.pc = "add" => activeJobs[r.s] = 0))
  BY DEF Call
<1>7. serial' = (serial /\ (\A b \in Callers : thr[b].pc = "idle") /\ (r.pc = "add" => activeJobs[r.s] = 0))
  BY <1>3, <1>6
<1> QED BY <1>1, <1>2, <1>4, <1>5, <1>7 DEF Admits, Becomes

\* AddJob, RemoveJob and UpdateJob begin.
LEMMA EnterIs ==
  ASSUME SchedType, NEW s \in Schedules, AddJob(s) \/ RemoveJob(s) \/ UpdateJob(s)
  PROVE  /\ \E c \in Callers, r \in CallRec :
              /\ Admits(c, r) /\ r.s = s
              /\ (r.pc = "add" /\ r.todo = {}) \/ (r.pc = "look" /\ r.todo \subseteq {s})
         /\ UNCHANGED <<rows, clock, entries, cronOn, nextId, activeJobs, svc, poll, exec>>
<1> DEFINE r(q, t) == [Idle EXCEPT !.pc = q, !.s = s, !.off = ~rows[s].enabled, !.todo = t]
<1>1. ASSUME NEW q \in {"add", "look"}, NEW t \in SUBSET {s}
      PROVE  r(q, t) \in CallRec /\ r(q, t).pc = q /\ r(q, t).s = s /\ r(q, t).todo = t
  BY <1>1 DEF Idle, CallRec, SchedType, TableType
<1>2. PICK q \in {"add", "look"}, t \in SUBSET {s} : Enter(q, s, t) /\ (q = "add" => t = {})
  BY DEF AddJob, RemoveJob, UpdateJob
<1>3. /\ Call(r(q, t))
      /\ UNCHANGED <<rows, clock, entries, cronOn, nextId, activeJobs, svc, poll, exec>>
  BY <1>2 DEF Enter, dbVars, cronVars
<1> HIDE DEF r
<1>4. /\ r(q, t) \in CallRec /\ r(q, t).pc = q /\ r(q, t).s = s /\ r(q, t).todo = t
  BY <1>1, <1>2
<1>5. PICK c \in Callers : Admits(c, r(q, t))
  BY <1>3, <1>4, CallIs
<1> QED BY <1>2, <1>3, <1>4, <1>5

\* ReloadJobs begins.
LEMMA ReloadIs ==
  ASSUME SchedType, ReloadJobs
  PROVE  /\ \E c \in Callers, r \in CallRec : Admits(c, r) /\ r.pc = "next"
         /\ entries' = {n \in entries : activeJobs[n.s] # n.id}
         /\ activeJobs' = [s \in Schedules |-> 0]
         /\ UNCHANGED <<rows, clock, cronOn, nextId, svc, poll, exec>>
<1> DEFINE r == [Idle EXCEPT !.pc = "next", !.todo = Listed]
<1>1. r \in CallRec /\ r.pc = "next"
  BY DEF Idle, CallRec, Listed
<1>2. Call(r)
  BY DEF ReloadJobs
<1> HIDE DEF r
<1>3. \E c \in Callers : Admits(c, r)
  BY <1>1, <1>2, CallIs
<1> QED BY <1>1, <1>3 DEF ReloadJobs, dbVars

\* executeJob of s starts in a free slot.
Spawns(x, s) ==
  /\ exec[x].pc = "idle"
  /\ exec' = [exec EXCEPT ![x] = [pc |-> "publish", s |-> s, at |-> clock[s]]]

\* What Spawn does.
LEMMA SpawnIs ==
  ASSUME SchedType, NEW s \in Schedules, NEW overlap, Spawn(s, overlap)
  PROVE  /\ \E x \in Slots : Spawns(x, s)
         /\ runs' = [t \in Schedules |-> IF overlap /\ t = s THEN Excused ELSE runs[t]]
<1>1. PICK x \in Free : exec' = [exec EXCEPT ![x] = [pc |-> "publish", s |-> s, at |-> clock[s]]]
  BY Zenon DEF Spawn
<1>2. x \in Slots /\ exec[x].pc = "idle"
  BY <1>1 DEF Free, Rest
<1>3. runs' = [t \in Schedules |-> IF overlap /\ t = s THEN Excused ELSE runs[t]]
  <2>1. CASE overlap
    BY <2>1 DEF Spawn, Excuse
  <2>2. CASE ~overlap
    BY <2>2 DEF Spawn, Excuse
  <2> QED BY <2>1, <2>2
<1> QED BY <1>1, <1>2, <1>3 DEF Spawns

\* A step of a call keeps the types of the calls.
LEMMA CallTypeKept ==
  ASSUME CallType, NEW c \in Callers, NEW r \in CallRec, Becomes(c, r),
         r.pc \notin {"idle", "next"} => r.s \in Schedules
  PROVE  CallType'
BY DEF CallType, Becomes

\* A new execution is one.
LEMMA SpawnTypeKept ==
  ASSUME ExecType, TableType, NEW x \in Slots, NEW s \in Schedules, Spawns(x, s)
  PROVE  ExecType'
BY DEF ExecType, TableType, Spawns, ExecRec

\* The types of the scheduler service.
LEMMA SchedTypeKept ==
  ASSUME SchedType, Next
  PROVE  SchedType'
<1> USE ScheduleAssumption DEF None, Excused
<1>0. TableType /\ EngineType /\ ServiceType /\ CallType /\ ExecType
  BY DEF SchedType
<1>1. ASSUME NEW c \in Callers, CallStep(c) PROVE SchedType'
  <2>1. PICK r \in CallRec : /\ Becomes(c, r)
                             /\ Finds(c, r) \/ Adds(c, r) \/ Notes(c, r) \/ Drops(c, r) \/ Forgets(c, r)
    BY <1>1, CallStepIs
  <2>2. UNCHANGED <<rows, clock, cronOn, svc, poll, exec, calls, runs, serial>>
    BY <1>1, CallStepIs
  <2>3. thr[c] \in CallRec /\ (thr[c].pc \notin {"idle", "next"} => thr[c].s \in Schedules)
    BY <1>0 DEF CallType
  <2>4. r.pc \notin {"idle", "next"} => r.s \in Schedules
    BY <2>1, <2>3 DEF Finds, Adds, Notes, Drops, Forgets, CallRec
  <2>5. CallType'
    BY <1>0, <2>1, <2>4, CallTypeKept
  <2>6. EngineType'
    <3>1. CASE Finds(c, r)
      BY <1>0, <2>2, <3>1 DEF Finds, EngineType
    <3>2. CASE Adds(c, r)
      BY <1>0, <2>2, <3>2 DEF Adds, EngineType
    <3>3. CASE Notes(c, r)
      BY <1>0, <2>2, <2>3, <3>3 DEF Notes, EngineType, CallRec
    <3>4. CASE Drops(c, r)
      BY <1>0, <2>2, <3>4 DEF Drops, EngineType
    <3>5. CASE Forgets(c, r)
      BY <1>0, <2>2, <3>5 DEF Forgets, EngineType
    <3> QED BY <2>1, <3>1, <3>2, <3>3, <3>4, <3>5
  <2>7. TableType' /\ ServiceType' /\ ExecType'
    BY <1>0, <2>2 DEF TableType, ServiceType, ExecType
  <2> QED BY <2>5, <2>6, <2>7 DEF SchedType
<1>2. ASSUME NEW c \in Callers, NEW r \in CallRec, Admits(c, r),
             r.pc \notin {"idle", "next"} => r.s \in Schedules,
             UNCHANGED <<rows, clock, cronOn, nextId, svc, poll, exec>>
      PROVE  CallType' /\ TableType' /\ ServiceType' /\ ExecType'
  <2>1. CallType'
    BY <1>0, <1>2, CallTypeKept DEF Admits
  <2>2. runs' \in [Schedules -> Nat]
    BY <1>0, <1>2 DEF Admits, TableType
  <2>3. serial' \in BOOLEAN /\ calls' \in Nat
    BY <1>0, <1>2 DEF Admits, TableType
  <2> QED BY <1>0, <1>2, <2>1, <2>2, <2>3 DEF TableType, ServiceType, ExecType
<1>3. ASSUME NEW s \in Schedules, AddJob(s) \/ RemoveJob(s) \/ UpdateJob(s) PROVE SchedType'
  <2>1. PICK c \in Callers, r \in CallRec : Admits(c, r) /\ r.s = s
    BY <1>3, EnterIs
  <2>2. UNCHANGED <<rows, clock, entries, cronOn, nextId, activeJobs, svc, poll, exec>>
    BY <1>3, EnterIs
  <2>3. CallType' /\ TableType' /\ ServiceType' /\ ExecType'
    BY <1>2, <2>1, <2>2
  <2> QED BY <1>0, <2>2, <2>3 DEF SchedType, EngineType
<1>4. CASE ReloadJobs
  <2>1. PICK c \in Callers, r \in CallRec : Admits(c, r) /\ r.pc = "next"
    BY <1>4, ReloadIs
  <2>2. /\ entries' = {n \in entries : activeJobs[n.s] # n.id}
        /\ activeJobs' = [s \in Schedules |-> 0]
        /\ UNCHANGED <<rows, clock, cronOn, nextId, svc, poll, exec>>
    BY <1>4, ReloadIs
  <2>3. CallType' /\ TableType' /\ ServiceType' /\ ExecType'
    BY <1>2, <2>1, <2>2
  <2> QED BY <1>0, <2>2, <2>3 DEF SchedType, EngineType
<1>5. ASSUME NEW x \in Slots, ExecStep(x) PROVE SchedType'
  <2>1. UNCHANGED <<clock, entries, cronOn, nextId, activeJobs, svc, poll, thr, calls, serial>>
    BY <1>5 DEF ExecStep, Publish, StoreRun, dbVars, cronVars
  <2>2. exec[x].s \in Schedules /\ exec[x] \in ExecRec /\ clock[exec[x].s] \in Nat
    BY <1>0, <1>5 DEF ExecStep, Publish, StoreRun, ExecType, TableType
  <2>3. runs' \in [Schedules -> Nat]
    <3>1. ASSUME NEW S, Excuse(S) PROVE runs' \in [Schedules -> Nat]
      BY <1>0, <3>1 DEF Excuse, TableType
    <3>2. CASE Dispatched(x)
      BY <1>0, <2>2, <3>2 DEF Dispatched, TableType
    <3> QED BY <1>0, <1>5, <3>1, <3>2 DEF ExecStep, Publish, StoreRun, TableType
  <2>4. ExecType' /\ rows' \in [Schedules -> [enabled : BOOLEAN, five : BOOLEAN, next : Nat]]
    <3>0. /\ Rest \in ExecRec /\ Rest.pc = "idle" /\ Rest.s \notin Schedules
          /\ exec \in [Slots -> ExecRec]
      BY <1>0 DEF Rest, ExecRec, ExecType
    <3>1. CASE exec' = [exec EXCEPT ![x] = Rest]
      <4>1. ExecType'
        BY <1>0, <3>0, <3>1 DEF ExecType
      <4>2. rows' = rows \/ rows' = [rows EXCEPT ![exec[x].s].next = exec[x].at]
        BY <1>5 DEF ExecStep, Publish, StoreRun, dbVars
      <4> QED BY <1>0, <2>2, <4>1, <4>2 DEF TableType, ExecRec
    <3>2. CASE exec' = [exec EXCEPT ![x].pc = "store", ![x].at = NextRun(exec[x].s)] /\ UNCHANGED rows
      <4> DEFINE e == [exec[x] EXCEPT !.pc = "store", !.at = NextRun(exec[x].s)]
      <4>1. NextRun(exec[x].s) \in Nat
        BY <2>2 DEF NextRun
      <4>2. e \in ExecRec /\ e.pc = "store" /\ e.s = exec[x].s
        BY <2>2, <4>1 DEF ExecRec
      <4>3. exec' = [exec EXCEPT ![x] = e]
        BY <3>0, <3>2
      <4> HIDE DEF e
      <4> QED BY <1>0, <2>2, <3>0, <3>2, <4>2, <4>3, ZenonT(40) DEF TableType, ExecType
    <3> QED BY <1>5, <3>1, <3>2 DEF ExecStep, Publish, StoreRun, dbVars
  <2> QED BY <1>0, <2>1, <2>3, <2>4
          DEF SchedType, TableType, EngineType, ServiceType, CallType
<1>6. CASE PollStep
  <2>1. UNCHANGED <<rows, clock, entries, cronOn, nextId, activeJobs, svc, thr, calls, serial>>
    BY <1>6 DEF PollStep, PollReads, PollEnds, PollStarts, dbVars, cronVars, histVars
  <2>2. poll' \in [pc : {"none", "idle", "scan", "done"}, todo : SUBSET Schedules]
    BY <1>0, <1>6 DEF PollStep, PollReads, PollEnds, PollStarts, DueList, ServiceType
  <2>3. runs' \in [Schedules -> Nat] /\ ExecType'
    <3>1. CASE PollReads
      BY <1>0, <3>1 DEF PollReads, Excuse, TableType, ExecType
    <3>2. CASE PollEnds
      BY <1>0, <3>2 DEF PollEnds, histVars, TableType, ExecType
    <3>3. ASSUME NEW s \in Schedules, PollStarts(s) PROVE runs' \in [Schedules -> Nat] /\ ExecType'
      <4>1. CASE UNCHANGED <<exec, runs>>
        BY <1>0, <4>1 DEF TableType, ExecType
      <4>2. CASE Spawn(s, Running(s) # {} \/ Adding(s))
        <5>1. PICK x \in Slots : Spawns(x, s)
          BY <4>2, SpawnIs
        <5>2. ExecType'
          BY <1>0, <5>1, SpawnTypeKept
        <5>3. runs' = [t \in Schedules |-> IF (Running(s) # {} \/ Adding(s)) /\ t = s THEN Excused ELSE runs[t]]
          BY <4>2, SpawnIs
        <5> QED BY <1>0, <5>2, <5>3 DEF TableType
      <4> QED BY <3>3, <4>1, <4>2 DEF PollStarts
    <3> QED BY <1>6, <3>1, <3>2, <3>3 DEF PollStep
  <2> QED BY <1>0, <2>1, <2>2, <2>3 DEF SchedType, TableType, EngineType, ServiceType, CallType
<1>7. ASSUME NEW n \in entries, CronFires(n) PROVE SchedType'
  <2>0. n \in Entry
    BY <1>0 DEF EngineType
  <2>1. UNCHANGED <<rows, clock, cronOn, nextId, activeJobs, svc, poll, thr, calls, serial>>
    BY <1>7 DEF CronFires, dbVars
  <2>2. entries' \in SUBSET Entry
    BY <1>0, <1>7, <2>0 DEF CronFires, EngineType, Entry
  <2>3. runs' \in [Schedules -> Nat] /\ ExecType'
    <3>1. CASE UNCHANGED <<exec, runs>>
      BY <1>0, <3>1 DEF TableType, ExecType
    <3>2. CASE Spawn(n.s, Overlaps(n.s))
      <4>0. n.s \in Schedules
        BY <2>0 DEF Entry
      <4>1. PICK x \in Slots : Spawns(x, n.s)
        BY <3>2, <4>0, SpawnIs
      <4>2. ExecType'
        BY <1>0, <4>0, <4>1, SpawnTypeKept
      <4>3. runs' = [t \in Schedules |-> IF Overlaps(n.s) /\ t = n.s THEN Excused ELSE runs[t]]
        BY <3>2, <4>0, SpawnIs
      <4> QED BY <1>0, <4>2, <4>3 DEF TableType
    <3> QED BY <1>7, <3>1, <3>2 DEF CronFires
  <2> QED BY <1>0, <2>1, <2>2, <2>3 DEF SchedType, TableType, EngineType, ServiceType, CallType
<1>8. ASSUME NEW s \in Schedules, LoadJob(s) PROVE SchedType'
  <2>1. UNCHANGED <<rows, clock, cronOn, poll, thr, exec, calls, runs, serial>>
    BY <1>8 DEF LoadJob, dbVars, histVars
  <2>2. EngineType'
    <3>1. CASE UNCHANGED <<entries, nextId, activeJobs>>
      BY <1>0, <2>1, <3>1 DEF EngineType
    <3>2. CASE AddFunc(s, FALSE) /\ activeJobs' = [activeJobs EXCEPT ![s] = nextId']
      <4> DEFINE n == [id |-> nextId + 1, s |-> s, off |-> FALSE, due |-> FALSE]
      <4>1. nextId' \in Nat /\ entries' = entries \cup {n}
        BY <1>0, <3>2 DEF AddFunc, EngineType
      <4>2. n \in Entry
        BY <1>0 DEF Entry, EngineType
      <4> HIDE DEF n
      <4> QED BY <1>0, <2>1, <3>2, <4>1, <4>2 DEF EngineType
    <3> QED BY <1>8, <3>1, <3>2 DEF LoadJob
  <2>3. ServiceType'
    BY <1>0, <1>8, <2>1 DEF LoadJob, ServiceType
  <2> QED BY <1>0, <2>1, <2>2, <2>3 DEF SchedType, TableType, CallType, ExecType
<1>9. CASE Started \/ StopReturns \/ Stop
  <2>1. UNCHANGED <<rows, clock, entries, nextId, thr, exec, calls, runs, serial>>
    BY <1>9 DEF Started, StopReturns, Stop, dbVars, cronVars, histVars
  <2>2. EngineType'
    <3>1. cronOn' \in BOOLEAN
      BY <1>0, <1>9 DEF Started, StopReturns, Stop, EngineType, cronVars
    <3>2. activeJobs' \in [Schedules -> Nat]
      BY <1>0, <1>9 DEF Started, StopReturns, Stop, EngineType
    <3> QED BY <1>0, <2>1, <3>1, <3>2 DEF EngineType
  <2>3. ServiceType'
    BY <1>0, <1>9, <2>1 DEF Started, StopReturns, Stop, ServiceType
  <2> QED BY <1>0, <2>1, <2>2, <2>3 DEF SchedType, TableType, CallType, ExecType
<1>10. CASE Start
  <2>1. UNCHANGED <<clock, entries, cronOn, nextId, activeJobs, poll, thr, exec, calls, runs, serial>>
    BY <1>10 DEF Start, cronVars, histVars
  <2>2. rows' \in [Schedules -> [enabled : BOOLEAN, five : BOOLEAN, next : Nat]]
    <3>1. PICK policy \in Policies, missed \in [Schedules -> BOOLEAN], reached \in BOOLEAN :
            rows' = IF reached THEN [s \in Schedules |-> Recovered(s, policy, missed[s])] ELSE rows
      BY <1>10 DEF Start
    <3>2. \A s \in Schedules : rows[s] \in [enabled : BOOLEAN, five : BOOLEAN, next : Nat]
      BY <1>0 DEF TableType
    <3>3. ASSUME NEW s \in Schedules
          PROVE  Recovered(s, policy, missed[s]) \in [enabled : BOOLEAN, five : BOOLEAN, next : Nat]
      <4>1. NextRun(s) \in Nat
        BY <1>0 DEF NextRun, TableType
      <4> QED BY <3>2, <4>1 DEF Recovered
    <3> QED BY <1>0, <3>1, <3>3 DEF TableType
  <2>3. ServiceType'
    BY <1>0, <1>10, <2>1, ZenonT(40) DEF Start, ServiceType, Listed
  <2> QED BY <1>0, <2>1, <2>2, <2>3 DEF SchedType, TableType, EngineType, CallType, ExecType
<1>11. ASSUME NEW s \in Schedules, Tick(s) PROVE SchedType'
  <2>1. UNCHANGED <<rows, cronOn, nextId, activeJobs, svc, poll, thr, exec, calls, serial>>
    BY <1>11 DEF Tick
  <2>2. entries' \in SUBSET Entry
    BY <1>0, <1>11 DEF Tick, EngineType, Entry
  <2>3. clock' \in [Schedules -> Nat] /\ runs' \in [Schedules -> Nat]
    BY <1>0, <1>11 DEF Tick, TableType
  <2> QED BY <1>0, <2>1, <2>2, <2>3 DEF SchedType, TableType, EngineType, ServiceType, CallType, ExecType
<1>12. ASSUME NEW s \in Schedules, ToggleEnabled(s) PROVE SchedType'
  <2>1. UNCHANGED <<clock, entries, cronOn, nextId, activeJobs, svc, poll, thr, exec, runs, serial>>
    BY <1>12 DEF ToggleEnabled, cronVars
  <2>2. rows' \in [Schedules -> [enabled : BOOLEAN, five : BOOLEAN, next : Nat]] /\ calls' \in Nat
    <3> DEFINE r == [rows[s] EXCEPT !.enabled = ~@]
    <3>1. rows[s] \in [enabled : BOOLEAN, five : BOOLEAN, next : Nat]
      BY <1>0 DEF TableType
    <3>2. r \in [enabled : BOOLEAN, five : BOOLEAN, next : Nat]
      BY <3>1
    <3>3. rows' = [rows EXCEPT ![s] = r]
      BY <1>0, <1>12 DEF ToggleEnabled, TableType
    <3> HIDE DEF r
    <3> QED BY <1>0, <1>12, <3>2, <3>3 DEF ToggleEnabled, TableType
  <2> QED BY <1>0, <2>1, <2>2 DEF SchedType, TableType, EngineType, ServiceType, CallType, ExecType
<1> QED BY <1>1, <1>3, <1>4, <1>5, <1>6, <1>7, <1>8, <1>9, <1>10, <1>11, <1>12
        DEF Next, CronStep, SvcStep

\* A step of a call keeps activeJobs and the engine in agreement.
LEMMA CallMatched ==
  ASSUME SchedType, Matched, NEW c \in Callers, NEW r \in CallRec, Becomes(c, r),
         Finds(c, r) \/ Adds(c, r) \/ Notes(c, r) \/ Drops(c, r) \/ Forgets(c, r),
         UNCHANGED <<cronOn, svc, poll, serial>>
  PROVE  Matched'
<1> USE DEF HasId
<1>0. /\ thr \in [Callers -> CallRec] /\ nextId \in Nat /\ activeJobs \in [Schedules -> Nat]
      /\ entries \subseteq Entry /\ thr[c] \in CallRec
      /\ (thr[c].pc \notin {"idle", "next"} => thr[c].s \in Schedules)
      /\ svc.todo \subseteq Schedules
  BY DEF SchedType, CallType, EngineType, ServiceType
<1>1. \A b \in Callers : thr'[b] = IF b = c THEN r ELSE thr[b]
  BY <1>0 DEF Becomes
<1>2. Phases /\ Owned /\ Pending /\ Alone /\ EntriesMatchJobs
  BY DEF Matched
<1>3. thr[c].pc # "idle"
  BY DEF Finds, Adds, Notes, Drops, Forgets
<1>4. svc.pc \notin {"new", "load", "failed"}
  BY <1>2, <1>3 DEF Phases
<1>5. Phases'
  BY <1>2, <1>4 DEF Phases
<1>6. \A n \in entries : n.id \in Nat \ {0} /\ n.s \in Schedules
  BY <1>0 DEF Entry
<1>7. CASE Finds(c, r)
  <2>0. UNCHANGED <<entries, nextId, activeJobs>>
    BY <1>7 DEF Finds
  <2>1. Owned'
    BY <1>0, <1>1, <1>2, <1>6, <1>7, <2>0 DEF Owned, Finds
  <2>2. Pending'
    BY <1>0, <1>1, <1>2, <1>6, <1>7, <2>0 DEF Owned, Pending, Finds, Live
  <2>3. Alone'
    BY <1>0, <1>1, <1>2, <1>6, <1>7, <2>0 DEF Alone, Finds, Live
  <2>4. EntriesMatchJobs'
    BY <1>0, <1>1, <1>2, <1>6, <1>7, <2>0 DEF EntriesMatchJobs, Finds, Live
  <2> QED BY <1>5, <2>1, <2>2, <2>3, <2>4 DEF Matched
<1>8. CASE Adds(c, r)
  <2>0. PICK m \in Entry : m.id = nextId + 1 /\ m.s = r.s /\ ~m.due /\ entries' = entries \cup {m}
    BY <1>8 DEF Adds
  <2>1. Owned'
    BY <1>0, <1>1, <1>2, <1>6, <1>8, <2>0 DEF Owned, Adds
  <2>2. Pending'
    BY <1>0, <1>1, <1>2, <1>6, <1>8, <2>0 DEF Owned, Pending, Adds, Live
  <2>3. Alone'
    BY <1>0, <1>1, <1>2, <1>6, <1>8, <2>0 DEF Owned, Alone, Adds, Live
  <2>4. EntriesMatchJobs'
    BY <1>0, <1>1, <1>2, <1>6, <1>8, <2>0 DEF Owned, EntriesMatchJobs, Adds, Live
  <2> QED BY <1>5, <2>1, <2>2, <2>3, <2>4 DEF Matched
<1>9. CASE Notes(c, r)
  <2>0. /\ UNCHANGED <<entries, nextId>> /\ thr[c].e \in 1 .. nextId
        /\ \A s \in Schedules : activeJobs'[s] = IF s = thr[c].s THEN thr[c].e ELSE activeJobs[s]
    BY <1>0, <1>2, <1>9 DEF Notes, Owned
  <2>1. Owned'
    BY <1>0, <1>1, <1>2, <1>6, <1>9, <2>0 DEF Owned, Pending, Notes
  <2>2. Pending'
    BY <1>0, <1>1, <1>2, <1>6, <1>9, <2>0 DEF Owned, Pending, Notes, Live
  <2>3. Alone'
    BY <1>0, <1>1, <1>2, <1>3, <1>6, <1>9, <2>0 DEF Owned, Alone, Notes, Live
  <2>4. EntriesMatchJobs'
    BY <1>0, <1>1, <1>2, <1>3, <1>6, <1>9, <2>0 DEF Owned, Pending, Alone, EntriesMatchJobs, Notes, Live
  <2> QED BY <1>5, <2>1, <2>2, <2>3, <2>4 DEF Matched
<1>10. CASE Drops(c, r)
  <2>0. UNCHANGED <<activeJobs, nextId>> /\ entries' = {n \in entries : n.id # thr[c].e}
    BY <1>10 DEF Drops
  <2>1. Owned'
    BY <1>0, <1>1, <1>2, <1>6, <1>10, <2>0 DEF Owned, Drops
  <2>2. Pending'
    BY <1>0, <1>1, <1>2, <1>6, <1>10, <2>0 DEF Owned, Pending, Drops, Live
  <2>3. Alone'
    BY <1>0, <1>1, <1>2, <1>3, <1>6, <1>10, <2>0 DEF Owned, Alone, Drops, Live
  <2>4. EntriesMatchJobs'
    BY <1>0, <1>1, <1>2, <1>3, <1>6, <1>10, <2>0 DEF Owned, EntriesMatchJobs, Drops, Live
  <2> QED BY <1>5, <2>1, <2>2, <2>3, <2>4 DEF Matched
<1>11. CASE Forgets(c, r)
  <2>0. /\ UNCHANGED <<entries, nextId>>
        /\ \A s \in Schedules : activeJobs'[s] = IF s = thr[c].s THEN 0 ELSE activeJobs[s]
    BY <1>0, <1>11 DEF Forgets
  <2>1. Owned'
    BY <1>0, <1>1, <1>2, <1>6, <1>11, <2>0 DEF Owned, Forgets
  <2>2. Pending'
    BY <1>0, <1>1, <1>2, <1>6, <1>11, <2>0 DEF Owned, Pending, Forgets, Live
  <2>3. Alone'
    BY <1>0, <1>1, <1>2, <1>3, <1>6, <1>11, <2>0 DEF Owned, Alone, Forgets, Live
  <2>4. EntriesMatchJobs'
    BY <1>0, <1>1, <1>2, <1>3, <1>6, <1>11, <2>0 DEF Owned, Alone, EntriesMatchJobs, Forgets, Live
  <2> QED BY <1>5, <2>1, <2>2, <2>3, <2>4 DEF Matched
<1> QED BY <1>7, <1>8, <1>9, <1>10, <1>11

\* A new call keeps activeJobs and the engine in agreement.
LEMMA AdmitMatched ==
  ASSUME SchedType, Matched, NEW s \in Schedules, AddJob(s) \/ RemoveJob(s) \/ UpdateJob(s)
  PROVE  Matched'
<1> USE DEF HasId
<1>0. /\ thr \in [Callers -> CallRec] /\ activeJobs \in [Schedules -> Nat]
      /\ entries \subseteq Entry
  BY DEF SchedType, CallType, EngineType
<1>1. PICK c \in Callers, r \in CallRec :
        /\ Admits(c, r) /\ r.s = s
        /\ (r.pc = "add" /\ r.todo = {}) \/ (r.pc = "look" /\ r.todo \subseteq {s})
  BY EnterIs
<1>2. UNCHANGED <<rows, clock, entries, cronOn, nextId, activeJobs, svc, poll, exec>>
  BY EnterIs
<1>3. /\ thr[c].pc = "idle" /\ svc.pc = "started"
      /\ \A b \in Callers : thr'[b] = IF b = c THEN r ELSE thr[b]
  BY <1>0, <1>1 DEF Admits, Becomes
<1>4. serial' => /\ serial /\ \A b \in Callers : thr[b].pc = "idle"
                 /\ r.pc = "add" => activeJobs[s] = 0
  BY <1>1 DEF Admits
<1>5. Phases /\ Owned /\ Pending /\ Alone /\ EntriesMatchJobs
  BY DEF Matched
<1>6. Phases'
  BY <1>2, <1>3, <1>5 DEF Phases
<1>7. Owned' /\ Pending'
  BY <1>1, <1>2, <1>3, <1>5 DEF Owned, Pending, Live
<1>8. Alone'
  BY <1>1, <1>2, <1>3, <1>4, <1>5 DEF Alone, Live
<1>9. EntriesMatchJobs'
  BY <1>1, <1>2, <1>3, <1>4, <1>5 DEF EntriesMatchJobs, Live
<1> QED BY <1>6, <1>7, <1>8, <1>9 DEF Matched

\* ReloadJobs empties activeJobs and the engine together.
LEMMA ReloadMatched ==
  ASSUME SchedType, Matched, ReloadJobs
  PROVE  Matched'
<1> USE DEF HasId
<1>0. /\ thr \in [Callers -> CallRec] /\ activeJobs \in [Schedules -> Nat] /\ nextId \in Nat
      /\ \A n \in entries : n.id \in Nat \ {0} /\ n.s \in Schedules
  BY DEF SchedType, CallType, EngineType, Entry
<1>1. PICK c \in Callers, r \in CallRec : Admits(c, r) /\ r.pc = "next"
  BY ReloadIs
<1>2. /\ entries' = {n \in entries : activeJobs[n.s] # n.id}
      /\ activeJobs' = [s \in Schedules |-> 0]
      /\ UNCHANGED <<rows, clock, cronOn, nextId, svc, poll, exec>>
  BY ReloadIs
<1>3. /\ thr[c].pc = "idle" /\ svc.pc = "started" /\ r.todo \subseteq Schedules
      /\ \A b \in Callers : thr'[b] = IF b = c THEN r ELSE thr[b]
  BY <1>0, <1>1 DEF Admits, Becomes, CallRec
<1>4. serial' => serial /\ \A b \in Callers : thr[b].pc = "idle"
  BY <1>1 DEF Admits
<1>5. Phases /\ Owned /\ Pending /\ Alone /\ EntriesMatchJobs
  BY DEF Matched
<1>6. Phases'
  BY <1>2, <1>3, <1>5 DEF Phases
<1>7. Owned'
  BY <1>0, <1>1, <1>2, <1>3, <1>5 DEF Owned
<1>8. Pending'
  BY <1>0, <1>1, <1>2, <1>3, <1>5 DEF Owned, Pending, Live
<1>9. Alone'
  BY <1>0, <1>1, <1>2, <1>3, <1>4, <1>5 DEF Alone, Live
<1>10. EntriesMatchJobs'
  BY <1>0, <1>1, <1>2, <1>3, <1>4, <1>5 DEF EntriesMatchJobs, Live
<1> QED BY <1>6, <1>7, <1>8, <1>9, <1>10 DEF Matched

\* Start, its load of the jobs, and Stop.
LEMMA ServiceMatched ==
  ASSUME SchedType, Matched, Start \/ Started \/ Stop \/ StopReturns \/ \E s \in Schedules : LoadJob(s)
  PROVE  Matched'
<1> USE DEF HasId
<1>0. /\ activeJobs \in [Schedules -> Nat] /\ nextId \in Nat /\ thr \in [Callers -> CallRec]
      /\ \A n \in entries : n.id \in Nat \ {0} /\ n.s \in Schedules
      /\ svc \in [pc : {"new", "load", "started", "failed", "wait", "stopped"},
                  todo : SUBSET Schedules, cancelled : BOOLEAN]
      /\ poll \in [pc : {"none", "idle", "scan", "done"}, todo : SUBSET Schedules]
  BY DEF SchedType, CallType, EngineType, Entry, ServiceType
<1>1. Phases /\ Owned /\ Pending /\ Alone /\ EntriesMatchJobs
  BY DEF Matched
<1>2. CASE Start \/ Started \/ Stop
  <2>1. UNCHANGED <<entries, nextId, activeJobs, thr, serial>>
    BY <1>2 DEF Start, Started, Stop, cronVars, histVars
  <2>2. svc.pc # "stopped" /\ svc'.pc # "stopped"
    BY <1>0, <1>2 DEF Start, Started, Stop
  <2>3. Phases'
    <3>1. CASE Start
      <4>1. svc.pc = "new" /\ UNCHANGED <<poll, cronOn>>
        BY <3>1 DEF Start, cronVars
      <4>2. (svc'.pc = "load" /\ svc'.todo \subseteq Schedules) \/ svc'.pc = "failed"
        <5>1. \/ svc' = [svc EXCEPT !.pc = "load", !.todo = Listed]
              \/ svc' = [svc EXCEPT !.pc = "failed"]
          BY <3>1 DEF Start
        <5>2. Listed \subseteq Schedules
          BY DEF Listed
        <5> QED BY <1>0, <5>1, <5>2
      <4> QED BY <1>0, <1>1, <2>1, <4>1, <4>2 DEF Phases
    <3>2. CASE Started
      BY <1>0, <1>1, <2>1, <3>2 DEF Phases, Started
    <3>3. CASE Stop
      BY <1>0, <1>1, <2>1, <3>3 DEF Phases, Stop
    <3> QED BY <1>2, <3>1, <3>2, <3>3
  <2> QED BY <1>1, <2>1, <2>2, <2>3 DEF Matched, Owned, Pending, Alone, EntriesMatchJobs, Live
<1>3. CASE StopReturns
  <2>1. UNCHANGED <<entries, nextId, thr, serial, poll>> /\ svc'.pc = "stopped" /\ poll.pc = "done" /\ ~cronOn'
        /\ activeJobs' = [s \in Schedules |-> 0]
    BY <1>0, <1>3 DEF StopReturns, histVars
  <2>2. Phases'
    BY <1>0, <1>1, <2>1 DEF Phases
  <2> QED BY <1>0, <1>1, <2>1, <2>2 DEF Matched, Owned, Pending, Alone, EntriesMatchJobs, Live
<1>4. ASSUME NEW s \in Schedules, LoadJob(s) PROVE Matched'
  <2>1. /\ svc.pc = "load" /\ svc'.pc = "load" /\ s \in svc.todo /\ svc'.todo = svc.todo \ {s}
        /\ UNCHANGED <<cronOn, poll, thr, serial>>
    BY <1>0, <1>4 DEF LoadJob, histVars
  <2>2. activeJobs[s] = 0 /\ \A c \in Callers : thr[c].pc = "idle"
    BY <1>1, <2>1 DEF Phases
  <2>3. CASE UNCHANGED <<entries, nextId, activeJobs>>
    BY <1>1, <2>1, <2>3 DEF Matched, Phases, Owned, Pending, Alone, EntriesMatchJobs, Live
  <2>4. CASE AddFunc(s, FALSE) /\ activeJobs' = [activeJobs EXCEPT ![s] = nextId']
    <3> DEFINE m == [id |-> nextId + 1, s |-> s, off |-> FALSE, due |-> FALSE]
    <3>1. nextId' = nextId + 1 /\ entries' = entries \cup {m} /\ m.id = nextId + 1 /\ m.s = s
      BY <2>4 DEF AddFunc
    <3>2. \A t \in Schedules : activeJobs'[t] = IF t = s THEN nextId + 1 ELSE activeJobs[t]
      BY <1>0, <2>4, <3>1
    <3> HIDE DEF m
    <3>3. Phases'
      BY <1>0, <1>1, <2>1, <2>2, <3>1, <3>2 DEF Phases
    <3>4. Owned' /\ Pending' /\ Alone'
      BY <1>0, <1>1, <2>1, <2>2, <3>1, <3>2 DEF Owned, Pending, Alone
    <3>5. EntriesMatchJobs'
      BY <1>0, <1>1, <2>1, <2>2, <3>1, <3>2 DEF EntriesMatchJobs, Live
    <3> QED BY <3>3, <3>4, <3>5 DEF Matched
  <2> QED BY <1>4, <2>3, <2>4 DEF LoadJob
<1> QED BY <1>2, <1>3, <1>4

\* The engine has the same ids for the same schedules.
SameEntries ==
  /\ \A n \in entries' : \E m \in entries : m.id = n.id /\ m.s = n.s
  /\ \A m \in entries : \E n \in entries' : m.id = n.id /\ m.s = n.s
  /\ \A m, n \in entries' : m.id = n.id => m = n

\* Steps that call, load and stop nothing.
LEMMA FrameMatched ==
  ASSUME Matched, SameEntries, Phases', UNCHANGED <<nextId, activeJobs, svc, thr, serial>>
  PROVE  Matched'
<1> USE DEF HasId, SameEntries
<1>1. Owned'
  BY DEF Matched, Owned
<1>2. Pending'
  BY DEF Matched, Pending, Live
<1>3. Alone'
  BY DEF Matched, Alone, Live
<1>4. EntriesMatchJobs'
  BY DEF Matched, EntriesMatchJobs, Live
<1> QED BY <1>1, <1>2, <1>3, <1>4 DEF Matched

\* The agreement is kept.
LEMMA MatchedKept ==
  ASSUME SchedType, Matched, Next
  PROVE  Matched'
<1>0. /\ Phases /\ Owned /\ (\A n \in entries : n \in Entry)
      /\ poll \in [pc : {"none", "idle", "scan", "done"}, todo : SUBSET Schedules]
  BY DEF Matched, SchedType, EngineType, ServiceType
<1>1. ASSUME NEW c \in Callers, CallStep(c) PROVE Matched'
  BY <1>1, CallStepIs, CallMatched
<1>2. CASE \E x \in Slots : ExecStep(x)
  <2>1. UNCHANGED <<entries, cronOn, nextId, activeJobs, svc, poll, thr, serial>>
    BY <1>2 DEF ExecStep, Publish, StoreRun, cronVars
  <2>2. Phases' /\ SameEntries
    BY <1>0, <2>1 DEF Phases, SameEntries, Owned
  <2> QED BY <2>1, <2>2, FrameMatched
<1>3. CASE PollStep
  <2>1. UNCHANGED <<entries, cronOn, nextId, activeJobs, svc, thr, serial>>
    BY <1>3 DEF PollStep, PollReads, PollEnds, PollStarts, cronVars, histVars
  <2>2. Phases'
    <3>1. poll.pc \notin {"none", "done"} /\ poll'.pc # "none" /\ (poll'.todo # {} => poll'.pc = "scan")
      BY <1>0, <1>3 DEF PollStep, PollReads, PollEnds, PollStarts, Phases
    <3> QED BY <1>0, <2>1, <3>1 DEF Phases
  <2>3. SameEntries
    BY <1>0, <2>1 DEF SameEntries, Owned
  <2> QED BY <2>1, <2>2, <2>3, FrameMatched
<1>4. ASSUME NEW n \in entries, CronFires(n) PROVE Matched'
  <2>1. UNCHANGED <<cronOn, nextId, activeJobs, svc, poll, thr, serial>>
    BY <1>4 DEF CronFires
  <2> DEFINE m == [n EXCEPT !.due = FALSE]
  <2>2. entries' = (entries \ {n}) \cup {m} /\ m.id = n.id /\ m.s = n.s
    BY <1>0, <1>4 DEF CronFires, Entry
  <2> HIDE DEF m
  <2>3. SameEntries
    BY <1>0, <2>2 DEF SameEntries, Owned
  <2>4. svc.pc # "new"
    BY <1>0, <1>4 DEF Phases
  <2>5. Phases'
    BY <1>0, <2>1, <2>4 DEF Phases
  <2> QED BY <2>1, <2>3, <2>5, FrameMatched
<1>5. ASSUME NEW s \in Schedules, Tick(s) PROVE Matched'
  <2>1. UNCHANGED <<cronOn, nextId, activeJobs, svc, poll, thr, serial>> /\ svc.pc = "started"
    BY <1>5 DEF Tick
  <2> DEFINE f(n) == IF n.s = s THEN [n EXCEPT !.due = cronOn] ELSE n
  <2>2. entries' = {f(n) : n \in entries}
    BY <1>5 DEF Tick
  <2>3. \A n \in entries : f(n).id = n.id /\ f(n).s = n.s
    BY <1>0 DEF Entry
  <2> HIDE DEF f
  <2>4. SameEntries
    BY <1>0, <2>2, <2>3 DEF SameEntries, Owned
  <2>5. Phases'
    BY <1>0, <2>1 DEF Phases
  <2> QED BY <2>1, <2>4, <2>5, FrameMatched
<1>6. CASE \E s \in Schedules : ToggleEnabled(s)
  <2>1. UNCHANGED <<entries, cronOn, nextId, activeJobs, svc, poll, thr, serial>>
    BY <1>6 DEF ToggleEnabled, cronVars
  <2>2. Phases' /\ SameEntries
    BY <1>0, <2>1 DEF Phases, SameEntries, Owned
  <2> QED BY <2>1, <2>2, FrameMatched
<1> QED BY <1>1, <1>2, <1>3, <1>4, <1>5, <1>6, AdmitMatched, ReloadMatched, ServiceMatched
        DEF Next, CronStep, SvcStep

\* Nothing that matters to the dispatches of t happens, unless t is excused.
Untouched(t) ==
  /\ runs'[t] # Excused => runs'[t] = runs[t] /\ (serial => serial')
  /\ clock'[t] = clock[t]
  /\ \A x \in Slots : (exec'[x].s = t \/ exec[x].s = t) => exec'[x] = exec[x]
  /\ t \in poll'.todo => t \in poll.todo
  /\ \A n \in entries' : n.due => n \in entries
  /\ rows'[t].next = rows[t].next \/ rows'[t].next > clock[t]

\* Then nothing about them changes.
LEMMA OnceStays ==
  ASSUME NEW t \in Schedules, Once, Untouched(t), runs'[t] # Excused
  PROVE  OnceFor(t)'
<1>1. OnceFor(t)
  BY DEF Once, Untouched
<1>2. Running(t)' = Running(t) /\ \A x \in Running(t) : exec'[x] = exec[x]
  BY DEF Running, Untouched
<1> QED BY <1>1, <1>2 DEF OnceFor, Untouched

\* An execution begins: alone, first in its occurrence and with nothing left that is
\* due, unless its schedule is excused.
LEMMA SpawnOnce ==
  ASSUME SchedType, Once, NEW x \in Slots, NEW s \in Schedules, Spawns(x, s),
         UNCHANGED <<rows, clock, serial>>, poll'.todo \subseteq poll.todo,
         \A n \in entries' : n.due => n \in entries,
         \A t \in Schedules : t # s => runs'[t] = runs[t],
         runs'[s] # Excused =>
           /\ runs'[s] = runs[s] /\ runs[s] = 0
           /\ Running(s) = {} /\ s \notin poll'.todo
           /\ \A n \in entries' : n.s = s => ~n.due
  PROVE  Once'
<1>0. /\ exec \in [Slots -> ExecRec] /\ exec[x].s \notin Schedules /\ clock[s] \in Nat
  BY DEF SchedType, ExecType, TableType, Spawns
<1>1. \A y \in Slots : exec'[y] = IF y = x THEN [pc |-> "publish", s |-> s, at |-> clock[s]] ELSE exec[y]
  BY <1>0 DEF Spawns
<1>2. ASSUME NEW t \in Schedules, runs'[t] # Excused PROVE OnceFor(t)'
  <2>1. CASE t # s
    <3>1. Untouched(t)
      BY <1>0, <1>1, <2>1 DEF Untouched
    <3> QED BY <1>2, <3>1, OnceStays
  <2>2. CASE t = s
    <3>1. serial'
      BY <1>2, <2>2 DEF Once, OnceFor
    <3>2. Running(s)' = {x}
      BY <1>1, <1>2, <2>2 DEF Running
    <3>3. exec'[x].at = clock[s] /\ exec'[x].pc = "publish"
      BY <1>1
    <3> QED BY <1>0, <1>2, <2>2, <3>1, <3>2, <3>3 DEF OnceFor, Excused
  <2> QED BY <2>1, <2>2
<1> QED BY <1>2 DEF Once

\* The entries of a schedule while calls do not overlap: its job, and no other.
LEMMA OneEntry ==
  ASSUME Matched, serial, svc.pc # "stopped", NEW s \in Schedules, ~Adding(s),
         NEW n \in entries, n.s = s
  PROVE  activeJobs[s] = n.id
BY DEF Matched, EntriesMatchJobs, Owned, HasId, Adding

\* The cron engine and the poll loop.
LEMMA StartersOnce ==
  ASSUME SchedType, Matched, Once, PollStep \/ CronStep
  PROVE  Once'
<1>0. /\ Phases /\ Owned /\ (\A n \in entries : n \in Entry)
      /\ poll \in [pc : {"none", "idle", "scan", "done"}, todo : SUBSET Schedules]
      /\ runs \in [Schedules -> Nat] /\ clock \in [Schedules -> Nat]
      /\ \A t \in Schedules : rows[t].next \in Nat
  BY DEF Matched, SchedType, EngineType, ServiceType, TableType
<1>1. CASE PollReads
  <2>1. /\ UNCHANGED <<rows, clock, entries, exec, serial>> /\ poll'.todo = DueList
        /\ \A t \in Schedules : runs'[t] = IF t \in DueList /\ Running(t) # {} THEN Excused ELSE runs[t]
    BY <1>1 DEF PollReads, Excuse, dbVars, cronVars
  <2>2. ASSUME NEW t \in Schedules, runs'[t] # Excused PROVE OnceFor(t)'
    <3>1. OnceFor(t) /\ runs'[t] = runs[t] /\ (t \in DueList => Running(t) = {})
      BY <2>1, <2>2 DEF Once
    <3>2. Running(t)' = Running(t)
      BY <2>1 DEF Running
    <3>3. t \in DueList => runs[t] = 0
      BY <1>0, <3>1 DEF OnceFor, DueList, Due
    <3> QED BY <2>1, <3>1, <3>2, <3>3 DEF OnceFor
  <2> QED BY <2>2 DEF Once
<1>2. CASE PollEnds
  <2>1. UNCHANGED <<rows, clock, entries, exec, runs, serial>> /\ poll'.todo = poll.todo
    BY <1>0, <1>2 DEF PollEnds, dbVars, cronVars, histVars
  <2> QED BY <2>1, OnceStays DEF Once, Untouched
<1>3. ASSUME NEW s \in Schedules, PollStarts(s) PROVE Once'
  <2>1. /\ UNCHANGED <<rows, clock, entries, activeJobs, svc, serial>>
        /\ poll'.todo = poll.todo \ {s} /\ s \in poll.todo /\ svc.pc # "stopped"
    BY <1>0, <1>3 DEF PollStarts, dbVars, cronVars, Phases
  <2>2. CASE UNCHANGED <<exec, runs>>
    BY <2>1, <2>2, OnceStays DEF Once, Untouched
  <2>3. CASE activeJobs[s] = 0 /\ Spawn(s, Running(s) # {} \/ Adding(s))
    <3>1. PICK x \in Slots : Spawns(x, s)
      BY <2>3, SpawnIs
    <3>2. runs' = [t \in Schedules |-> IF (Running(s) # {} \/ Adding(s)) /\ t = s THEN Excused ELSE runs[t]]
      BY <2>3, SpawnIs
    <3>3. \A t \in Schedules : t # s => runs'[t] = runs[t]
      BY <3>2
    <3>4. ASSUME runs'[s] # Excused
          PROVE  /\ runs'[s] = runs[s] /\ runs[s] = 0
                 /\ Running(s) = {} /\ s \notin poll'.todo
                 /\ \A n \in entries' : n.s = s => ~n.due
      <4>1. runs'[s] = runs[s] /\ Running(s) = {} /\ ~Adding(s)
        BY <3>2, <3>4
      <4>2. serial /\ runs[s] = 0
        BY <2>1, <3>4, <4>1 DEF Once, OnceFor
      <4>3. \A n \in entries : n.s = s => FALSE
        BY <1>0, <2>1, <2>3, <4>1, <4>2, OneEntry DEF Entry
      <4> QED BY <2>1, <4>1, <4>2, <4>3
    <3> QED BY <2>1, <3>1, <3>3, <3>4, SpawnOnce
  <2> QED BY <1>3, <2>2, <2>3 DEF PollStarts, PollSkips
<1>4. ASSUME NEW n \in entries, CronFires(n) PROVE Once'
  <2> DEFINE m == [n EXCEPT !.due = FALSE]
  <2>1. /\ UNCHANGED <<rows, clock, activeJobs, svc, poll, serial>>
        /\ n.due /\ svc.pc # "stopped" /\ n.s \in Schedules
    BY <1>0, <1>4 DEF CronFires, dbVars, Phases, Entry
  <2>2. entries' = (entries \ {n}) \cup {m} /\ ~m.due /\ m.s = n.s
    BY <1>0, <1>4 DEF CronFires, Entry
  <2> HIDE DEF m
  <2>3. CASE UNCHANGED <<exec, runs>>
    BY <2>1, <2>2, <2>3, OnceStays DEF Once, Untouched
  <2>4. CASE Spawn(n.s, Overlaps(n.s))
    <3>1. PICK x \in Slots : Spawns(x, n.s)
      BY <2>1, <2>4, SpawnIs
    <3>2. runs' = [t \in Schedules |-> IF Overlaps(n.s) /\ t = n.s THEN Excused ELSE runs[t]]
      BY <2>1, <2>4, SpawnIs
    <3>3. \A t \in Schedules : t # n.s => runs'[t] = runs[t]
      BY <3>2
    <3>4. ASSUME runs'[n.s] # Excused
          PROVE  /\ runs'[n.s] = runs[n.s] /\ runs[n.s] = 0
                 /\ Running(n.s) = {} /\ n.s \notin poll'.todo
                 /\ \A k \in entries' : k.s = n.s => ~k.due
      <4>1. runs'[n.s] = runs[n.s] /\ Running(n.s) = {} /\ ~Adding(n.s) /\ n.s \notin poll'.todo
        BY <2>1, <3>2, <3>4 DEF Overlaps
      <4>2. serial /\ runs[n.s] = 0
        BY <2>1, <3>4, <4>1 DEF Once, OnceFor
      <4>3. \A k \in entries : k.s = n.s => k = n
        BY <1>0, <2>1, <4>1, <4>2, OneEntry DEF Owned
      <4> QED BY <2>1, <2>2, <4>1, <4>2, <4>3
    <3>5. \A k \in entries' : k.due => k \in entries
      BY <2>2
    <3> QED BY <2>1, <3>1, <3>3, <3>4, <3>5, SpawnOnce
  <2> QED BY <1>4, <2>3, <2>4 DEF CronFires
<1> QED BY <1>1, <1>2, <1>3, <1>4 DEF PollStep, CronStep

\* An execution publishes, or stores the next run.
LEMMA ExecOnce ==
  ASSUME SchedType, Once, NEW x \in Slots, ExecStep(x)
  PROVE  Once'
<1>0. /\ runs \in [Schedules -> Nat] /\ clock \in [Schedules -> Nat]
      /\ exec \in [Slots -> ExecRec] /\ exec[x].s \in Schedules /\ exec[x] \in ExecRec
      /\ rows \in [Schedules -> [enabled : BOOLEAN, five : BOOLEAN, next : Nat]]
  BY DEF SchedType, ExecType, TableType, ExecStep, Publish, StoreRun
<1> PICK s \in Schedules : s = exec[x].s
  BY <1>0
<1>1. UNCHANGED <<clock, entries, poll, serial>>
  BY DEF ExecStep, Publish, StoreRun, dbVars, cronVars
<1>2. ASSUME NEW t \in Schedules, t # s, runs'[t] # Excused PROVE OnceFor(t)'
  <2>1. \A y \in Slots : y # x => exec'[y] = exec[y]
    BY <1>0 DEF ExecStep, Publish, StoreRun
  <2>2. exec'[x].s # t
    BY <1>0, <1>2, ScheduleAssumption DEF ExecStep, Publish, StoreRun, Rest, None, ExecRec
  <2>3. runs'[t] = runs[t]
    BY <1>0, <1>2 DEF ExecStep, Publish, StoreRun, Excuse, Dispatched
  <2>4. rows'[t].next = rows[t].next
    <3>1. rows' = rows \/ rows' = [rows EXCEPT ![s].next = exec[x].at]
      BY DEF ExecStep, Publish, StoreRun, dbVars
    <3> QED BY <1>0, <1>2, <3>1
  <2>5. Untouched(t)
    BY <1>1, <1>2, <2>1, <2>2, <2>3, <2>4 DEF Untouched
  <2> QED BY <1>2, <2>5, OnceStays
<1>3. ASSUME runs'[s] # Excused PROVE OnceFor(s)'
  <2>1. CASE Publish(x) /\ Dispatched(x) /\ exec' = [exec EXCEPT ![x].pc = "store", ![x].at = NextRun(s)]
    <3>1. exec[x].pc = "publish" /\ UNCHANGED rows
      BY <2>1 DEF Publish, dbVars
    <3>2. runs[s] # Excused
      BY <1>0, <1>3, <2>1 DEF Dispatched, Excused
    <3>3. OnceFor(s) /\ x \in Running(s)
      BY <1>0, <3>2 DEF Once, Running
    <3>4. exec'[x].pc = "store" /\ exec'[x].at = clock[s] + 1 /\ exec'[x].s = s
      BY <1>0, <2>1 DEF NextRun, ExecRec
    <3>5. \A y \in Slots : exec'[y].s = exec[y].s
      BY <1>0, <2>1 DEF ExecRec
    <3>6. Running(s)' = {x} /\ Running(s) = {x}
      BY <1>0, <3>3, <3>4, <3>5 DEF Running, OnceFor
    <3>7. runs'[s] \in {0, 1} /\ (runs'[s] = 1 => \A n \in entries : n.s = s => ~n.due)
      <4>1. CASE exec[x].at = clock[s]
        BY <1>0, <2>1, <3>1, <3>3, <4>1 DEF Dispatched, OnceFor
      <4>2. CASE exec[x].at # clock[s]
        BY <1>0, <2>1, <3>1, <3>3, <4>2 DEF Dispatched, OnceFor
      <4> QED BY <4>1, <4>2
    <3>8. s \notin poll'.todo /\ serial'
      BY <1>1, <3>3 DEF OnceFor
    <3> QED BY <1>0, <1>1, <3>1, <3>4, <3>6, <3>7, <3>8 DEF OnceFor
  <2>2. CASE exec' = [exec EXCEPT ![x] = Rest]
    <3>1. runs'[s] = runs[s] /\ runs[s] # Excused
      BY <1>0, <1>3, <2>2 DEF ExecStep, Publish, StoreRun, Excuse, Dispatched, Rest, ExecRec
    <3>2. OnceFor(s) /\ x \in Running(s)
      BY <1>0, <3>1 DEF Once, Running
    <3>3. Running(s)' = {}
      BY <1>0, <2>2, <3>2, ScheduleAssumption DEF Running, OnceFor, Rest, None
    <3>4. runs[s] = 1 => rows'[s].next > clock[s]
      <4>1. CASE Publish(x)
        BY <3>2, <4>1 DEF Publish, OnceFor
      <4>2. CASE StoreRun(x)
        <5>1. rows' = [rows EXCEPT ![s].next = exec[x].at]
          BY <1>0, <1>3, <4>2 DEF StoreRun, Excuse
        <5>2. rows'[s].next = exec[x].at
          BY <1>0, <5>1 DEF SchedType, TableType
        <5> QED BY <3>2, <5>2 DEF OnceFor
      <4> QED BY <4>1, <4>2 DEF ExecStep
    <3> QED BY <1>1, <3>1, <3>2, <3>3, <3>4 DEF OnceFor
  <2> QED BY <2>1, <2>2 DEF ExecStep, Publish, StoreRun
<1> QED BY <1>0, <1>2, <1>3 DEF Once

\* A new occurrence of s: no dispatch of it so far.
LEMMA TickOnce ==
  ASSUME SchedType, Once, NEW s \in Schedules, Tick(s)
  PROVE  Once'
<1>0. /\ runs \in [Schedules -> Nat] /\ clock \in [Schedules -> Nat] /\ exec \in [Slots -> ExecRec]
      /\ \A n \in entries : n \in Entry
  BY DEF SchedType, ExecType, TableType, EngineType
<1>1. /\ UNCHANGED <<rows, poll, exec, serial>> /\ clock' = [clock EXCEPT ![s] = @ + 1]
      /\ runs' = [runs EXCEPT ![s] = IF @ = Excused THEN @ ELSE 0]
  BY DEF Tick
<1>2. Running(s)' = Running(s)
  BY <1>1 DEF Running
<1>3. ASSUME NEW t \in Schedules, t # s, runs'[t] # Excused PROVE OnceFor(t)'
  <2>1. \A n \in entries' : n.s = t => n \in entries
    <3> DEFINE f(n) == IF n.s = s THEN [n EXCEPT !.due = cronOn] ELSE n
    <3>1. entries' = {f(n) : n \in entries}
      BY DEF Tick
    <3>2. \A n \in entries : f(n).s = n.s /\ (n.s # s => f(n) = n)
      BY <1>0 DEF Entry
    <3> HIDE DEF f
    <3> QED BY <1>3, <3>1, <3>2
  <2>2. /\ OnceFor(t) /\ runs'[t] = runs[t] /\ clock'[t] = clock[t]
        /\ Running(t)' = Running(t)
    BY <1>0, <1>1, <1>3 DEF Once, Running
  <2> QED BY <1>1, <2>1, <2>2 DEF OnceFor
<1>4. ASSUME runs'[s] # Excused PROVE OnceFor(s)'
  <2>1. runs'[s] = 0 /\ OnceFor(s) /\ clock'[s] = clock[s] + 1 /\ clock[s] \in Nat
    BY <1>0, <1>1, <1>4 DEF Once
  <2>2. \A x \in Running(s) : exec[x].at \in Nat
    BY <1>0 DEF Running, ExecRec
  <2> QED BY <1>1, <1>2, <2>1, <2>2 DEF OnceFor
<1> QED BY <1>3, <1>4 DEF Once

\* No schedule that is not excused is dispatched twice.
LEMMA OnceKept ==
  ASSUME SchedType, Matched, Once, Next
  PROVE  Once'
<1>0. /\ runs \in [Schedules -> Nat] /\ clock \in [Schedules -> Nat]
      /\ rows \in [Schedules -> [enabled : BOOLEAN, five : BOOLEAN, next : Nat]]
      /\ svc.todo \subseteq Schedules
  BY DEF SchedType, TableType, ServiceType
<1>1. ASSUME \A t \in Schedules : Untouched(t) PROVE Once'
  BY <1>1, OnceStays DEF Once
<1>2. ASSUME NEW c \in Callers, CallStep(c) PROVE Once'
  <2>1. UNCHANGED <<rows, clock, poll, exec, runs, serial>>
    BY <1>2, CallStepIs
  <2>2. \A n \in entries' : n.due => n \in entries
    <3>1. PICK r \in CallRec : Finds(c, r) \/ Adds(c, r) \/ Notes(c, r) \/ Drops(c, r) \/ Forgets(c, r)
      BY <1>2, CallStepIs
    <3> QED BY <3>1 DEF Finds, Adds, Notes, Drops, Forgets
  <2> QED BY <1>1, <2>1, <2>2 DEF Untouched
<1>3. ASSUME NEW c \in Callers, NEW r \in CallRec, Admits(c, r),
             UNCHANGED <<rows, clock, poll, exec>>, entries' \subseteq entries
      PROVE  Once'
  <2>1. ASSUME NEW t \in Schedules, runs'[t] # Excused PROVE runs'[t] = runs[t] /\ serial'
    BY <1>0, <1>3, <2>1 DEF Admits
  <2> QED BY <1>1, <1>3, <2>1 DEF Untouched
<1>4. CASE \E s \in Schedules : AddJob(s) \/ RemoveJob(s) \/ UpdateJob(s)
  <2>1. PICK c \in Callers, r \in CallRec : Admits(c, r)
    BY <1>4, EnterIs
  <2>2. UNCHANGED <<rows, clock, poll, exec>> /\ entries' \subseteq entries
    BY <1>4, EnterIs
  <2> QED BY <1>3, <2>1, <2>2
<1>5. CASE ReloadJobs
  <2>1. PICK c \in Callers, r \in CallRec : Admits(c, r)
    BY <1>5, ReloadIs
  <2>2. UNCHANGED <<rows, clock, poll, exec>> /\ entries' \subseteq entries
    BY <1>5, ReloadIs
  <2> QED BY <1>3, <2>1, <2>2
<1>6. CASE Started \/ StopReturns \/ Stop \/ \E s \in Schedules : LoadJob(s)
  <2>1. UNCHANGED <<rows, clock, exec, runs, serial>>
    BY <1>6 DEF Started, StopReturns, Stop, LoadJob, dbVars, histVars
  <2>2. poll'.todo = poll.todo
    BY <1>6 DEF Started, StopReturns, Stop, LoadJob, SchedType, ServiceType
  <2>3. \A n \in entries' : n.due => n \in entries
    BY <1>6 DEF Started, StopReturns, Stop, LoadJob, AddFunc, cronVars
  <2> QED BY <1>1, <2>1, <2>2, <2>3 DEF Untouched
<1>7. CASE Start
  <2>1. UNCHANGED <<clock, entries, poll, exec, runs, serial>>
    BY <1>7 DEF Start, cronVars, histVars
  <2>2. ASSUME NEW t \in Schedules
        PROVE  rows'[t].next = rows[t].next \/ rows'[t].next > clock[t]
    <3>1. PICK policy \in Policies, missed \in [Schedules -> BOOLEAN], reached \in BOOLEAN :
            rows' = IF reached THEN [s \in Schedules |-> Recovered(s, policy, missed[s])] ELSE rows
      BY <1>7 DEF Start
    <3>2. rows'[t] = rows[t] \/ rows'[t] = [rows[t] EXCEPT !.next = NextRun(t)]
      BY <3>1 DEF Recovered
    <3> QED BY <1>0, <3>2 DEF NextRun
  <2> QED BY <1>1, <2>1, <2>2 DEF Untouched
<1>8. ASSUME NEW s \in Schedules, ToggleEnabled(s) PROVE Once'
  <2>1. UNCHANGED <<clock, entries, poll, exec, runs, serial>>
    BY <1>8 DEF ToggleEnabled, cronVars
  <2>2. ASSUME NEW t \in Schedules PROVE rows'[t].next = rows[t].next
    BY <1>0, <1>8 DEF ToggleEnabled
  <2> QED BY <1>1, <2>1, <2>2 DEF Untouched
<1> QED BY <1>2, <1>4, <1>5, <1>6, <1>7, <1>8, ExecOnce, TickOnce, StartersOnce
        DEF Next, SvcStep

\* The inductive invariant of the service.  Only Matched and Once are of interest
\* in themselves; they need each other's and the types' company to be inductive.
ServiceInv == SchedType /\ Matched /\ Once

\* It holds at first and is kept by every step of the service, and by every step
\* of the DAG scheduler, which shares nothing with it.
LEMMA ServiceInvariant == MCSpec => []ServiceInv
<1>1. Init => ServiceInv
  <2> SUFFICES ASSUME Init PROVE ServiceInv
    OBVIOUS
  <2> USE ScheduleAssumption DEF Init, None
  <2>1. TableType
    <3>1. {[enabled |-> TRUE, five |-> b, next |-> 0] : b \in BOOLEAN}
            \subseteq [enabled : BOOLEAN, five : BOOLEAN, next : Nat]
      <4> SUFFICES ASSUME NEW b \in BOOLEAN
                   PROVE  [enabled |-> TRUE, five |-> b, next |-> 0]
                            \in [enabled : BOOLEAN, five : BOOLEAN, next : Nat]
        BY Zenon
      <4> QED BY TRUE \in BOOLEAN, 0 \in Nat
    <3>2. rows \in [Schedules -> [enabled : BOOLEAN, five : BOOLEAN, next : Nat]]
      <4> HIDE DEF None
      <4> QED BY <3>1
    <3> QED BY <3>2 DEF TableType
  <2>8. EngineType /\ ServiceType
    BY DEF EngineType, ServiceType
  <2>2. CallType
    BY DEF CallType, CallRec, Idle
  <2>3. ExecType
    BY DEF ExecType, ExecRec, Rest
  <2>4. \A c \in Callers : thr[c].pc = "idle"
    BY DEF Idle
  <2>5. Phases /\ Owned /\ Pending /\ Alone /\ EntriesMatchJobs
    BY <2>4 DEF Phases, Owned, Pending, Alone, EntriesMatchJobs, HasId
  <2>6. \A s \in Schedules : Running(s) = {}
    BY DEF Running, Rest
  <2>7. Once
    BY <2>6 DEF Once, OnceFor
  <2> QED BY <2>1, <2>2, <2>3, <2>5, <2>7, <2>8 DEF ServiceInv, SchedType, Matched
<1>2. ServiceInv /\ [MCNext]_<<half, vars, dagVars>> => ServiceInv'
  <2> SUFFICES ASSUME ServiceInv, [MCNext]_<<half, vars, dagVars>> PROVE ServiceInv'
    OBVIOUS
  <2>1. CASE Next
    BY <2>1, SchedTypeKept, MatchedKept, OnceKept DEF ServiceInv
  <2>2. CASE UNCHANGED vars
    <3>1. UNCHANGED <<rows, clock, entries, cronOn, nextId, activeJobs, svc, poll, thr, exec, calls, runs, serial>>
      BY <2>2 DEF vars, dbVars, cronVars, histVars
    <3>2. SchedType'
      BY <3>1 DEF ServiceInv, SchedType, TableType, EngineType, ServiceType, CallType, ExecType
    <3>3. Matched'
      BY <3>1 DEF ServiceInv, Matched, Phases, Owned, Pending, Alone, EntriesMatchJobs, HasId, Live
    <3>4. Once'
      BY <3>1 DEF ServiceInv, Once, OnceFor, Running
    <3> QED BY <3>2, <3>3, <3>4 DEF ServiceInv
  <2> QED BY <2>1, <2>2 DEF MCNext
<1> QED BY <1>1, <1>2, PTL DEF MCSpec, MCInit

\* RemoveJob's three locks and AddJob's two steps leave no managed schedule without
\* its entry, except on the way through RemoveJob; and, while calls do not overlap
\* and add nothing twice, no entry that nobody manages (service.go:144-184).
THEOREM EntriesAndJobsAgree == MCSpec => []EntriesMatchJobs
<1>1. ServiceInv => EntriesMatchJobs
  BY DEF ServiceInv, Matched
<1> QED BY <1>1, ServiceInvariant, PTL

\* The cron engine and the poll loop together dispatch a schedule at most once per
\* occurrence, overlaps, overlapping calls and half failures excepted
\* (service.go:270-360).
THEOREM DispatchedOnce == MCSpec => []OneDispatchPerOccurrence
<1>1. ServiceInv => OneDispatchPerOccurrence
  BY DEF ServiceInv, Once, OnceFor, OneDispatchPerOccurrence, Excused
<1> QED BY <1>1, ServiceInvariant, PTL

=============================================================================
