SPECIFICATION MCSpec
CONSTANTS
    Schedules = {s1}
    Callers = {c1, c2}
    Slots = {x1, x2}
    Policies = {"latest", "none"}
    MaxClock = 1
    MaxEntries = 2
    MaxCalls = 2
    DagIds = {i1, i2}
    DagSlots = {y1, y2}
    DagEdits = 1
INVARIANTS EntriesMatchJobs OneDispatchPerOccurrence StopCancelsRuns OnlyNewestPanics
PROPERTIES StopEnds
CHECK_DEADLOCK FALSE
