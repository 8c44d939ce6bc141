SPECIFICATION Spec
CONSTANTS
    Types = {"started", "completed"}
    Handlers = {h1}
    Events <- PublishedEvents
    BufferSize = 1
    MaxEdits = 2
    Runs = {r1, r2}
    Templates <- StageTemplates
    MaxStages = 2
    MaxAdded = 3
    MaxCalls = 5
INVARIANTS ValidIsAccepted
CHECK_DEADLOCK FALSE
