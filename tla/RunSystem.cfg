CONSTANTS
    j1 = j1
    t1 = t1
    d1 = d1
    d2 = d2
    d3 = d3
    Job = {j1}
    Thread = {t1}
    Requests = {"create", "run", "run_async", "pause", "resume", "cancel"}
    EngineEnds = {"completed", "failed", "cancelled", "raised"}
    Device = {d1, d2, d3}
    RunArgs <- MCCalls
    WorkerOutcomes = {"success", "failed", "raised"}
SPECIFICATION FairSystem
INVARIANTS StatusTruthful
PROPERTIES ImplementsService CancelStopsDevices PauseHolds RunEnds RunCloses
CHECK_DEADLOCK FALSE
