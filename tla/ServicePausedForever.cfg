CONSTANTS
    j1 = j1
    t1 = t1
    t2 = t2
    Job = {j1}
    Thread = {t1}
    Requests = {"create", "run", "run_async", "pause", "resume", "cancel"}
    EngineEnds = {"completed", "failed", "cancelled"}
SPECIFICATION Spec
INVARIANTS RunningMeansRun
