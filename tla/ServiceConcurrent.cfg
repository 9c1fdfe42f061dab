CONSTANTS
    j1 = j1
    t1 = t1
    t2 = t2
    Job = {j1}
    Thread = {t1, t2}
    Requests = {"create", "run", "run_async", "pause", "resume", "cancel", "event", "reset"}
    EngineEnds = {"completed", "failed", "cancelled", "raised"}
SYMMETRY Symmetry
SPECIFICATION Spec
INVARIANTS TypeOK EngineOnlyAfterStart EnginesBounded
