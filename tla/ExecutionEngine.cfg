CONSTANTS
    d1 = d1
    d2 = d2
    d3 = d3
    d4 = d4
    Device = {d1, d2, d3, d4}
    RunArgs <- MCCalls
    WorkerOutcomes = {"success", "failed", "raised"}
SPECIFICATION FairSpec
INVARIANTS TypeOK CanaryFirst ConcurrencyBound BlastRadius VerdictTruthful NothingLeftRunning StreamMatchesSummary CancelLag
PROPERTIES VerdictIsFinal ImplementsContract CancelEndsRun UnpausedRunEnds
