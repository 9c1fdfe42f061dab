CONSTANTS
    d1 = d1
    d2 = d2
    d3 = d3
    d4 = d4
    Device = {d1, d2, d3, d4}
    RunArgs <- MCSmallCalls
    WorkerOutcomes = {"success", "failed"}
SPECIFICATION Spec
INVARIANT SummaryCoversTouched
