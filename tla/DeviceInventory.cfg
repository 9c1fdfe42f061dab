CONSTANTS
    Imports <- MCImports
    Csv <- MCCsv
    Runs <- MCRuns
    Request <- MCRequest
    Workers = 2
SPECIFICATION FairSpec
INVARIANTS TypeOK AllOrNothing StreamTruthful PlanFitsEngine
PROPERTIES ImportEnds
CHECK_DEADLOCK FALSE
