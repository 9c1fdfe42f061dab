CONSTANTS
    Calls <- MCCalls
    Attempts = 2
SPECIFICATION FairSpec
INVARIANTS TypeOK Released SuccessMeansDone ChangeIsReported
PROPERTIES CallReturns
CHECK_DEADLOCK FALSE
