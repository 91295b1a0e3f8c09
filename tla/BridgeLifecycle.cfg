CONSTANT MaxCalls = 3
SPECIFICATION FairSpec
INVARIANTS NoOrphanProcess CleanExit FailedExit
PROPERTIES Returns
