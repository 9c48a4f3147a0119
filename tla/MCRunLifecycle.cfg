SPECIFICATION FairSpec
CONSTANTS
    r1 = r1  r2 = r2
    c1 = c1  c2 = c2  c3 = c3  c4 = c4  c5 = c5  c6 = c6
    Runs <- MCRuns
    Started <- MCStarted
    Calls = {c1, c2, c3, c4, c5, c6}
    Scenarios <- MCScenarios
    Orphans = Orphans
    Reconcile = Reconcile
    None = None
INVARIANTS InputHasGate CompletedAsReported
PROPERTY CancelReachesRuns
CHECK_DEADLOCK FALSE
