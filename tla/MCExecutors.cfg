CONSTANTS
    Calls <- MCCalls
    Workers = {w1, w2}
    Kinds <- MCKinds
    Clients = {"queue", "mcp"}
SPECIFICATION Spec
SYMMETRY MCSymmetry
INVARIANTS SignalledTreeIsReaped EndedIsQuiet CarriedOutOnce
CHECK_DEADLOCK FALSE
