SPECIFICATION Spec
CONSTANTS
    c1 = c1
    c2 = c2
    c3 = c3
    c4 = c4
    c5 = c5
    a1 = a1
    r1 = r1
    None = None
    Rec = Rec
    Calls = {c1, c2, c3, c4, c5}
    Aggs = {a1}
    Reactions = {r1}
    Types = {"moved", "approved"}
    Filter <- MCFilter
    Cmd <- SharedTail
    After <- CleanUpLast
    Slots = 2
    MaxCrashes = 1
    MaxThrows = 1
INVARIANTS
    AckedIsFannedOut

    
CHECK_DEADLOCK FALSE
