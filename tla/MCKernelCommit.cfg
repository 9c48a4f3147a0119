SPECIFICATION Spec
CONSTANTS
    p1 = p1
    p2 = p2
    a1 = a1
    a2 = a2
    c1 = c1
    c2 = c2
    c3 = c3
    c4 = c4
    None = None
    Procs = {p1, p2}
    Aggs = {a1, a2}
    CmdIds = {c1, c2, c3, c4}
    States = {"open", "accepted", "rejected", "closed"}
    Events = {"accept", "reject"}
    InitialState = "open"
    Transitions <- MCTransitions
    Cmd <- MCCmd
    MaxSeq = 5
SYMMETRY Symmetry
INVARIANTS
    TypeOK
    JournalDense
    OneResultPerCommand
    SnapshotIsLastWon
PROPERTIES
    CommittedIsForever
    AggregateRefinement
CHECK_DEADLOCK FALSE
