SPECIFICATION FairSpec
CONSTANTS
    p1 = p1
    p2 = p2
    c1 = c1
    c2 = c2
    c3 = c3
    c4 = c4
    c5 = c5
    b1 = b1
    Roster <- MCRoster
    Unhandled = {p1}
    Chair = "human"
    Calls = {c1, c2, c3, c4, c5}
    Request <- MCRequests
    Slots = 2
    Plans <- MCPlans
    Boots <- MCBoots
INVARIANTS TurnsInOrder  ReachableProcess
PROPERTY ClosedEndsStep
CHECK_DEADLOCK FALSE
