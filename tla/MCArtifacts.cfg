SPECIFICATION FairSpec
CONSTANTS
    c1 = c1
    c2 = c2
    c3 = c3
    c4 = c4
    c5 = c5
    c6 = c6
    k1 = k1
    k2 = k2
    x = x
    y = y
    Intents = {1, 2}
    Files <- MCFiles
    Transfers = {1, 2, 3}
    Keys = {k1, k2}
    Contents = {x, y}
    Calls = {c1, c2, c3, c4, c5, c6}
    Plans <- MCPlans
INVARIANTS AcceptedIsHeld ReservationsBounded  ReadersSeeWhole
PROPERTY ReservationsReleased
CHECK_DEADLOCK FALSE
