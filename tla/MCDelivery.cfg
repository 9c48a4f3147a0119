SPECIFICATION FairSpec
CONSTANTS
    c1 = c1  c2 = c2  e1 = e1
    Posts = {c1, c2}
    Event <- MCEvent
    After <- Redelivered
    Listeners <- MCListeners
    Triggers <- OnPosted
    Flows <- MCFlows
    Scheduled <- MCScheduled
    Ticks = {1, 2, 3}
    Situations <- Apart
    MaxMinute = 2
    MaxThrows = 1
    MaxCrashes = 1
    MaxDepth = 2
    FiredCap = 10000
    None = None
INVARIANTS StartedOnce AnswersAreTrue
PROPERTY PostIsAnswered
CHECK_DEADLOCK FALSE
