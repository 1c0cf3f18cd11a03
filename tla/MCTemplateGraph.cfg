CONSTANTS
    p1 = p1
    p2 = p2
    p3 = p3
    None = None
    Legs <- MCTwoLegs
    Starter = p1
    Plan <- MCGated
    Params = {"client"}
    Requires = {"credential"}
    Verdicts <- MCOneVerdict
    Overlap = FALSE
    MaxCrashes = 1
    MayTear = TRUE

SPECIFICATION FairSpec
CHECK_DEADLOCK FALSE

INVARIANT GatesHold
INVARIANT JudgesGuard
INVARIANT StartedThenOne
INVARIANT NotesKeptOnce
INVARIANT ListedStatusIsTrue
PROPERTY CheckpointedNotRepeated
PROPERTY DecisionsOpenTheirGate
