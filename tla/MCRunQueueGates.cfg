CONSTANTS
    w1 = w1
    w2 = w2
    priya = priya
    None = None
    RunIds = {1}
    Workflows = {"alpha", "beta"}
    Workers <- MCWorkers
    Verdicts = {"approve"}
    Subjects <- MCSubjects
    Comments <- MCComments
    Gates <- MCGates
    LeaseSeconds = {2}
    RetentionAge = 0
    MaxClock = 12
    MaxDecisions = 2
    CanRun <- MCCanRun
    Outcomes = {"completed", "awaiting_decision"}
    MaxFaults = 2
    MaxRenewals = 1

SPECIFICATION FairQueueSpec

INVARIANT LeaseCoversRunningWork
INVARIANT RepeatedOnlyWithCause

