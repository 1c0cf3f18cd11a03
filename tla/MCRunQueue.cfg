CONSTANTS
    w1 = w1
    w2 = w2
    priya = priya
    None = None
    RunIds = {1, 2}
    Workflows = {"alpha", "beta"}
    Workers <- MCWorkers
    Verdicts = {"approve"}
    Subjects <- MCSubjects
    Comments <- MCComments
    Gates <- MCGates
    LeaseSeconds = {2}
    RetentionAge = 0
    MaxClock = 10
    MaxDecisions = 1
    CanRun <- MCCanRun
    Outcomes = {"completed", "failed"}
    MaxFaults = 2
    MaxRenewals = 1

SPECIFICATION FairQueueSpec

INVARIANT HoldersExclusive
PROPERTY QueuedRunsAreExecuted
PROPERTY RefinesWorkQueue
PROPERTY LiveLeaseNotStolen
PROPERTY OldestIsServedFirst
