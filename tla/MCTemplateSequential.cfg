CONSTANTS
    p1 = p1
    p2 = p2
    p3 = p3
    None = None
    Legs <- MCOneLeg
    Starter = p1
    Plan <- MCPlain
    Params = {"client"}
    Requires = {"variable", "credential"}
    Verdicts <- MCOneVerdict
    Overlap = FALSE
    MaxCrashes = 0
    MayTear = FALSE

SPECIFICATION Spec
CHECK_DEADLOCK FALSE

PROPERTY SameAsSequential
