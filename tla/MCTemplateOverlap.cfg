CONSTANTS
    p1 = p1
    p2 = p2
    p3 = p3
    None = None
    Legs <- MCThreeLegs
    Starter = p1
    Plan <- MCTwoGates
    Params = {"client"}
    Requires = {}
    Verdicts <- MCOneVerdict
    Overlap = TRUE
    MaxCrashes = 0
    MayTear = FALSE

SPECIFICATION Spec
SYMMETRY MCSymmetry
CHECK_DEADLOCK FALSE

INVARIANT OneDecisionOpensOneGate
