CONSTANTS
    t1 = t1
    t2 = t2
    None = None
    Tasks <- MCTasks
    Dirs = {"here", "there"}
    Holdings <- MCHoldings
    Batches <- MCBatches
    Impls <- MCImpls
    NeedsOf <- MCNeedsOf

SPECIFICATION Spec
SYMMETRY MCSymmetry
CHECK_DEADLOCK FALSE

INVARIANT OwnImplementations
INVARIANT CheckedStepsResolve
 
