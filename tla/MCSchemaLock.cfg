CONSTANTS
    p1 = p1
    p2 = p2
    submission = submission
    review = review
    create = create
    amend = amend
    v1 = v1
    v2 = v2
    s1 = s1
    s2 = s2
    None = None
    Torn = Torn
    Procs <- MCProcs
    Names <- MCNames
    Operations = {create, amend}
    Documents = {v1, v2}
    Schemas = {s1, s2}
    SchemaOf <- MCSchemaOf
    MaxSyncs = 3
    MaxEdits = 1

SPECIFICATION Spec
SYMMETRY MCSymmetry

INVARIANT LockIsAtomic
INVARIANT EntriesAreTrue
INVARIANT SyncedIsTrue
PROPERTY EntriesSurvive
PROPERTY ResultIsLocked
