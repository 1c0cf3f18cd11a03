CONSTANTS
    None = None
    Calls <- MCCalls
    Backends = {"records"}
    Secured = {"records"}
    Retries = 2
    MaxBegins = 2

SPECIFICATION Spec
CHECK_DEADLOCK FALSE

INVARIANT PostsNotRepeated
INVARIANT SuccessIsCommitted
INVARIANT CallsAreProvided
PROPERTY CallsEnd
