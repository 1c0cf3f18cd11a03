CONSTANTS
    None = None
    Countries = {"DE", "CY", "IR"}
    Clients <- MCClients
    Interests <- MCInterests
    Holdings <- MCHoldings
    Lists <- MCLists
    Findings <- MCFindings
    Verdicts = {"approve"}
    MaxEdits = 1
    MaxProcesses = 3
    Hasty = {3}

SPECIFICATION Spec
CHECK_DEADLOCK FALSE

INVARIANT OutcomeIsWhatWasShown
INVARIANT RicherIsNotLower
PROPERTY RefusedHaveNoTier
PROPERTY MatchesAreDecided
