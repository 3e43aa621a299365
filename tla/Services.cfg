\* Two branches with two turns; one call of a source; two goroutines that ask once
\* each; a run that comes to one place of the shield.
CONSTANTS
    b1 = b1
    b2 = b2
    Services <- MCServices
    Branches = {b1, b2}
    MaxTurns = 2
    MaxCalls = 2
    MaxDeltas = 4
    Spaces <- MCSpaces
    ObjectSizes = {1, 2}
    MaxObject = 1
    MaxRotations = 1
    MaxUpdates = 1
    a1 = a1
    a2 = a2
    q1 = q1
    q2 = q2
    blank = blank
    Askers <- MCAskers
    Settings <- MCSettings
    QueryLists <- MCQueryLists
    Blank = blank
    MaxLines = 2
    MaxAsks = 2
    MaxHooks = 1
SPECIFICATION ServicesSpec
SYMMETRY ServicesSymmetry
INVARIANTS StreamAgrees ToolIdsMatch TextNotLost UsageCounted RetryIsFresh AnswersWhole ResultsAreTrue PassesOnlyPermitted
CHECK_DEADLOCK FALSE
