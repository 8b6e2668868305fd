\* A calculation that outlives the draft.
SPECIFICATION Spec
CONSTANTS
    r1 = r1
    Admins = {a1, a2}
    Releases = {r1}
    Requests = {q1}
    Calls = {w1, w2}
    Lifetime = 1
    MaxTime = 2
    MaxCalls = 2
    MaxEdits = 1
    StartReleases <- Calculated
    Operations = {"calculate", "withdraw"}
    None = None
SYMMETRY Symmetry
PROPERTIES
    CalculatedWhileDraft
\* When the budget of calls is used up, the Worker rests.
CHECK_DEADLOCK FALSE
