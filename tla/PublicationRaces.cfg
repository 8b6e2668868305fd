\* Two calculated drafts, published and withdrawn by racing calls.
SPECIFICATION Spec
CONSTANTS
    r1 = r1
    Admins = {a1, a2}
    Releases = {r1, r2, r3}
    Requests = {q1, q2}
    Calls = {w1, w2}
    Lifetime = 1
    MaxTime = 1
    MaxCalls = 6
    MaxEdits = 0
    StartReleases <- OneToCreate
    Operations = {"create", "request", "approve", "publish", "withdraw"}
    None = None
SYMMETRY Symmetry
PROPERTIES
    HistoryContract
\* When the budget of calls is used up, the Worker rests.
CHECK_DEADLOCK FALSE
