\* Calculations racing a request, its decision, its expiry and the publication.
SPECIFICATION Spec
CONSTANTS
    r1 = r1
    Admins = {a1, a2}
    Releases = {r1}
    Requests = {q1}
    Calls = {w1, w2}
    Lifetime = 1
    MaxTime = 2
    MaxCalls = 4
    MaxEdits = 1
    StartReleases <- Calculated
    Operations = {"calculate", "request", "approve", "publish", "approve by id", "reject", "expire"}
    None = None
SYMMETRY Symmetry
INVARIANTS
    TypeOK
    PublishedAsApproved
PROPERTIES FourEyesContract
\* When the budget of calls is used up, the Worker rests.
CHECK_DEADLOCK FALSE
