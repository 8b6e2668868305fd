\* One PATCH that gives a critical handle to an ordinary creator.
SPECIFICATION Spec
CONSTANTS
    a1 = a1  a2 = a2  a3 = a3  c1 = c1  c2 = c2  h1 = h1  h2 = h2  n1 = n1  n2 = n2
    Admins = {a1, a2}
    SuperAdmins = {a1, a2}
    Creators = {c1, c2}
    Handles = {h1}
    Names = {n1}
    Requests = {r1}
    Calls = {w1}
    Lifetime = 1
    MaxTime = 2
    MaxCalls = 1
    NewRows = {}
    Patches <- JustHandOver
    Tiers = {}
    StartRows <- OneHardRow
    StartTiers <- MixedTiers
    None = None
    Keep = Keep
PROPERTIES
    CriticalChangesApproved
\* When the budget of calls is used up, the Worker rests.
CHECK_DEADLOCK FALSE
