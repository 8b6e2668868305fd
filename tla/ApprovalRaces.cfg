\* Two requests on a protected handle of a critical creator, decided and expired by
\* racing calls, while direct writes change the row under them.
SPECIFICATION Spec
CONSTANTS
    a1 = a1  a2 = a2  a3 = a3  c1 = c1  c2 = c2  h1 = h1  h2 = h2  n1 = n1  n2 = n2
    Admins = {a1, a2, a3}
    SuperAdmins = {a1, a2, a3}
    Creators = {c1}
    Handles = {h1}
    Names = {n1}
    Requests = {r1, r2}
    Calls = {w1, w2}
    Lifetime = 1
    MaxTime = 2
    MaxCalls = 4
    NewRows = {}
    Patches <- HardenOrSuspend
    Tiers = {}
    StartRows <- OneSoftRow
    StartTiers <- CriticalTiers
    None = None
    Keep = Keep
SYMMETRY Symmetry
INVARIANTS
    TypeOK
    DecisionsMatchStatus
    OneWinnerPerRevision
    RevisionsIdentifyRows
PROPERTIES
    FourEyesContract
    AppliedFresh
\* When the budget of calls is used up, the Worker rests.
CHECK_DEADLOCK FALSE
