\* Creations, renames, hand-overs, suspensions and tier changes, direct and approved,
\* by administrators of whom one may not approve.
SPECIFICATION Spec
CONSTANTS
    a1 = a1  a2 = a2  a3 = a3  c1 = c1  c2 = c2  h1 = h1  h2 = h2  n1 = n1  n2 = n2
    Admins = {a1, a2, a3}
    SuperAdmins = {a1, a2}
    Creators = {c1, c2}
    Handles = {h1, h2}
    Names = {n1, n2}
    Requests = {r1}
    Calls = {w1, w2}
    Lifetime = 1
    MaxTime = 1
    MaxCalls = 3
    NewRows <- Newcomers
    Patches <- AnyPatch
    Tiers = {"critical", Keep}
    StartRows <- OneSoftRow
    StartTiers <- MixedTiers
    None = None
    Keep = Keep
SYMMETRY Symmetry
INVARIANTS
    NameHasOneRow
PROPERTIES
    UnapprovedChangeExplained
\* When the budget of calls is used up, the Worker rests.
CHECK_DEADLOCK FALSE
