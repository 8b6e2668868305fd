SPECIFICATION MCSpec
CONSTANTS
    n1 = n1  n2 = n2  h1 = h1  h2 = h2  u1 = u1  u2 = u2  k1 = k1  k2 = k2  t1 = t1  t2 = t2  l1 = l1  w1 = w1  w2 = w2
    c1 = c1  c2 = c2  p1 = p1  p2 = p2  x1 = x1  x2 = x2  q1 = q1  s1 = s1  a1 = a1
    None = None  Gone = Gone  Unreadable = Unreadable
    Files <- TwoFiles
    Forms <- SomeForms
    Selections <- SomeSelections
    Commits = {k1, k2}
    Singles = {t1, t2}
    Legacy <- OldRow
    Evidence <- Known
    Workloads <- Loads
    MaxItems = 2
    Calls = {w1, w2}
    Creators = {c1, c2}
    Profiles = {p1, p2}
    Bodies <- SomeBodies
    Requests = {q1}
    Sources = {s1}
    Aliases = {a1}
    AliasNames = {"a"}
    Callers = {w1, w2}
    Groups <- SomeGroups
    Nothing = None
    MaxRows = 2
    Importers = {w1, w2}
    Names = {n1}
    Keys = {h1}
    Trips <- SomeTrips
    Nobody = None
SYMMETRY Symmetry
INVARIANTS
    AllTypesOK
    OneActivePerContent
    NoneBlind
    DraftsBounded
    OnePrimary
    CriticalByApproval
    SourceOwned
    PreviewHolds
    AskedOnce
    ErrorsTold
PROPERTIES
    CommitContract
    ApprovedAsSeen
CHECK_DEADLOCK FALSE
