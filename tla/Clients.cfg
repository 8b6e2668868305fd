SPECIFICATION MCSpec
CONSTANTS
    r1 = r1  r2 = r2  c1 = c1  c2 = c2  f1 = f1  f2 = f2  h1 = h1  h2 = h2  h3 = h3
    None = None
    Nothing = None
    Records = {r1, r2}
    Visits <- SomeVisits
    Files = {f1, f2}
    Unreadable = {f2}
    Ready = {1}
    Possible = {2}
    Handles = {h1, h2, h3}
    Invalid = {h3}
    Examples = {h2}
    MaxChecks = 4
    Values = {"a", "b", "unsupported"}
    Unsupported = {"unsupported"}
    MaxRows = 3
    MaxEdits = 5
    MaxSends = 2
    MaxTyped = 2
    MaxAsked = 2
    MaxSubmitted = 2
    MaxWrites = 2
    Errands <- SomeErrands
    Entries <- SomeEntries
    Critical = {c1}
    Registered = {}
    Creators = {c1, c2}
    Reservations <- SomeReservations
    Aliases <- OneAlias
SYMMETRY Symmetry
INVARIANTS
    PagesTypesOK
    ShownIsCurrent
    WaitingEnds
    OneAtATime
    AnswerIsLatest
    BatchOnce
    ErrorsOnTheirRows
    ReservationsPreviewed
    AnswerHolds
CHECK_DEADLOCK FALSE
