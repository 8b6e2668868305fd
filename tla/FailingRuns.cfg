SPECIFICATION Spec
CONSTANTS
    Jobs = {w1}
    Scopes = {sc1}
    Default = sc1
    Runs = {i1, i2}
    Candidates = {c1, c2, c3}
    Total = 2
    Malformed = {1}
    PageSize = 1
    MaxPages = 2
    MaxRecords = 2
    MaxFailed = 1
    MaxDuration = 1
    Lease = 2
    Operations = {"scheduled", "preview", "force release", "review"}
    Settings <- NoSettings
    MaxVersion = 1
    MaxFaults = 1
    NameOf <- Renamed
    Faultless = {}
    None = None
SYMMETRY Symmetry
INVARIANTS NothingSkipped ChecksumNotAhead
