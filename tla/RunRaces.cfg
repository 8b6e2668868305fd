SPECIFICATION Spec
CONSTANTS
    Jobs = {w1, w2}
    Scopes = {sc1}
    Default = sc1
    Runs = {i1, i2}
    Candidates = {c1, c2}
    Total = 1
    Malformed = {}
    PageSize = 1
    MaxPages = 1
    MaxRecords = 1
    MaxFailed = 0
    MaxDuration = 1
    Lease = 2
    Operations = {"start", "review", "reset"}
    Settings <- NoSettings
    MaxVersion = 1
    MaxFaults = 0
    NameOf <- Renamed
    Faultless = {}
    None = None
SYMMETRY Symmetry
INVARIANTS TypeOK LeaseExclusive OneCandidatePerRecord
PROPERTIES DecidedCandidatesKept
