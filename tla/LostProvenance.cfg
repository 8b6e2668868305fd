SPECIFICATION FairSpec
CONSTANTS
    Jobs = {w1}
    Scopes = {sc1}
    Default = sc1
    Runs = {i1, i2}
    Candidates = {c1, c2, c3}
    Total = 1
    Malformed = {}
    PageSize = 1
    MaxPages = 1
    MaxRecords = 2
    MaxFailed = 1
    MaxDuration = 1
    Lease = 2
    Operations = {"scheduled"}
    Settings <- NoSettings
    MaxVersion = 0
    MaxFaults = 1
    NameOf <- SameName
    Faultless = {}
    None = None
PROPERTIES RepeatsArrive
