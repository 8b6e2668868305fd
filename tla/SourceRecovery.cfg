SPECIFICATION FairSpec
CONSTANTS
    Jobs = {w1}
    Scopes = {sc1}
    Default = sc1
    Runs = {i1, i2}
    Candidates = {c1, c2}
    Total = 3
    Malformed = {1, 3}
    PageSize = 2
    MaxPages = 2
    MaxRecords = 4
    MaxFailed = 1
    MaxDuration = 1
    Lease = 2
    Operations = {"scheduled", "configure"}
    Settings <- AnySettings
    MaxVersion = 0
    MaxFaults = 1
    NameOf <- SameName
    Faultless = {"save"}
    None = None
PROPERTIES EveryRecordArrives
