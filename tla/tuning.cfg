CONSTANTS
    e1 = e1
    e2 = e2
    eBad = eBad
    t1 = t1
    t2 = t2
    tBad = tBad
    a1 = a1
    None = None
    Endpoints = {e1, e2, eBad}
    ValidEndpoints = {e1, e2}
    ModuleTexts = {t1, t2, tBad}
    Addresses = {a1}
    AddressOf <- TheAddresses
    Devices <- TheDevices
    Entries = {r1, r2}
    EditInputs <- TheEdits
    MaxCommands = 6
    MaxQueue = 1
    MaxMvme = 1
    MaxFaults = 1
    QuadCount = 2
    MaxValue = 1
    BankValues = {v0, v1}
    NoRecord = NoRecord
    ForeignRecord = ForeignRecord
    MaxFailures = 2
    MaxDrift = 2
    MaxLines = 4
    MaxScripts = 2
    Untouched = Untouched
    Ids = {a, b, c}
    OtherIds = {a}
    MaxAttempts = 2
    MaxEvents = 2
    MaxModules = 2
    Versions = {2, 3}
SPECIFICATION Spec
INVARIANTS
    SessionIsVerified
    PreparationIsJournaled
    PagesAreSafe
    WorkspaceIsRead
    WorkspaceKeepsMeaning
PROPERTIES
    OnlyVerifiedIsSaved
CHECK_DEADLOCK FALSE
