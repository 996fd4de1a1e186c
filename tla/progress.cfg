CONSTANTS
    Quads = {1}
    Words = {0, 1, 4, 5}
    Params = {0}
    NonTargets = {m1}
    MvmeSample = {}
    MvmeParam = {}
    Sources = {0, 1}
    PreviewValues = {}
    MaxCommands = 3
    BridgeMaximumPayloadSize = 2
    MaxRead = 3
    QueueCapacity = 1
    PipeCapacity = 3
    MaxRuns = 1
    MaxHits = 1
    MaxChanges = 1
    MaxPublishes = 1
    MaxTasks = 2
    e1 = e1
    eBad = eBad
    t1 = t1
    tBad = tBad
    a1 = a1
    None = None
    Tampering = TRUE
    Streaming = FALSE
    MaxTunes = 0
    Requested = {"acquire", "recover"}
    Given = {"project", "profile", "channel"}
SPECIFICATION Spec
PROPERTIES
    RecoveryCompletes
    CallsReturn
    FailuresAreNoticed
CHECK_DEADLOCK FALSE
