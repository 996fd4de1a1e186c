CONSTANTS
    Values = {v0, v1}
    NoValue = NoValue
    MvlcTransactionAttemptCount = 2
    MvlcMaximumResponseDatagrams = 3
    MaxOperations = 3
    MaxAccesses = 2
    MaxAddresses = 2
    MaxOpens = 3
    MaxSends = 2
    BridgeMaximumPayloadSize = 2
    MaxRead = 3
    QueueCapacity = 1
    PipeCapacity = 4
    Free = Free
    Inherited = Inherited
    Modulus = 4
    PacketWords = 4
    HistoryCapacity = 2
    MaxFaults = 2
    MaxRuns = 2
    MaxHits = 2
    MaxChanges = 1
    MaxPublishes = 1
    MaxTasks = 2
SPECIFICATION Spec
INVARIANTS
    AnswersAreOwn
    BridgeDelivers
    BridgeLeavesNothing
    WaveformsAreWhole
    ShownIsCurrent
PROPERTIES
    IsRegisterAccess
CHECK_DEADLOCK FALSE
