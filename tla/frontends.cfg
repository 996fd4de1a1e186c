CONSTANTS
    Tampering = TRUE
    Streaming = TRUE
    MaxTunes = 1
    Requested = {"status", "session", "audit", "capture", "compare", "apply", "startup", "acquire", "recover"}
    Given = {"host", "project", "profile", "channel", "register", "quad", "save", "csv"}
    MaxWaiting = 1
    MaxCommands = 7
SPECIFICATION Spec
INVARIANTS
    CliLeavesTunerClean
    StagesOfferWhatWorks
    NoWriteOverJournal
    
CHECK_DEADLOCK FALSE
