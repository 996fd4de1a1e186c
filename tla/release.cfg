CONSTANTS
    MaxCommands = 3
SPECIFICATION LiveSpec
PROPERTIES
    ReleaseCompletes
CHECK_DEADLOCK FALSE
