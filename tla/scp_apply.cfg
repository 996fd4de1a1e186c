CONSTANTS
    QuadCount = 2
    MaxValue = 1
    MaxFaults = 2
    MaxCommands = 4
    LiveBanks <- MCLiveBanks
    Profiles <- MCProfiles
SPECIFICATION Spec
INVARIANTS
    AppliedHolds
    RollbackIsSafe
    IntrusionIsBounded
    FreshIsLive
