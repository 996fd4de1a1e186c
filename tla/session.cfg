CONSTANTS
    Quads = {1}
    Words = {0, 1, 4, 5, 8, 9}
    Params = {0, 1, 2}
    NonTargets = {m1}
    FoundSample <- MCFoundSample
    FoundParam <- MCFoundParam
    MvmeSample = {8}
    MvmeParam = {2}
    Sources = {0, 1}
    PreviewValues = {1}
SPECIFICATION Spec
INVARIANTS
    TypeOK
    SourceIsJournaled
    OrphanIsJournaled
    ChangesSpareForeignRun
    RunningIsRecoverable
    PublishedPreviewIsJournaled
    ChangesWhilePaused
PROPERTIES
    StopLeavesCrateClean
    RecoveryOverwritesItsOwn
