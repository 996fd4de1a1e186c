CONSTANTS
    Quads = {1}
    Words = {0, 4}
    Params = {0, 1}
    NonTargets = {}
    FoundSample <- MCFoundSample
    FoundParam <- MCFoundParam
    MvmeSample = {}
    MvmeParam = {}
    Sources = {}
    PreviewValues = {1}
SPECIFICATION Spec
INVARIANT
    PreviewIsJournaled
