CONSTANTS
    Quads = {1}
    Words = {0, 1, 4, 5}
    Params = {0}
    NonTargets = {}
    FoundSample <- MCFoundSample
    FoundParam <- MCFoundParam
    MvmeSample = {}
    MvmeParam = {}
    Sources = {0, 1}
    PreviewValues = {}
SPECIFICATION Spec
INVARIANT
    OwnPauseIsNotForeign
