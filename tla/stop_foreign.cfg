CONSTANTS
    Quads = {1}
    Words = {0, 4}
    Params = {0, 1, 2}
    NonTargets = {}
    FoundSample <- MCFoundSample
    FoundParam <- MCFoundParam
    MvmeSample = {4}
    MvmeParam = {2}
    Sources = {}
    PreviewValues = {1}
SPECIFICATION Spec
INVARIANT
    StopSparesForeignRun
