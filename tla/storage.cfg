CONSTANTS
    Processes = {p1, p2}
    MaxSaves = 3
    Torn = Torn
    None = None
    NoFile = NoFile
    MaximumAtomicJournalCollisions = 2
    MaximumTemporaryCollisions = 2
    Modules = {m1}
    Target = t0
    Damaged = Damaged
    val1 = val1
    val2 = val2
    val3 = val3
    s0 = s0
    s1 = s1
    s2 = s2
    Locations = {l1, l2}
    Identities = {id1, id2}
    TunerRecoveryV5MaximumDeviationCount = 3
    Inputs = {i1, i2}
    MaxFaults = 2
    one = one
    two = two
    three = three
SPECIFICATION Spec
INVARIANTS
    JournalSurvives
    RecordsAreExact
    AlwaysRestorable
    PreferencesAreWhole
    ExportsAreWhole
PROPERTIES
    IsAtomicJournal
    NoSilentReplacement
