\* Two overlapping processes, a migrated and a new item, a path restore refuses;
\* processes may end early twice.
SPECIFICATION Spec
CONSTANTS
    p1 = p1
    p2 = p2
    path1 = path1
    path2 = path2
    c1 = c1
    c2 = c2
    c3 = c3
    legacy = legacy
    Procs = {p1, p2}
    Ids = {legacy, id1}
    Paths = {path1, path2}
    Contents = {c1, c2, c3}
    Sizes <- MCSizes
    RelativePaths = {path2}
    LegacyIds = {legacy}
    LegacyContent <- MCLegacyContent
    LegacyPath <- MCLegacyPath
    MaxTries = 2
    MaxInterrupts = 2
    NoFile = NoFile
    NoRecord = NoRecord
    Empty = Empty
    Garbled = Garbled
    NoDraft = NoDraft
SYMMETRY Symmetry
INVARIANTS
    OnePlace
    ClosedRecordHasNoPayload
    RecordVouches
    AtRestListMatchesStore
PROPERTIES
    RecordNeverReopens
    ReturnsToOrigin
    VaultSpec
