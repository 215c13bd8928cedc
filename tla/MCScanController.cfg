\* Two scans that overlap, and a core that may hang.
SPECIFICATION FairSpec
CONSTANTS
    s1 = s1
    s2 = s2
    Scans = {s1, s2}
    Lines = 2
    MaxPresses = 2
    None = None
INVARIANTS
    NoOrphanScan
    CompletedMeansRead
    RunningMeansUnderWay
PROPERTIES
    ScanningEnds
CHECK_DEADLOCK FALSE
