\* Cancel does not reach the process.
SPECIFICATION Spec
CONSTANTS
    s1 = s1
    s2 = s2
    Scans = {s1, s2}
    Lines = 2
    MaxPresses = 2
    None = None
SYMMETRY Symmetry
INVARIANTS
    CancelStopsScan
CHECK_DEADLOCK FALSE
