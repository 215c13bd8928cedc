\* A quick or a full scan of overlapping locations.
SPECIFICATION Spec
CONSTANTS
    f1 = f1
    f2 = f2
    f3 = f3
    ok = ok
    odd = odd
    bad = bad
    Files = {f1, f2, f3}
    Contents = {ok, odd, bad}
    Locations <- MCLocations
    Pruned <- MCPruned
    Links <- MCLinks
    Verdict <- MCVerdict
    Risky = {f1, f2, f3}
    Limit = 2
    MaxChanges = 2
    NoFile = NoFile
INVARIANTS
    CleanMeansJudged
    ReportAddsUp
    QuarantineHasCause
CHECK_DEADLOCK FALSE
