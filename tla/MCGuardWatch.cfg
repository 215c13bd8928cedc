\* Two pids, an application and a system path, two starts, one write.
SPECIFICATION WatchSpec
CONSTANTS
    Pids = {1, 2}
    Images = {app, system}
    Builds = {ok, virus, listed, flagged}
    Malware = {virus}
    KnownHashes = {listed}
    CompatBuilt = TRUE
    CompatMalware = {flagged}
    Skipped = {system}
    MaxStarts = 2
    MaxWrites = 1
    None = None
INVARIANTS
    StopHasCause
    AnswerTellsTruth
CHECK_DEADLOCK FALSE
