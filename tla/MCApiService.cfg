\* Two calls at once, a pool of one or two connections, one failure, one stop of the server.
SPECIFICATION Spec
CONSTANTS
    Requests <- MCRequests
    Databases <- MCDatabases
    DevSlug = "avorax-default"
    PoolSizes = {1, 2}
    MaxCalls = 2
    MaxFailures = 1
    MaxCrashes = 1
INVARIANTS
    EveryProjectHasKey
    AuditTellsTruth
    AnswerTellsTruth
    OneDevicePerName
    PoolMakesProgress
CHECK_DEADLOCK FALSE
