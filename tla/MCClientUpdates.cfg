\* Four flows, one change of the server, one restart of the app.
SPECIFICATION Spec
CONSTANTS
    c1 = c1
    c2 = c2
    Channel = "stable"
    FeedUrls = {"none", "malformed", "latest"}
    Versions <- MCVersions
    First <- V1
    Names = {"a.aup", "a.exe"}
    AupNames = {"a.aup"}
    Contents = {c1, c2}
    Servers <- MCServers
    Missing = Missing
    Torn = Torn
    None = None
    MaxFlows = 4
    MaxPublishes = 1
    MaxRestarts = 1
INVARIANTS
    BusyMeansUnderWay
    AppliedIsOffered
CHECK_DEADLOCK FALSE
