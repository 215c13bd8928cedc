\* Two versions, one file operation that fails, one updater that dies.
SPECIFICATION Spec
CONSTANTS
    App = App
    Core = Core
    Guard = Guard
    rules = rules
    manual = manual
    Engine = {rules}
    AppFiles = {}
    Extras = {manual}
    Registered = {Core}
    Versions <- MCVersions
    Packages <- MCPackages
    Initial <- MCInitial
    DevKey = "avorax-dev"
    ConfiguredKey = "avorax-prod"
    ProductionKey = "avorax-prod"
    MaxFailures = 1
    MaxDeaths = 1
    Absent = Absent
    Torn = Torn
    NoSnapshot = NoSnapshot
INVARIANTS
    RecoveryPoint
    OnlySignedIsCopied
    AnswerTellsTruth
