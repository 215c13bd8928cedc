\* Nothing fails and nothing dies.
SPECIFICATION Spec
CONSTANTS
    App = App
    Core = Core
    Guard = Guard
    rules = rules
    manual = manual
    Engine = {rules}
    AppFiles = {}
    Extras = {manual}
    Registered = {Core}
    Versions <- MCVersions
    Packages <- MCPackages
    Initial <- MCInitial
    DevKey = "avorax-dev"
    ConfiguredKey = "avorax-dev"
    ProductionKey = "avorax-prod"
    MaxFailures = 0
    MaxDeaths = 0
    Absent = Absent
    Torn = Torn
    NoSnapshot = NoSnapshot
INVARIANTS
    RollbackGoesBack
