SPECIFICATION MCSpec
CONSTANTS
  Paths <- MCPaths
  Contents <- MCContents
  NoFile = NoFile
  About <- MCAbout
  Model <- MCModel
  Entries <- MCEntries
  SignaturePack <- MCSignatures
  RulePack <- MCRules
  KnownGood <- MCKnownGood
  KnownBad <- MCKnownBad
  ProductionModel = TRUE
  SampleLimit = 2
  MaxChanges = 1
INVARIANTS ConfirmedMeansProven RecordedIsProven
CHECK_DEADLOCK FALSE
