SPECIFICATION MCSpec
CONSTANTS
  Contents <- MCContents
  NoFile = NoFile
  TrustedNames = {"avorax", "microsoft"}
  RawModes <- MCRawModes
  Lists <- MCLists
  Requests <- MCRequests
  MaxEvents = 3
  CommandModes = {"none", "disabled", "lockdown"}
INVARIANTS LabelHasCause WeakOnlyOnRequest
  
CHECK_DEADLOCK FALSE
