SPECIFICATION Spec
CONSTANTS
  Nil = Nil
  Domains = {"a.example"}
  Families = {"RSA_2048"}
  DefaultFamily = "RSA_2048"
  TagSets = {"t1"}
  MaxCerts = 2
  MaxSerial = 2
  MaxNames = 6
  Specs <- ImportOnly
  Edits = {}
  FaultSites = {}
  Events = {"issue"}
  MaxFaults = 0
  MaxCrashes = 1
  MaxEdits = 0
  MaxDeletes = 0
INVARIANTS LateInitializedImportIsAccepted
CHECK_DEADLOCK FALSE
