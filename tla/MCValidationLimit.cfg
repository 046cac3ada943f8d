SPECIFICATION Spec
CONSTANTS
  Nil = Nil
  Domains = {"a.example"}
  Families = {"RSA_2048"}
  DefaultFamily = "RSA_2048"
  TagSets = {"t1"}
  MaxCerts = 1
  MaxSerial = 1
  MaxNames = 6
  Specs <- ManyNamesOnly
  Edits = {}
  FaultSites = {}
  Events = {}
  MaxFaults = 0
  MaxCrashes = 0
  MaxEdits = 0
  MaxDeletes = 0
INVARIANTS PublicValidationLimited
CHECK_DEADLOCK FALSE
