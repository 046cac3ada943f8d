SPECIFICATION Spec
CONSTANTS
  Nil = Nil
  Domains = {"a.example"}
  Families = {"RSA_2048"}
  DefaultFamily = "RSA_2048"
  TagSets = {"t1"}
  MaxCerts = 2
  MaxSerial = 1
  MaxNames = 6
  Specs <- PublicOnly
  Edits = {}
  FaultSites = {}
  Events = {"delete"}
  MaxFaults = 0
  MaxCrashes = 0
  MaxEdits = 0
  MaxDeletes = 1
INVARIANTS RequestNamesSupportedAlgorithm
CHECK_DEADLOCK FALSE
