SPECIFICATION FairSpec
CONSTANTS
  Nil = Nil
  Domains = {"a.example"}
  Families = {"RSA_2048"}
  DefaultFamily = "RSA_2048"
  TagSets = {"t1"}
  MaxCerts = 1
  MaxSerial = 1
  MaxNames = 6
  Specs <- PublicOnly
  Edits = {}
  FaultSites = {"describe"}
  Events = {"issue"}
  MaxFaults = 1
  MaxCrashes = 0
  MaxEdits = 0
  MaxDeletes = 0
PROPERTIES OptionsAreLateInitialized
CHECK_DEADLOCK FALSE
