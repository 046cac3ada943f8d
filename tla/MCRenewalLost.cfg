SPECIFICATION FairSpec
CONSTANTS
  Nil = Nil
  Domains = {"a.example"}
  Families = {"RSA_2048"}
  DefaultFamily = "RSA_2048"
  TagSets = {"t1"}
  MaxCerts = 1
  MaxSerial = 2
  MaxNames = 6
  Specs <- PrivateExportedOnly
  Edits = {}
  FaultSites = {"export", "writeSecret"}
  Events = {"issue", "renew"}
  MaxFaults = 1
  MaxCrashes = 0
  MaxEdits = 0
  MaxDeletes = 0
PROPERTIES RenewalIsExported
CHECK_DEADLOCK FALSE
