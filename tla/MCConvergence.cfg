SPECIFICATION FairSpec
CONSTANTS
  Nil = Nil
  Domains = {"a.example", "b.example"}
  Families = {"RSA_2048"}
  DefaultFamily = "RSA_2048"
  TagSets = {"t1", "t2"}
  MaxCerts = 2
  MaxSerial = 2
  MaxNames = 6
  Specs <- Convergence
  Edits = {"options", "domain", "tags"}
  FaultSites = {"patchSpec", "writeSecret", "options", "delete", "patchMetadata"}
  Events = {"issue", "renew", "delete"}
  MaxFaults = 1
  MaxCrashes = 1
  MaxEdits = 1
  MaxDeletes = 1
PROPERTIES StatusFollowsACM OptionsConverge RenewalReachesSecret ImportIsRedone DeletionCompletes
CHECK_DEADLOCK FALSE
