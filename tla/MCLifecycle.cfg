SPECIFICATION Spec
CONSTANTS
  Nil = Nil
  Domains = {"a.example", "b.example"}
  Families = {"RSA_2048"}
  DefaultFamily = "RSA_2048"
  TagSets = {"t1", "t2"}
  MaxCerts = 3
  MaxSerial = 2
  MaxNames = 1
  Specs <- Lifecycle
  Edits = {"options", "tags", "domain"}
  FaultSites = {"describe", "patchMetadata", "import", "request", "patchSpec", "patchStatus", "tags", "options", "delete"}
  Events = {"fail", "delete"}
  MaxFaults = 2
  MaxCrashes = 1
  MaxEdits = 1
  MaxDeletes = 2
INVARIANTS TypeOK EveryCertificateAccounted LeakNeedsFailure FinalizerProtects
PROPERTIES CreateOnlyWhenGone LateInitializationFillsGaps ImportedOptionsFixed
CHECK_DEADLOCK FALSE
