SPECIFICATION Spec
CONSTANTS
  Nil = Nil
  Domains = {"a.example"}
  Families = {"RSA_2048", "EC_prime256v1"}
  DefaultFamily = "RSA_2048"
  TagSets = {"t1"}
  MaxCerts = 2
  MaxSerial = 3
  MaxNames = 6
  Specs <- ExportAndRejected
  Edits = {"exportTo", "options", "material"}
  FaultSites = {"describe", "import", "export", "writeSecret", "patchStatus", "delete"}
  Events = {"issue", "renew", "expire", "delete"}
  MaxFaults = 1
  MaxCrashes = 1
  MaxEdits = 1
  MaxDeletes = 1
INVARIANTS RecordedIsExported TornSecretIsNotRecorded ParkedIsTerminal
PROPERTIES ImplementsExport
CHECK_DEADLOCK FALSE
