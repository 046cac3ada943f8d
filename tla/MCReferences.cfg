SPECIFICATION FairSpec
CONSTANTS
  Nil = Nil
  Namespaces = {"home", "other"}
  Home = "home"
  Resources <- SomeResources
  MaxARNs = 2
  MaxCerts = 2
  MaxEvents = 2
  MaxFailures = 1
INVARIANTS TypeOK RequestsFromReferencedCA
PROPERTIES AdoptedNeverCreates ResolvedARNStaysOut ReadyReferenceIsUsed DeletionCompletes
CHECK_DEADLOCK FALSE
