SPECIFICATION FairSpec
CONSTANTS
  UserKeys = {"u1", "u2"}
  AWSKeys = {"aws:"}
  DefaultKeys = {"d"}
  Values = {"x", ""}
  Empty = ""
  NoValue = NoValue
  DefaultValue = "x"
  Absent = Absent
  TagLimit = 3
  MaxEdits = 2
  MaxForeign = 1
  MaxFaults = 1
INVARIANTS TypeOK AWSTagsUntouched FittingTagsAreNotRefused AdoptionKeepsTags
PROPERTIES TagsConverge SyncReachesDesired
CHECK_DEADLOCK FALSE
