SPECIFICATION Spec
CONSTANTS
  Ids = {"a", "b", " a", " ", ""}
  Blank = ""
  TrimId <- Trims
  Bucket <- Buckets
  TagKeys = {"env", " env", ""}
  BlankKey = ""
  TrimKey <- KeyTrims
  TagVals = {"", "canary", "prod"}
  NoVal = ""
  NoTags = NoTags
  Percents <- ZeroOnly
INVARIANT ZeroPercentMisses
