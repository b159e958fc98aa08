SPECIFICATION AllSpec
CONSTANTS
  Ids = {"a", "b", " a", " ", ""}
  Blank = ""
  TrimId <- Trims
  Bucket <- Buckets
  TagKeys = {"env", " env", ""}
  BlankKey = ""
  TrimKey <- KeyTrims
  TagVals = {"", "canary"}
  NoVal = ""
  NoTags = NoTags
  Percents <- AllPercents
  Spaces = {sa, sb}
  Global = all
  KeyIDs = {"default", "k2"}
  NoID = ""
  FirstID = "default"
  Secrets = {h1, h2}
  Pairs = {e1, e2}
  NoKey = NoKey
  Items = {k}
  MaxRing = 2
  MaxIssued = 1
  MaxDiffLines = 4
  MaxNSLen = 2
  MaxKeyLen = 5
  Nil = Nil
INVARIANT EvalOrder
INVARIANT WideningKeepsClients
INVARIANT DiffExplains
INVARIANT KeyGrammar
INVARIANT DecodeAllOrNothing
PROPERTY OwnKeyRules
