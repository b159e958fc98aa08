SPECIFICATION Spec
CONSTANTS
  alice = alice
  bob = bob
  c1 = c1
  c2 = c2
  Ids = {c1, c2, Blank}
  Blank = Blank
  TrimId <- NoTrimId
  Bucket <- Buckets
  TagKeys = {BlankKey}
  BlankKey = BlankKey
  TrimKey <- NoTrimKey
  TagVals = {NoVal}
  NoVal = NoVal
  NoTags = NoTags
  Namespaces = {n1}
  Keys = {k1}
  Actors = {alice, bob}
  NoActor = NoActor
  NoNS = NoNS
  DefaultMaxKeys = 4
  DefaultMaxBytes = 9
  RequireSign = TRUE
  SaveOutcomes = {TRUE}
  Limits <- Unlimited
  Owners = {alice}
  Subjects = {bob}
  Callers = {NoActor}
  PutSizes = {0, 1}
  PutRules <- AllRules
  PutSigs <- SomeSigs
  PutBinds = {0, 1, 2}
  GrantRoles = {}
  Forms = {}
  Foreign = {}
  MaxRev = 4
INVARIANT TypeOK
INVARIANT ChainsValid
INVARIANT StablePointer
INVARIANT MissReadsFull
INVARIANT LastTracksStore
INVARIANT SignedOnly
INVARIANT DiskCurrent
PROPERTY HistoryImmutable
