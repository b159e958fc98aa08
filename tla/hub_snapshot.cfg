SPECIFICATION Spec
CONSTANTS
  alice = alice
  bob = bob
  c1 = c1
  c2 = c2
  Ids = {c1, c2, Blank}
  Blank = Blank
  TrimId <- NoTrimId
  Bucket <- Buckets
  TagKeys = {BlankKey}
  BlankKey = BlankKey
  TrimKey <- NoTrimKey
  TagVals = {NoVal}
  NoVal = NoVal
  NoTags = NoTags
  Namespaces = {n1}
  Keys = {k1, k2}
  Actors = {alice, bob}
  NoActor = NoActor
  NoNS = NoNS
  DefaultMaxKeys = 4
  DefaultMaxBytes = 9
  RequireSign = FALSE
  SaveOutcomes = {}
  Limits <- Unlimited
  Owners = {alice, bob}
  Subjects = {bob}
  Callers = {NoActor}
  PutSizes = {1, 2}
  PutRules <- NilOnly
  PutSigs <- NoSigs
  PutBinds = {0}
  GrantRoles = {}
  Forms = {"blob", "json", "bare"}
  Foreign <- SomeForeign
  MaxRev = 1
SYMMETRY NameSymmetry
VIEW AllButOut
INVARIANT ChainsValid
INVARIANT OwnersMatch
INVARIANT QuotaNeverUnder
