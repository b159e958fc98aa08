SPECIFICATION Spec
CONSTANTS
  alice = alice
  bob = bob
  c1 = c1
  c2 = c2
  Ids = {c1, c2, Blank}
  Blank = Blank
  TrimId <- NoTrimId
  Bucket <- Buckets
  TagKeys = {BlankKey}
  BlankKey = BlankKey
  TrimKey <- NoTrimKey
  TagVals = {NoVal}
  NoVal = NoVal
  NoTags = NoTags
  Namespaces = {n1, n2}
  Keys = {k1, k2}
  Actors = {alice, bob}
  NoActor = NoActor
  NoNS = NoNS
  DefaultMaxKeys = 2
  DefaultMaxBytes = 3
  RequireSign = FALSE
  SaveOutcomes = {FALSE}
  Limits <- Tight
  Owners = {alice}
  Subjects = {bob}
  Callers = {NoActor, bob}
  PutSizes = {1, 2}
  PutRules <- NilOnly
  PutSigs <- NoSigs
  PutBinds = {0}
  GrantRoles = {0, 2}
  Forms = {}
  Foreign = {}
  MaxRev = 2
SYMMETRY NameSymmetry
VIEW AllButOut
INVARIANT QuotaExact
INVARIANT WithinQuota
INVARIANT NothingOrphaned
PROPERTY ImplementsSource
