SPECIFICATION ApiSpec
CONSTANTS
  alice = alice
  n1 = n1
  k1 = k1
  k2 = k2
  p1 = p1
  p2 = p2
  c1 = c1
  Ids = {c1, Blank}
  Blank = Blank
  TrimId <- NoTrimId
  Bucket <- Buckets
  TagKeys = {BlankKey}
  BlankKey = BlankKey
  TrimKey <- NoTrimKey
  TagVals = {NoVal}
  NoVal = NoVal
  NoTags = NoTags
  Namespaces = {n1}
  Keys = {k1, k2}
  Actors = {alice}
  NoActor = NoActor
  NoNS = NoNS
  DefaultMaxKeys = 4
  DefaultMaxBytes = 99
  RequireSign = FALSE
  SaveOutcomes = {}
  Limits <- Unlimited
  Owners = {alice}
  Subjects = {}
  Callers = {NoActor}
  PutSizes = {1}
  PutRules <- NilOnly
  PutSigs <- NoSigs
  PutBinds = {0}
  GrantRoles = {}
  Forms = {}
  Foreign = {}
  MaxRev = 3
  Publishers = {p1}
  Payload <- Payloads
  Target <- TheKey
  Listings = {"list"}
  MaxSends = 2
VIEW Unread
INVARIANT RetryOnce
INVARIANT NoLostUpdate
INVARIANT AnswersTrue
INVARIANT ListingComplete
INVARIANT PanicsLeaveNoTrace
