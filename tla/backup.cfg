SPECIFICATION BackupSpec
CONSTANTS
  Writers = {w1, w2}
  Contents <- Trails
  NoFile = NoFile
  Half = Half
  Cap = 2
  What = {"op", "import"}
  Imported = "import"
  MaxSeq = 5
  Foreign <- SomeForeign
ACTION_CONSTRAINT StaysFew
SYMMETRY WriterSymmetry
INVARIANT TempRemoved
INVARIANT QueryNewestFirst
PROPERTY ImplementsFile
PROPERTY ImplementsTrail
