CONSTANTS
  MaxCommitQueue = 2
  MaxChanges = 2
  MaxFinals = 2
  MaxFailures = 2
  MaxCrashes = 1
  Client = {k1, k2}
  ProjectPath = project
  Path = {project, notes, decisions}
  MirrorPath = {decisions}
  Piece = {x}
  Kept = 1
  MaxWrites = 3
  MaxFaults = 1
  Todo = {t1}
  MaxUpdates = 1
  MaxSyncs = 2
  MaxIOFaults = 1
  MaxResumes = 1
SPECIFICATION FilesSpec
INVARIANTS
  IInv
  MemoryInv
  MemoryKept
  ChatInv
  ChatCloses
PROPERTIES
  ImplementsStore
  AwaitsEnd
  ChatEnds
CHECK_DEADLOCK FALSE
