CONSTANTS
  Client = {k1, k2}
  ProjectPath = project
  Path = {project, notes, decisions}
  MirrorPath = {decisions}
  Piece = {x}
  Kept = 1
  MaxWrites = 3
  MaxFaults = 1
SPECIFICATION MemorySpec
INVARIANT SeededFromFiles
CHECK_DEADLOCK FALSE
