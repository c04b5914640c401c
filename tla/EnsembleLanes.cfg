CONSTANTS
  NumCalls = 2
  NumCandidates = 2
  MaxParallel = 2
  Weight <- MCWeight
  Quorum = 10
  Node = {n1, n2}
  File = {f1}
  ProjectFile = {f1}
  MayTimeOut = {1}
  MaxFaults = 0
SPECIFICATION Spec
INVARIANT IsolatedLanes
