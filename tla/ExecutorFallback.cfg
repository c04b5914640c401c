CONSTANTS
  a = a
  b = b
  c = c
  fa = fa
  fb = fb
  fc = fc
  d = d
  fd = fd
  BaseNode <- MCBase
  FallbackNode <- MCFallback
  fallbackId <- MCfallbackId
  Definitions <- ReplacedInChain
  Workers = 1
  MaxKills = 0
  MayAbort = FALSE
  TraceMayFail = FALSE
SPECIFICATION Spec
INVARIANTS
  FailureHasFailedNode
