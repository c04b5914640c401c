CONSTANTS
  a = a
  b = b
  c = c
  fa = fa
  fb = fb
  fc = fc
  d = d
  fd = fd
  BaseNode <- FourBase
  FallbackNode <- FourFallback
  fallbackId <- FourfallbackId
  Definitions <- AllPolicies
  Workers = 2
  MaxKills = 0
  MayAbort = FALSE
  TraceMayFail = FALSE
SPECIFICATION Spec
INVARIANTS
  DependenciesMet
  SkippedJustified
  HonestSuccess
  FailsForCause
  AttemptsAccounted
