CONSTANTS
  a = a
  b = b
  c = c
  fa = fa
  fb = fb
  fc = fc
  d = d
  fd = fd
  BaseNode <- MCBase
  FallbackNode <- MCFallback
  fallbackId <- MCfallbackId
  Definitions <- SamePolicy
  Workers = 2
  MaxKills = 1
  MayAbort = TRUE
  TraceMayFail = TRUE
SPECIFICATION FairSpec
INVARIANTS
  InductiveInv
  RetryBudget
PROPERTIES
  DoneIsFinal
  NoOverlappingAttempts
  NoStartAfterAbort
  ImplementsContract
  Settles
