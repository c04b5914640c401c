CONSTANTS
  a = a
  b = b
  c = c
  fa = fa
  fb = fb
  fc = fc
  d = d
  fd = fd
  BaseNode <- MCBase
  FallbackNode <- MCFallback
  fallbackId <- MCfallbackId
  Definitions <- SamePolicy
  Workers = 1
  MaxKills = 1
  MayAbort = FALSE
  TraceMayFail = FALSE
SPECIFICATION Spec
PROPERTIES
  KilledIsOver
