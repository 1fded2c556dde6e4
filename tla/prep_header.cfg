SPECIFICATION Spec
CONSTANTS
  Chunks = 2
  MaxCrashes = 1
INVARIANT Idempotent
