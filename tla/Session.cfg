SPECIFICATION Spec
CONSTANTS
  Setups = {s1}
  Tools = {t1}
  Gets = {}
  LIFE = 3
  CACHE_TTL = 0
  Expires = TRUE
  Faults = TRUE
INVARIANTS
  TypeOK
  SetupTakesHold
