SPECIFICATION FairSpec
CONSTANTS
  Setups = {s1}
  Tools = {}
  Gets = {g1, g2}
  LIFE = 1
  CACHE_TTL = 1
  Expires = FALSE
  Faults = FALSE
PROPERTIES
  StaleHeals
