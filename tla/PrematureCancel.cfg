SPECIFICATION CleanSpec
CONSTANTS
  s1 = s1
  s2 = s2
  h1 = h1
  h2 = h2
  p = p
  q = q
  name = name
  d1 = d1
  d2 = d2
  None = None
  MaxDisturbances = 0
  Specs = {s1}
  Hashes = {h1}
  Names = {p, name}
  extractPackageName <- SameName
  computeSpecHash <- HashOf
  ResourceName = name
  Deployments = {d1, d2}
  MaxUID = 1
  MaxConsecutiveFailures = 2
SYMMETRY SameSlots
PROPERTIES
  CancelsOnlyOutdated
