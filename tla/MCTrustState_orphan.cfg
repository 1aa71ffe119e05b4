CONSTANTS
  k1 = k1
  k2 = k2
  k3 = k3
  p1 = p1
  p2 = p2
  Nothing = Nothing
  Nobody = Nobody
  Process = {p1, p2}
  Key <- MCKey
  FirstRoots <- MCFirstRoots
  Transition <- MCTransition
  Manifest <- MCManifest
  MinGeneration = 1
  MaxEntries = 2
  ManifestPathGiven = {TRUE}
SPECIFICATION Spec
INVARIANT ManifestUnderCurrentRoot
CHECK_DEADLOCK FALSE
