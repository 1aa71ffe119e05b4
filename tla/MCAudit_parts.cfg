CONSTANTS
  k1 = k1
  k2 = k2
  k3 = k3
  p1 = p1
  p2 = p2
  w1 = w1
  w2 = w2
  v1 = v1
  v2 = v2
  Nothing = Nothing
  Nobody = Nobody
  Missing = Missing
  Process = {p1, p2}
  Key <- MCKey
  FirstRoots <- MCFirstRoots
  Transition <- MCTransition
  Manifest <- MCManifest
  MinGeneration = 1
  MaxEntries = 2
  ManifestPathGiven = {TRUE, FALSE}
  Witnesses = {w1, w2}
  Verifier = {v1, v2}
  Quorum = 2
  MaxSize = 5
  MaxRestores = 1
  MaxCheckpoints = 3
SPECIFICATION MCSpec
SYMMETRY MCSymmetry
INVARIANTS
  TipNeverAhead
  RootIsLogged
  RetiredUnderItsEpoch
  StatementsConsistent
  QuorumsAgree
PROPERTIES
  RootChain
  GenerationsGrow
  ProofsExact
  RememberedFollowsLog
CHECK_DEADLOCK FALSE
