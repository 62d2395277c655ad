SPECIFICATION Spec
CONSTANTS
  v1 = v1
  v2 = v2
  v3 = v3
  c1 = c1
  c2 = c2
  c3 = c3
  c4 = c4
  c5 = c5
  None = None
  Versions = {v1, v2, v3}
  Calls = {c1, c2, c3, c4, c5}
  MaxFaults <- OneOfEach
INVARIANT PublishedIsComplete
INVARIANT PublishedVersionsArePublic
INVARIANT LatestIsNewest
INVARIANT ManifestListsStored
PROPERTY ImmutableFilesKept
PROPERTY ImplementsPublicFace
SYMMETRY Symmetry
CHECK_DEADLOCK FALSE
