\* A translucent strip of one vertex fed when one vertex slot is left.
CONSTANTS
  g1 = g1
  g2 = g2
  MaxSurfs = 5
  MaxVerts = 5
  MaxIndices = 16
  MaxParams = 5
  StreamLists <- SortedLists
  PolyForms <- PolygonForms
  DepthModes <- LessMode
  SrcInstrs <- SrcAlpha
  DstInstrs <- DstInvAlpha
  GlobalStates <- States2
  Depths <- OneDepth
  Autosort = {FALSE, TRUE}
  MinStripVerts = 1
  DegenerateSprites = {FALSE}
SPECIFICATION Spec
SYMMETRY Symmetry
INVARIANT
  VertsWithinCapacity
CHECK_DEADLOCK FALSE
