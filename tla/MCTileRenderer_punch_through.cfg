\* Punch-through polygons: the depth function they are given.
CONSTANTS
  g1 = g1
  g2 = g2
  MaxSurfs = 5
  MaxVerts = 10
  MaxIndices = 16
  MaxParams = 5
  StreamLists <- PunchThroughOnly
  PolyForms <- DrawnForms
  DepthModes <- LessMode
  SrcInstrs <- SrcAlpha
  DstInstrs <- DstInvAlpha
  GlobalStates <- States2
  Depths <- OneDepth
  Autosort = {FALSE, TRUE}
  MinStripVerts = 3
  DegenerateSprites = {FALSE}
SPECIFICATION Spec
SYMMETRY Symmetry
INVARIANT
  PunchThroughDepthGequal
CHECK_DEADLOCK FALSE
