\* An index buffer exactly as large as the background and one strip of two triangles need.
CONSTANTS
  g1 = g1
  g2 = g2
  MaxSurfs = 5
  MaxVerts = 10
  MaxIndices = 12
  MaxParams = 5
  StreamLists <- AllStreamLists
  PolyForms <- AllForms
  DepthModes <- LessMode
  SrcInstrs <- SrcAlpha
  DstInstrs <- DstInvAlpha
  GlobalStates <- States2
  Depths <- TwoDepths
  Autosort = {FALSE, TRUE}
  MinStripVerts = 1
  DegenerateSprites = {FALSE, TRUE}
SPECIFICATION Spec
SYMMETRY Symmetry
PROPERTIES
  IndexAbortOnlyOnOverflow
CHECK_DEADLOCK FALSE
