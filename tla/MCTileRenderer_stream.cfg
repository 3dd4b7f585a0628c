\* Well-formed streams: the conversion and the render refine TRAbstract.
CONSTANTS
  g1 = g1
  g2 = g2
  MaxSurfs = 6
  MaxVerts = 12
  MaxIndices = 24
  MaxParams = 5
  StreamLists <- DrawnLists
  PolyForms <- DrawnForms
  DepthModes <- LessMode
  SrcInstrs <- SrcAlpha
  DstInstrs <- DstInvAlpha
  GlobalStates <- States2
  Depths <- TwoDepths
  Autosort = {FALSE, TRUE}
  MinStripVerts = 3
  DegenerateSprites = {FALSE}
SPECIFICATION Spec
SYMMETRY Symmetry
PROPERTIES
  ImplementsTRAbstract
CHECK_DEADLOCK FALSE
