\* Degenerate sprites allowed: the sprite after one inherits the wrong surface.
CONSTANTS
  g1 = g1
  g2 = g2
  MaxSurfs = 5
  MaxVerts = 10
  MaxIndices = 16
  MaxParams = 5
  StreamLists <- DrawnLists
  PolyForms <- DrawnForms
  DepthModes <- LessMode
  SrcInstrs <- SrcAlpha
  DstInstrs <- DstInvAlpha
  GlobalStates <- States2
  Depths <- OneDepth
  Autosort = {FALSE, TRUE}
  MinStripVerts = 3
  DegenerateSprites = {FALSE, TRUE}
SPECIFICATION Spec
SYMMETRY Symmetry
INVARIANT
  DrawnMatchesStream
CHECK_DEADLOCK FALSE
