\* Every kind of parameter, every list that is drawn, both autosort values.
CONSTANTS
  g1 = g1
  g2 = g2
  MaxSurfs = 5
  MaxVerts = 10
  MaxIndices = 16
  MaxParams = 5
  StreamLists <- AllStreamLists
  PolyForms <- AllForms
  DepthModes <- LessMode
  SrcInstrs <- SrcAlpha
  DstInstrs <- DstInvAlpha
  GlobalStates <- States2
  Depths <- TwoDepths
  Autosort = {FALSE, TRUE}
  MinStripVerts = 1
  DegenerateSprites = {FALSE, TRUE}
SPECIFICATION Spec
SYMMETRY Symmetry
INVARIANTS
  SortedBackToFront
  MergedMaximal
  TypeOK
  IndexBufferConsistent
PROPERTIES
  CommittedDataFrozen
CHECK_DEADLOCK FALSE
