\* Every operator over inputs whose int32_t casts are defined: lists of up
\* to 4 surfaces with 3 minz values, the decoders' floats, colours and
\* bytes, background quads on a 2 x 2 grid with every flag combination,
\* and sprite corners with x, y in 0..2 and z in 0..1.
CONSTANTS
  NumSurfs = 4
  MinZs = {1, 2, 3}
  Floats <- InRangeFloats
  PackedColors <- SomePackedColors
  Bytes <- AllBytes
  BgPoints <- QuadCorners
  SpriteCoords <- Coords3
  SpriteDepths <- Depths2
  Uv16Fields <- SomeUv16Fields
  FloatChannels <- ColorFloats
SPECIFICATION Spec
INVARIANTS
  SortIsStable
  Ftou8Saturates
  PackedColorRoundTrip
  FmulU8FixedPoint
  IntensityScalesColour
  FloatColorAgreesWithPacked
  Uv16PerSpec44
  BgVertsUnpacked
  SpriteDroppedOnlyWhenDegenerate
  SpriteCornerOnPlane
CHECK_DEADLOCK FALSE
