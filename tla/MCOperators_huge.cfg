\* ftou8 on a colour channel of 2^24: x * 255.0f does not fit in int32_t.
CONSTANTS
  NumSurfs = 0
  MinZs = {1}
  Floats <- WithHugeFloats
  PackedColors <- SomePackedColors
  Bytes <- ChannelValues
  BgPoints <- QuadCorners
  SpriteCoords <- Coords3
  SpriteDepths <- Depths2
  Uv16Fields <- SomeUv16Fields
  FloatChannels <- ColorFloats
SPECIFICATION Spec
INVARIANTS
  Ftou8Saturates
CHECK_DEADLOCK FALSE
