\* Two keys, up to two writes to each, two palette formats, six textures.
CONSTANTS
  k1 = k1
  k2 = k2
  p1 = p1
  p2 = p2
  s1 = s1
  Keys <- TwoKeys
  PaletteFmts <- TwoPalettes
  Strides <- OneStride
  MaxWrites = 2
  MaxHandles = 6
SPECIFICATION Spec
SYMMETRY Symmetry
INVARIANTS
  TexturesOwnedByEntries
  ReturnedTextureFresh
