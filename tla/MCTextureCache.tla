--------------------------- MODULE MCTextureCache ---------------------------
EXTENDS TextureCache, TLC

CONSTANTS k1, k2, p1, p2, s1

TwoKeys == {k1, k2}
TwoPalettes == {p1, p2}
OneStride == {s1}
Symmetry == Permutations(TwoKeys)
=============================================================================
