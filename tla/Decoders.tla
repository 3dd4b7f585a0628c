------------------------------ MODULE Decoders ------------------------------
(***************************************************************************)
(* The polygon parsing helpers of src/src/guest/pvr/tr.c: ftou8, fmulu8    *)
(* and the colour macros built on them.  Integers keep their C width:      *)
(* uint8_t results are in 0..255, the packed colour is a uint32_t.          *)
(*                                                                         *)
(* A float is a record: kind "num" with value n * 2^e (every float is such *)
(* a dyadic number; the inputs are chosen so that x * 255.0f is exact), or *)
(* kind "nan".  The conversion (int32_t)f truncates toward zero when the   *)
(* value fits in int32_t; otherwise it is undefined behaviour, and the     *)
(* outcome is whatever the build's instruction produces: x86-64 cvttss2si  *)
(* gives INT32_MIN for every such input, AArch64 fcvtzs saturates and      *)
(* maps NaN to 0.  TLC's integers are 32-bit signed, so a uint32_t packed *)
(* colour is carried as its two 16-bit halves [hi, lo], and the range of   *)
(* the cast is tested before x * 255 is formed.                            *)
(***************************************************************************)
EXTENDS Integers, Bitwise

INT32_MAX == 2147483647
INT32_MIN == -INT32_MAX - 1

\* Whether x * 255 fits in int32_t: |x| <= INT32_MAX \div 255 = 8421504
\* for integral x (255 * 8421505 exceeds 2^31), always for fractions.
FitsInt32(x) ==
  x.e < 0 \/ (-8421504 <= x.n * 2^x.e /\ x.n * 2^x.e <= 8421504)

\* The exact value x * 255 as numerator / denominator, for x that fits.
Times255(x) ==
  IF x.e >= 0 THEN [num |-> 255 * x.n * 2^x.e, den |-> 1]
  ELSE [num |-> 255 * x.n, den |-> 2^(-x.e)]

\* The values (int32_t)(x * 255.0f) can take on the builds the code targets.
CastToInt32(x) ==
  IF x.kind = "nan" THEN {INT32_MIN, 0}
  ELSE IF FitsInt32(x)
    THEN LET p == Times255(x)
         IN  {IF p.num >= 0 THEN p.num \div p.den ELSE -((-p.num) \div p.den)}
  ELSE {INT32_MIN, IF x.n > 0 THEN INT32_MAX ELSE INT32_MIN}

\* A slip in ftou8: the cast to uint8_t without the clamp wraps modulo 256.
ftou8_wrap(i) == i % 256

\* ftou8, given the int32_t the cast produced: MIN(MAX(i, 0), 255).
ftou8(i) == IF i < 0 THEN 0 ELSE IF i > 255 THEN 255 ELSE i

\* The results ftou8(x) can have.
Ftou8Outcomes(x) == {ftou8(i) : i \in CastToInt32(x)}

\* A slip in fmulu8: dividing by 256 (a shift) instead of 255.
fmulu8_shift(a, b) == (a * b) \div 256

\* fmulu8: (uint8_t)((uint32_t)a * (uint32_t)b / 255); the product of two
\* bytes fits in 32 bits and the quotient in a byte.
fmulu8(a, b) == ((a * b) \div 255) % 256

\* A slip in PARSE_PACKED_COLOR: the alpha byte taken from bits 16-23.
PARSE_PACKED_COLOR_alpha_red(color) ==
  << color.hi & 255, shiftR(color.lo & 65280, 8), color.lo & 255,
     color.hi & 255 >>

\* PARSE_PACKED_COLOR: 0xAARRGGBB into the bytes R, G, B, A; a mask of the
\* high half is applied to hi, of the low half to lo.
PARSE_PACKED_COLOR(color) ==
  << color.hi & 255,                 \* (color & 0x00ff0000) >> 16
     shiftR(color.lo & 65280, 8),    \* (color & 0x0000ff00) >> 8
     color.lo & 255,                 \* (color & 0x000000ff)
     shiftR(color.hi & 65280, 8) >>  \* (color & 0xff000000) >> 24

\* PARSE_INTENSITY: colour rgb scaled by the clamped intensity, alpha kept.
PARSE_INTENSITY(color, icast) ==
  LET i == ftou8(icast)
  IN  << fmulu8(color[1], i), fmulu8(color[2], i), fmulu8(color[3], i),
         color[4] >>

\* The float whose binary32 encoding is the word w = [hi, lo]: sign bit 31,
\* exponent bits 23-30, mantissa bits 0-22 (the *(float *)& of the code).
\* Infinities are kind "inf" with the sign in n.
FloatOfBits(w) ==
  LET sgn == IF shiftR(w.hi, 15) = 1 THEN -1 ELSE 1
      exp == shiftR(w.hi, 7) & 255
      man == (w.hi & 127) * 65536 + w.lo
  IN  CASE exp = 255 /\ man = 0 -> [kind |-> "inf", n |-> sgn, e |-> 0]
        [] exp = 255 -> [kind |-> "nan", n |-> 0, e |-> 0]
        [] exp = 0 -> [kind |-> "num", n |-> sgn * man, e |-> -149]
        [] OTHER -> [kind |-> "num", n |-> sgn * (8388608 + man), e |-> exp - 150]

\* A slip in PARSE_UV16: each half shifted into the word of its own index.
PARSE_UV16_unswapped(uv) ==
  << FloatOfBits([hi |-> uv[1], lo |-> 0]), FloatOfBits([hi |-> uv[2], lo |-> 0]) >>

\* PARSE_UV16: u = uv[1] << 16, v = uv[0] << 16, each read as a float
\* (uv is the pair of 16-bit fields, uv[1] and uv[2] here).
PARSE_UV16(uv) ==
  << FloatOfBits([hi |-> uv[2], lo |-> 0]), FloatOfBits([hi |-> uv[1], lo |-> 0]) >>

\* A slip in PARSE_FLOAT_COLOR: the channels stored in the order of the
\* 0xAARRGGBB word, alpha first.
PARSE_FLOAT_COLOR_argb(icast) ==
  << ftou8(icast.a), ftou8(icast.r), ftou8(icast.g), ftou8(icast.b) >>

\* PARSE_FLOAT_COLOR, given the int32_t casts of the four channels' x * 255:
\* bytes R, G, B, A, each through ftou8.
PARSE_FLOAT_COLOR(icast) ==
  << ftou8(icast.r), ftou8(icast.g), ftou8(icast.b), ftou8(icast.a) >>
=============================================================================
