---------------------------- MODULE MCOperators ----------------------------
(***************************************************************************)
(* Checks the pure operators of tr.c against reference definitions: the   *)
(* surface sort, the colour decoders and the synthesised geometry.  Every  *)
(* input of a small set is one initial state; one step makes the call, and *)
(* the invariants compare its result with what the spec says it computes. *)
(***************************************************************************)
EXTENDS Integers, Sequences, SurfaceSort, Quads

CONSTANTS
  NumSurfs,    \* sort: surface indices are 0..NumSurfs-1
  MinZs,       \* sort: the minz values a surface may have
  Floats,      \* float inputs: [kind |-> "num", n, e] or [kind |-> "nan"]
  PackedColors,\* uint32_t packed colours 0xAARRGGBB as [hi, lo]
  Bytes,       \* uint8_t operands of fmulu8
  BgPoints,    \* positions of the three background vertices
  SpriteCoords,\* values of a sprite corner's x and y
  SpriteDepths,\* values of a sprite corner's z
  Uv16Fields,  \* 16-bit uv fields of vertex types 4, 6 and 8
  FloatChannels\* channel values of a float colour

ASSUME NumSurfs \in Nat /\ MinZs # {}

Surfs == 0..(NumSurfs - 1)

\* Every sequence of distinct surface indices of length at most NumSurfs.
DistinctSeqs ==
  {t \in UNION {[1..k -> Surfs] : k \in 0..NumSurfs} :
      \A i, j \in DOMAIN t : i # j => t[i] # t[j]}

NumF(n, e) == [kind |-> "num", n |-> n, e |-> e]
NaN == [kind |-> "nan", n |-> 0, e |-> 0]

\* Floats whose product with 255 fits in int32_t, NaN included; and the
\* same with a colour channel of 2^24, whose product does not.
InRangeFloats ==
  {NumF(-1, 0), NumF(0, 0), NumF(1, -8), NumF(1, -1), NumF(3, -2),
   NumF(1, 0), NumF(2, 0), NumF(1, 20), NumF(-1, 24), NaN}
WithHugeFloats == InRangeFloats \cup {NumF(1, 24)}

\* Float colour channels: below 0, 0, a fraction, 1 and above 1.
ColorFloats == {NumF(-1, 0), NumF(0, 0), NumF(1, -1), NumF(1, 0), NumF(2, 0)}

\* 16-bit uv fields: zero, the smallest subnormal, 0.5, 1, 3, the largest
\* finite, infinity, NaN, -0, -1 and -infinity as the high half of a float.
SomeUv16Fields ==
  {0, 1, 16128, 16256, 16448, 32639, 32640, 32704, 32768, 49024, 65408}

ChannelValues == {0, 1, 128, 255}
SomePackedColors ==
  {[hi |-> a * 256 + r, lo |-> g * 256 + b] :
     a \in ChannelValues, r \in ChannelValues, g \in ChannelValues, b \in ChannelValues}
AllBytes == 0..255

\* Byte colours (the face colour of PARSE_INTENSITY): a few channel values.
FaceColors == [1..4 -> {0, 128, 255}]

\* Background vertex k at position p: uv and colours distinct per vertex,
\* so a word read from the wrong offset is told apart.
BgVertex(k, p) ==
  [xyz |-> p, uv |-> << 10 + k, 20 + k >>,
   color |-> [hi |-> 256 * k + 1, lo |-> 2],
   offset_color |-> [hi |-> 256 * k + 3, lo |-> 4]]

\* Spec 4.2: the three vertices packed tightly, each xyz, uv if
\* bg_isp.texture, base colour, offset colour if bg_isp.offset.
PackedWords(v, isp) ==
  << v.xyz[1], v.xyz[2], v.xyz[3] >>
  \o (IF isp.texture THEN v.uv ELSE << >>)
  \o << v.color >>
  \o (IF isp.offset THEN << v.offset_color >> ELSE << >>)

BgBuffer(vs, isp) ==
  LET ws == PackedWords(vs[1], isp) \o PackedWords(vs[2], isp) \o PackedWords(vs[3], isp)
  IN  [i \in 0..(Len(ws) - 1) |-> ws[i + 1]]

QuadCorners == {<< 0, 0, 1 >>, << 2, 0, 1 >>, << 0, 2, 1 >>, << 2, 2, 3 >>}
Coords3 == 0..2
Depths2 == 0..1

Isps == [texture : BOOLEAN, offset : BOOLEAN]

\* Sprite corners: bottom-left a, top-left b, top-right c; uvs fixed.
SpritePoints == SpriteCoords \X SpriteCoords \X SpriteDepths
SpriteVertex(p, uv) == [xyz |-> p, uv |-> uv]

Inputs ==
       [op : {"sort"}, list : DistinctSeqs, minz : [Surfs -> MinZs]]
  \cup [op : {"ftou8"}, x : Floats]
  \cup [op : {"packed"}, c : PackedColors]
  \cup [op : {"fmulu8"}, a : Bytes, b : Bytes]
  \cup [op : {"intensity"}, color : FaceColors, x : Floats]
  \cup [op : {"bg"}, isp : Isps, a : BgPoints, b : BgPoints, c : BgPoints]
  \cup [op : {"sprite"}, a : SpritePoints, b : SpritePoints, c : SpritePoints,
        dxy : SpriteCoords \X SpriteCoords]
  \cup [op : {"uv16"}, uv : Uv16Fields \X Uv16Fields]
  \cup [op : {"floatcolor"},
        c : [r : FloatChannels, g : FloatChannels, b : FloatChannels, a : FloatChannels]]

VARIABLES
  input,  \* the arguments of the call
  out,    \* its result
  done    \* whether the call has returned
vars == << input, out, done >>

Init == input \in Inputs /\ out = << >> /\ done = FALSE

\* The call msort_noalloc(list->surfs, sort_tmp, ...) of tr_sort_surfaces.
Sort ==
  /\ input.op = "sort" /\ ~done
  /\ out' = msort_noalloc(input.minz, input.list)
  /\ done' = TRUE
  /\ UNCHANGED input

\* ftou8 on a float: the cast, then the clamp.
DecodeFtou8 ==
  /\ input.op = "ftou8" /\ ~done
  /\ \E i \in CastToInt32(input.x) : out' = ftou8(i)
  /\ done' = TRUE
  /\ UNCHANGED input

\* PARSE_PACKED_COLOR.
DecodePacked ==
  /\ input.op = "packed" /\ ~done
  /\ out' = PARSE_PACKED_COLOR(input.c)
  /\ done' = TRUE
  /\ UNCHANGED input

\* fmulu8.
DecodeFmulu8 ==
  /\ input.op = "fmulu8" /\ ~done
  /\ out' = fmulu8(input.a, input.b)
  /\ done' = TRUE
  /\ UNCHANGED input

\* PARSE_INTENSITY of the face colour by a float intensity.
DecodeIntensity ==
  /\ input.op = "intensity" /\ ~done
  /\ \E i \in CastToInt32(input.x) : out' = PARSE_INTENSITY(input.color, i)
  /\ done' = TRUE
  /\ UNCHANGED input

\* PARSE_UV16 of a vertex's two 16-bit uv fields.
DecodeUv16 ==
  /\ input.op = "uv16" /\ ~done
  /\ out' = PARSE_UV16(input.uv)
  /\ done' = TRUE
  /\ UNCHANGED input

\* PARSE_FLOAT_COLOR of a float colour, each channel through the cast.
DecodeFloatColor ==
  /\ input.op = "floatcolor" /\ ~done
  /\ \E ic \in [r : CastToInt32(input.c.r), g : CastToInt32(input.c.g),
                 b : CastToInt32(input.c.b), a : CastToInt32(input.c.a)] :
       out' = PARSE_FLOAT_COLOR(ic)
  /\ done' = TRUE
  /\ UNCHANGED input

GivenBg == << BgVertex(0, input.a), BgVertex(1, input.b), BgVertex(2, input.c) >>
GivenSprite ==
  << SpriteVertex(input.a, << 0, 0 >>), SpriteVertex(input.b, << 0, 1 >>),
     SpriteVertex(input.c, << 1, 1 >>) >>

\* tr_parse_bg's vertices from the packed ctx->bg_vertices.
ParseBg ==
  /\ input.op = "bg" /\ ~done
  /\ out' = tr_parse_bg_verts(BgBuffer(GivenBg, input.isp), input.isp)
  /\ done' = TRUE
  /\ UNCHANGED input

\* The sprite's fourth corner in tr_parse_vert_param.
ParseSprite ==
  /\ input.op = "sprite" /\ ~done
  /\ out' = SpriteCorner(GivenSprite[1], GivenSprite[2], GivenSprite[3], input.dxy)
  /\ done' = TRUE
  /\ UNCHANGED input

Next ==
  \/ Sort
  \/ DecodeFtou8 \/ DecodePacked \/ DecodeFmulu8 \/ DecodeIntensity
  \/ DecodeUv16 \/ DecodeFloatColor
  \/ ParseBg \/ ParseSprite

Spec == Init /\ [][Next]_vars

-----------------------------------------------------------------------------
\* Spec 8.4: the sorted list is a permutation of its input, ascending in
\* minz, and surfaces with equal minz keep their submission order; this is
\* what msort_noalloc with the "<=" comparator of tr_compare_surf gives.
SortIsStable ==
  (input.op = "sort" /\ done) => StablySortedFrom(input.minz, out, input.list)

\* trunc(x * 255) for 0 < x < 1, and whether x >= 1.
Value255Trunc(x) == LET p == Times255(x) IN p.num \div p.den
AtLeastOne(x) ==
  IF x.e >= 0 THEN x.n >= 1 ELSE x.n >= 2^(-x.e)

\* Spec 8.8 and 9: ftou8 saturates, ftou8(x) = clamp(trunc(x * 255), 0, 255)
\* for every non-NaN x: at most 0 for x <= 0, 255 for x >= 1, the
\* truncation in between (tr.c ftou8, the int32_t cast then MIN/MAX).
Ftou8Saturates ==
  (input.op = "ftou8" /\ done /\ input.x.kind = "num") =>
    out = IF input.x.n <= 0 THEN 0
          ELSE IF AtLeastOne(input.x) THEN 255
          ELSE Value255Trunc(input.x)

\* Spec 8.7: a packed colour parsed by PARSE_PACKED_COLOR and serialised
\* back as 0xAARRGGBB is the colour it came from.
Serialize(rgba) == [hi |-> rgba[4] * 256 + rgba[1], lo |-> rgba[2] * 256 + rgba[3]]

PackedColorRoundTrip ==
  (input.op = "packed" /\ done) => Serialize(out) = input.c

\* Spec 9: fmulu8 is a fixed-point multiply on bytes: the product is never
\* more than either operand, 255 is its identity and 0 annihilates.
FmulU8FixedPoint ==
  (input.op = "fmulu8" /\ done) =>
    /\ out <= input.a /\ out <= input.b
    /\ input.b = 255 => out = input.a
    /\ input.a = 0 => out = 0

\* Spec 4.4: PARSE_INTENSITY keeps the face colour's alpha, never brightens
\* a channel, leaves the colour as it is at intensity >= 1 and blacks it
\* out at intensity <= 0.
IntensityScalesColour ==
  (input.op = "intensity" /\ done /\ input.x.kind = "num") =>
    /\ out[4] = input.color[4]
    /\ \A k \in 1..3 : out[k] <= input.color[k]
    /\ AtLeastOne(input.x) => out = input.color
    /\ input.x.n <= 0 => \A k \in 1..3 : out[k] = 0
\* A byte as spec 8.8 and 9 have a float channel become one: the clamp of
\* the truncated x * 255.
RefByte(x) ==
  IF x.n <= 0 THEN 0 ELSE IF AtLeastOne(x) THEN 255 ELSE Value255Trunc(x)

\* Spec 4.4: a colour is the bytes [R, G, B, A] whether a vertex gives it
\* packed as 0xAARRGGBB or as float channels: PARSE_FLOAT_COLOR of the
\* channels equals PARSE_PACKED_COLOR of the word packing their bytes.
FloatColorAgreesWithPacked ==
  (input.op = "floatcolor" /\ done) =>
    LET c == input.c
    IN  out = PARSE_PACKED_COLOR(Serialize(<< RefByte(c.r), RefByte(c.g),
                                              RefByte(c.b), RefByte(c.a) >>))

\* The value of a bfloat16 h, by its definition: sign bit 15, exponent bits
\* 7-14 biased by 127, a 7-bit fraction; exponent 0 is subnormal, 255 is
\* infinity (fraction 0) or NaN.
Bf16(h) ==
  LET sgn == IF h >= 32768 THEN -1 ELSE 1
      exp == (h \div 128) % 256
      frac == h % 128
  IN  CASE exp = 255 /\ frac = 0 -> [kind |-> "inf", n |-> sgn, e |-> 0]
        [] exp = 255 -> NaN
        [] exp = 0 -> NumF(sgn * frac, -133)
        [] OTHER -> NumF(sgn * (128 + frac), exp - 134)

\* A float with its power of two taken out of n, so that equal values are
\* equal records.
RECURSIVE Normalized(_)
Normalized(x) ==
  IF x.kind # "num" THEN x
  ELSE IF x.n = 0 THEN NumF(0, 0)
  ELSE IF x.n % 2 = 0 THEN Normalized(NumF(x.n \div 2, x.e + 1))
  ELSE x

\* Spec 4.4: a 16-bit uv field is the high half of a float (the bfloat16
\* of its bits), and the two fields are swapped: the first goes to uv[1],
\* the second to uv[0].
Uv16PerSpec44 ==
  (input.op = "uv16" /\ done) =>
    /\ Normalized(out[1]) = Normalized(Bf16(input.uv[2]))
    /\ Normalized(out[2]) = Normalized(Bf16(input.uv[1]))

\* Spec 4.2: each of the three background vertices gets the xyz, uv, base
\* and offset colour packed for it, fields the flags leave out are zero:
\* tr_parse_bg_vert's offset arithmetic walks the packed layout exactly.
BgVertsUnpacked ==
  (input.op = "bg" /\ done) =>
    \A k \in 1..3 :
      LET v == GivenBg[k]
      IN  /\ out[k].xyz = v.xyz
          /\ out[k].uv = IF input.isp.texture THEN v.uv ELSE << 0, 0 >>
          /\ out[k].color = PARSE_PACKED_COLOR(v.color)
          /\ out[k].offset_color = IF input.isp.offset
                                   THEN PARSE_PACKED_COLOR(v.offset_color)
                                   ELSE ZeroColor

\* Whether three points project onto one line of the screen (x, y).
Collinear2D(p, q, r) ==
  (q[1] - p[1]) * (r[2] - p[2]) = (q[2] - p[2]) * (r[1] - p[1])

\* Spec 4.4: a sprite is dropped exactly when its three given corners do
\* not determine a plane with a unique depth at every screen point, i.e.
\* when they project onto one screen line (the |n| = 0 or n.z = 0 test).
SpriteDroppedOnlyWhenDegenerate ==
  (input.op = "sprite" /\ done) =>
    (out.committed <=> ~Collinear2D(input.a, input.b, input.c))

\* Spec 4.4: the solved fourth corner lies on the plane of a, b, c (the
\* determinant of b - a, c - a, d - a vanishes, with d.z = num / den
\* scaled through), and its uv completes the parallelogram opposite b.
Det3(x, y, z) ==
  x[1] * (y[2] * z[3] - y[3] * z[2]) - x[2] * (y[1] * z[3] - y[3] * z[1])
  + x[3] * (y[1] * z[2] - y[2] * z[1])

SpriteCornerOnPlane ==
  (input.op = "sprite" /\ done /\ out.committed) =>
    LET a == input.a
        q == << out.z.den * (input.dxy[1] - a[1]), out.z.den * (input.dxy[2] - a[2]),
               out.z.num - out.z.den * a[3] >>
    IN  /\ Det3(VSub(input.b, a), VSub(input.c, a), q) = 0
        /\ VAdd(GivenSprite[1].uv, GivenSprite[3].uv) = VAdd(GivenSprite[2].uv, out.uv)
=============================================================================
