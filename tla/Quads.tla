------------------------------- MODULE Quads -------------------------------
(***************************************************************************)
(* The geometry src/src/guest/pvr/tr.c synthesises: the three background  *)
(* vertices unpacked from ctx->bg_vertices (tr_parse_bg_vert), the         *)
(* background's fourth vertex (tr_parse_bg), and a sprite's fourth corner  *)
(* solved from the plane of the other three (tr_parse_vert_param, types   *)
(* 15 and 16).                                                             *)
(*                                                                         *)
(* Coordinates are integers and the solved z a rational [num, den]: the    *)
(* model is exact where the code rounds to float, so it shows what the     *)
(* formulas compute, not float error.  vec3_normalize scales n and d by    *)
(* the same 1/|n|, which cancels in vd.z, so n is kept unnormalised and    *)
(* |n| = 0 is n = 0.  ctx->bg_vertices is a function from word index to    *)
(* the 32-bit word there: a coordinate, or a packed colour [hi, lo].       *)
(***************************************************************************)
EXTENDS Integers, Decoders

ZeroColor == << 0, 0, 0, 0 >>

\* vec3_sub, vec3_add, vec3_cross, vec3_dot (core/math.h) on integer tuples.
VSub(x, y) == [i \in DOMAIN x |-> x[i] - y[i]]
VAdd(x, y) == [i \in DOMAIN x |-> x[i] + y[i]]
Cross(x, y) ==
  << x[2] * y[3] - x[3] * y[2], x[3] * y[1] - x[1] * y[3],
     x[1] * y[2] - x[2] * y[1] >>
Dot(x, y) == x[1] * y[1] + x[2] * y[2] + x[3] * y[3]

\* A slip in tr_parse_bg_vert: the offset colour read from the base
\* colour's word and the base colour from the word after it.
tr_parse_bg_vert_colors_swapped(bg, isp, offset) ==
  LET w(o) == bg[o \div 4]
      o1 == offset + 12
      o2 == IF isp.texture THEN o1 + 8 ELSE o1
      o3 == o2 + 4
  IN  [vert |-> [xyz |-> << w(offset), w(offset + 4), w(offset + 8) >>,
                 uv |-> IF isp.texture THEN << w(o1), w(o1 + 4) >> ELSE << 0, 0 >>,
                 color |-> PARSE_PACKED_COLOR(IF isp.offset THEN w(o3) ELSE w(o2)),
                 offset_color |-> IF isp.offset THEN PARSE_PACKED_COLOR(w(o2))
                                  ELSE ZeroColor],
       offset |-> IF isp.offset THEN o3 + 4 ELSE o3]

\* tr_parse_bg_vert: xyz, then uv if bg_isp.texture, the base colour, then
\* the offset colour if bg_isp.offset; fields it does not read stay as
\* tr_reserve_vert's memset left them.  Returns the vertex and the offset
\* of the next one.
tr_parse_bg_vert(bg, isp, offset) ==
  LET w(o) == bg[o \div 4]
      o1 == offset + 12
      o2 == IF isp.texture THEN o1 + 8 ELSE o1
      o3 == o2 + 4
  IN  [vert |-> [xyz |-> << w(offset), w(offset + 4), w(offset + 8) >>,
                 uv |-> IF isp.texture THEN << w(o1), w(o1 + 4) >> ELSE << 0, 0 >>,
                 color |-> PARSE_PACKED_COLOR(w(o2)),
                 offset_color |-> IF isp.offset THEN PARSE_PACKED_COLOR(w(o3))
                                  ELSE ZeroColor],
       offset |-> IF isp.offset THEN o3 + 4 ELSE o3]

\* tr_parse_bg after the surface setup: three vertices parsed back to back
\* from offset 0, the fourth made from them; colours copied from va.
tr_parse_bg_verts(bg, isp) ==
  LET pa == tr_parse_bg_vert(bg, isp, 0)
      pb == tr_parse_bg_vert(bg, isp, pa.offset)
      pc == tr_parse_bg_vert(bg, isp, pb.offset)
      va == pa.vert
      vb == pb.vert
      vc == pc.vert
      vd == [xyz |-> VAdd(VAdd(vb.xyz, VSub(vb.xyz, va.xyz)), VSub(vc.xyz, va.xyz)),
             uv |-> VAdd(VAdd(vb.uv, VSub(vb.uv, va.uv)), VSub(vc.uv, va.uv)),
             color |-> va.color, offset_color |-> va.offset_color]
  IN  << va, vb, vc, vd >>

\* A slip in the plane solve, the one the comment above it makes:
\* n.x * p.y in place of n.x * p.x.
SpriteCorner_comment(va, vb, vc, dxy) ==
  LET n == Cross(VSub(va.xyz, vb.xyz), VSub(vc.xyz, vb.xyz))
  IN  IF n = << 0, 0, 0 >> \/ n[3] = 0 THEN [committed |-> FALSE]
      ELSE [committed |-> TRUE,
            z |-> [num |-> Dot(n, vb.xyz) - n[1] * dxy[2] - n[2] * dxy[2],
                   den |-> n[3]],
            uv |-> VAdd(VAdd(vb.uv, VSub(va.uv, vb.uv)), VSub(vc.uv, vb.uv))]

\* A slip in the degenerate test: only |n| = 0 drops the sprite.
SpriteCorner_len_only(va, vb, vc, dxy) ==
  LET n == Cross(VSub(va.xyz, vb.xyz), VSub(vc.xyz, vb.xyz))
  IN  IF n = << 0, 0, 0 >> THEN [committed |-> FALSE]
      ELSE [committed |-> TRUE,
            z |-> [num |-> Dot(n, vb.xyz) - n[1] * dxy[1] - n[2] * dxy[2],
                   den |-> n[3]],
            uv |-> VAdd(VAdd(vb.uv, VSub(va.uv, vb.uv)), VSub(vc.uv, vb.uv))]

\* The sprite's fourth corner vd (types 15, 16) from the bottom-left va,
\* top-left vb and top-right vc: n = cross(a - b, c - b), d = dot(n, b);
\* the sprite is dropped (return before tr_commit_surf) if |n| = 0 or
\* n.z = 0, otherwise vd.z = (d - n.x * vd.x - n.y * vd.y) / n.z and
\* vd.uv = vb + (va - vb) + (vc - vb).
SpriteCorner(va, vb, vc, dxy) ==
  LET n == Cross(VSub(va.xyz, vb.xyz), VSub(vc.xyz, vb.xyz))
  IN  IF n = << 0, 0, 0 >> \/ n[3] = 0 THEN [committed |-> FALSE]
      ELSE [committed |-> TRUE,
            z |-> [num |-> Dot(n, vb.xyz) - n[1] * dxy[1] - n[2] * dxy[2],
                   den |-> n[3]],
            uv |-> VAdd(VAdd(vb.uv, VSub(va.uv, vb.uv)), VSub(vc.uv, vb.uv))]
=============================================================================
