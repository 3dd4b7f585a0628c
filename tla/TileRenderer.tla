---------------------------- MODULE TileRenderer ----------------------------
(***************************************************************************)
(* The tile accelerator renderer core of src/src/guest/pvr/tr.c:           *)
(* tr_convert_context walks a TA parameter stream, turning global (poly)   *)
(* parameters into surfaces and vertex parameters into vertices,           *)
(* committing a surface at every end of strip; it then depth sorts the    *)
(* translucent and punch-through lists and generates triangle indices,     *)
(* merging adjacent surfaces with equal state.  tr_render_context_until   *)
(* then hands the lists to the backend.                                    *)
(*                                                                         *)
(* Data is abstracted to what the properties tell apart: a vertex keeps   *)
(* its z (the sort key) and colours, uvs and x/y are left out; a surface  *)
(* keeps the depth function, the blend functions and the alpha test, and  *)
(* folds the rest of its global parameter (cull, shade, alpha flags,      *)
(* texture handle) into one value, state.  Vertices carry three history   *)
(* fields that no code reads: strip and pos (which strip of the stream     *)
(* the vertex was fed in, and at which position) and gp (the surface      *)
(* parameters of the global parameter in force when it was fed).          *)
(***************************************************************************)
EXTENDS Integers, Sequences, SequencesExt, SurfaceSort

CONSTANTS
  MaxSurfs,         \* ARRAY_SIZE(rc->surfs)
  MaxVerts,         \* ARRAY_SIZE(rc->verts)
  MaxIndices,       \* ARRAY_SIZE(rc->indices)
  MaxParams,        \* most parameters one TA context holds (ctx->size)
  StreamLists,      \* list types the PCWs of the stream name
  PolyForms,        \* [poly_type, vert_type] the front-end derives from a PCW
  DepthModes,       \* isp.depth_compare_mode values
  SrcInstrs,        \* tsp.src_alpha_instr values
  DstInstrs,        \* tsp.dst_alpha_instr values
  GlobalStates,     \* the rest of a global parameter's ISP/TSP/TCW words
  Depths,           \* vertex z values
  Autosort,         \* ctx->autosort values
  MinStripVerts,    \* fewest vertices the stream puts in a polygon strip
  DegenerateSprites \* whether the stream holds degenerate sprites

\* enum ta_list_type; TA_NUM_LISTS doubles as "no list".
TA_LIST_OPAQUE == 0
TA_LIST_OPAQUE_MODVOL == 1
TA_LIST_TRANSLUCENT == 2
TA_LIST_TRANSLUCENT_MODVOL == 3
TA_LIST_PUNCH_THROUGH == 4
TA_NUM_LISTS == 5
ListTypes == 0..(TA_NUM_LISTS - 1)
ModvolLists == {TA_LIST_OPAQUE_MODVOL, TA_LIST_TRANSLUCENT_MODVOL}
\* vertex types: 0..8 polygon strips, 15 and 16 sprites, 17 volumes.
StripVertTypes == 0..8
SpriteVertTypes == {15, 16}
TA_NUM_VERTS == 18

ASSUME /\ MaxSurfs \in Nat \ {0} /\ MaxVerts \in Nat /\ MaxIndices \in Nat
       /\ MaxParams \in Nat /\ StreamLists \subseteq ListTypes
       /\ DepthModes \subseteq 0..7 /\ SrcInstrs \subseteq 0..7
       /\ DstInstrs \subseteq 0..7 /\ Depths \subseteq Int
       /\ Autosort \subseteq BOOLEAN /\ DegenerateSprites \subseteq BOOLEAN
       /\ MinStripVerts \in Nat \ {0}

SurfIdx == 0..(MaxSurfs - 1)
VertIdx == 0..(MaxVerts - 1)

translate_depth_func(m) ==
  << "NEVER", "GREATER", "EQUAL", "GEQUAL",
     "LESS", "NEQUAL", "LEQUAL", "ALWAYS" >>[m + 1]

translate_src_blend_func(b) ==
  << "ZERO", "ONE", "DST_COLOR", "ONE_MINUS_DST_COLOR",
     "SRC_ALPHA", "ONE_MINUS_SRC_ALPHA", "DST_ALPHA", "ONE_MINUS_DST_ALPHA" >>[b + 1]

translate_dst_blend_func(b) ==
  << "ZERO", "ONE", "SRC_COLOR", "ONE_MINUS_SRC_COLOR",
     "SRC_ALPHA", "ONE_MINUS_SRC_ALPHA", "DST_ALPHA", "ONE_MINUS_DST_ALPHA" >>[b + 1]

\* A global parameter as the stream carries it.
GlobalParams ==
  [mode : DepthModes, src : SrcInstrs, dst : DstInstrs, state : GlobalStates]

\* surf->params after memset(surf, 0, ...).
ZeroParams ==
  [depth_func |-> "NEVER", src_blend |-> "ZERO", dst_blend |-> "ZERO",
   alpha_test |-> FALSE, state |-> "zero"]

\* surf->params of the background: tr_parse_bg.
BgParams(g) ==
  [ZeroParams EXCEPT !.depth_func = translate_depth_func(g.mode),
                     !.src_blend = "NONE", !.dst_blend = "NONE",
                     !.state = g.state]

\* surf->params of a new surface: the translation and the list-type
\* overrides of tr_parse_poly_param, in the code's order.
PolyParams(g, list_type, autosort) ==
  LET p == [depth_func |-> translate_depth_func(g.mode),
            src_blend  |-> translate_src_blend_func(g.src),
            dst_blend  |-> translate_dst_blend_func(g.dst),
            alpha_test |-> list_type = TA_LIST_PUNCH_THROUGH,
            state      |-> g.state]
      translucent == list_type \in {TA_LIST_TRANSLUCENT, TA_LIST_TRANSLUCENT_MODVOL}
  IN  IF ~translucent
        THEN [p EXCEPT !.src_blend = "NONE", !.dst_blend = "NONE"]
      ELSE IF translucent /\ autosort
        THEN [p EXCEPT !.depth_func = "LEQUAL"]
      ELSE IF list_type = TA_LIST_PUNCH_THROUGH
        THEN [p EXCEPT !.depth_func = "GEQUAL"]
      ELSE p

\* A surface after memset(surf, 0, ...).
ZeroSurf == [params |-> ZeroParams, strip_offset |-> 0,
             first_vert |-> 0, num_verts |-> 0]

\* What a slot of rc->verts / rc->surfs holds before this conversion wrote it.
StaleParams == [ZeroParams EXCEPT !.state = "stale"]
StaleVert == [z |-> 0, strip |-> -1, pos |-> 0, gp |-> StaleParams]
StaleSurf == [ZeroSurf EXCEPT !.params = StaleParams]

(***************************************************************************)
(* Operations on the render context rc.  rc.fatal records that a CHECK or *)
(* LOG_FATAL fired: the process aborts, so every operation leaves a fatal  *)
(* context alone.                                                          *)
(***************************************************************************)
Abort(r) == [r EXCEPT !.fatal = TRUE]

\* tr_reset: the render context counters and lists.
tr_reset(r) ==
  [r EXCEPT !.params = << >>, !.num_surfs = 0, !.num_verts = 0,
            !.indices = << >>,
            !.lists = [l \in ListTypes |-> [surfs |-> << >>, num_orig_surfs |-> 0]]]

\* tr_reserve_surf: open surface rc->surfs[num_surfs], zeroed or copied from
\* the surface before it.
tr_reserve_surf(r, copy_from_prev) ==
  IF r.fatal THEN r
  ELSE IF ~(r.num_surfs < MaxSurfs) THEN Abort(r)
  ELSE IF copy_from_prev /\ r.num_surfs = 0 THEN Abort(r)
  ELSE LET s == IF copy_from_prev THEN r.surfs[r.num_surfs - 1]
                ELSE ZeroSurf
       IN  [r EXCEPT !.surfs[r.num_surfs] =
                       [s EXCEPT !.first_vert = r.num_verts, !.num_verts = 0]]

\* A slip in tr_reserve_vert: the CHECK_LT on the vertex capacity dropped.
tr_reserve_vert_unchecked(r, v) ==
  LET vert_index == r.num_verts + r.surfs[r.num_surfs].num_verts
  IN  IF r.fatal THEN r
      ELSE [r EXCEPT !.verts = [i \in DOMAIN @ \cup {vert_index} |->
                                  IF i = vert_index THEN v ELSE @[i]],
                     !.surfs[r.num_surfs].num_verts = @ + 1]

\* tr_reserve_vert: the next vertex of the open surface.
tr_reserve_vert(r, v) ==
  LET vert_index == r.num_verts + r.surfs[r.num_surfs].num_verts
  IN  IF r.fatal THEN r
      ELSE IF ~(vert_index < MaxVerts) THEN Abort(r)
      ELSE [r EXCEPT !.verts[vert_index] = v,
                     !.surfs[r.num_surfs].num_verts = @ + 1]

\* The loop of tr_commit_surf for translucent and punch-through lists: one
\* single-triangle surface per triangle i of the strip, the first reusing
\* the open surface and the others reserved as copies of the one before.
RECURSIVE CommitTris(_, _, _, _)
CommitTris(r, l, i, num_verts) ==
  IF r.fatal \/ ~(i < num_verts - 2) THEN r
  ELSE LET r1 == IF i = 0 THEN r ELSE tr_reserve_surf(r, TRUE)
           r2 == [r1 EXCEPT
                    !.surfs[r1.num_surfs] = [@ EXCEPT !.strip_offset = i,
                                                      !.first_vert = r1.num_verts,
                                                      !.num_verts = 3],
                    !.lists[l].surfs = Append(@, r1.num_surfs),
                    !.num_verts = @ + 1,
                    !.num_surfs = @ + 1]
       IN  IF r1.fatal THEN r1 ELSE CommitTris(r2, l, i + 1, num_verts)

\* A slip in tr_commit_surf: the last two vertices of a translucent strip
\* are not committed.
tr_commit_surf_no_tail(r, l) ==
  LET new_surf == r.surfs[r.num_surfs]
      r1 == [r EXCEPT !.lists[l].num_orig_surfs = @ + 1]
  IN  IF r.fatal THEN r
      ELSE IF l \in {TA_LIST_TRANSLUCENT, TA_LIST_PUNCH_THROUGH}
        THEN CommitTris(r1, l, 0, new_surf.num_verts)
      ELSE [r1 EXCEPT !.lists[l].surfs = Append(@, r.num_surfs),
                      !.num_verts = @ + new_surf.num_verts,
                      !.num_surfs = @ + 1]

\* tr_commit_surf: commit the open surface to list l.
tr_commit_surf(r, l) ==
  LET new_surf == r.surfs[r.num_surfs]
      r1 == [r EXCEPT !.lists[l].num_orig_surfs = @ + 1]
      r2 == CommitTris(r1, l, 0, new_surf.num_verts)
  IN  IF r.fatal THEN r
      ELSE IF l \in {TA_LIST_TRANSLUCENT, TA_LIST_PUNCH_THROUGH}
        THEN IF r2.fatal THEN r2 ELSE [r2 EXCEPT !.num_verts = @ + 2]
      ELSE [r1 EXCEPT !.lists[l].surfs = Append(@, r.num_surfs),
                      !.num_verts = @ + new_surf.num_verts,
                      !.num_surfs = @ + 1]

\* The smallest z of the three vertices of surface s (sort_minz[s]).
SurfMinZ(r, s) ==
  LET f == r.surfs[s].first_vert
  IN  Min({r.verts[f].z, r.verts[f + 1].z, r.verts[f + 2].z})

\* tr_sort_surfaces: sort list l back to front by minz.
tr_sort_surfaces(r, l) ==
  LET lst == r.lists[l].surfs
      minz == [s \in SurfIdx |-> IF \E k \in DOMAIN lst : lst[k] = s
                                 THEN SurfMinZ(r, s) ELSE 0]
  IN  IF r.fatal THEN r
      ELSE IF \E k \in DOMAIN lst : r.surfs[lst[k]].num_verts # 3 THEN Abort(r)
      ELSE [r EXCEPT !.lists[l].surfs = msort_noalloc(minz, lst)]

\* A slip in tr_can_merge_surfs: whole surfaces compared, not their params.
tr_can_merge_surfs_whole(a, b) == a = b

\* tr_can_merge_surfs
tr_can_merge_surfs(a, b) == a.params = b.params

\* A slip in the winding of tr_generate_indices: odd offsets flipped.
SurfIndices_flipped(s) ==
  FlattenSeq([j \in 1..(s.num_verts - 2) |->
    LET v == s.first_vert + j - 1
    IN  IF (s.strip_offset + j - 1) % 2 = 0 THEN << v, v + 1, v + 2 >>
                                           ELSE << v, v + 2, v + 1 >>])

\* The triangle indices the inner loop of tr_generate_indices emits for
\* surface s: counter-clockwise from a clockwise strip.
SurfIndices(s) ==
  FlattenSeq([j \in 1..(s.num_verts - 2) |->
    LET v == s.first_vert + j - 1
    IN  IF (s.strip_offset + j - 1) % 2 = 1 THEN << v, v + 1, v + 2 >>
                                           ELSE << v, v + 2, v + 1 >>])

\* The first position j > i of lst whose surface cannot merge with root.
RECURSIVE GroupEnd(_, _, _, _)
GroupEnd(r, lst, root, j) ==
  IF j < Len(lst) /\ tr_can_merge_surfs(r.surfs[root], r.surfs[lst[j + 1]])
  THEN GroupEnd(r, lst, root, j + 1)
  ELSE j

\* Emit the indices of the surfaces at positions k..j-1 of lst, each after
\* the CHECK_LT on the index capacity.
RECURSIVE EmitGroup(_, _, _, _)
EmitGroup(r, lst, k, j) ==
  LET s == r.surfs[lst[k + 1]]
  IN  IF r.fatal \/ k >= j THEN r
      ELSE IF ~(Len(r.indices) + (s.num_verts - 2) * 3 < MaxIndices) THEN Abort(r)
      ELSE EmitGroup([r EXCEPT !.indices = @ \o SurfIndices(s)], lst, k + 1, j)

\* A slip in tr_generate_indices: the group's first index is recorded after
\* its indices are emitted instead of before.
RECURSIVE GenGroups_late_first(_, _, _, _)
GenGroups_late_first(r, l, i, num_merged) ==
  LET lst == r.lists[l].surfs
  IN  IF r.fatal THEN r
      ELSE IF ~(i < Len(lst))
        THEN [r EXCEPT !.lists[l].surfs = SubSeq(@, 1, Len(@) - num_merged)]
      ELSE LET root == lst[i + 1]
               j == GroupEnd(r, lst, root, i + 1)
               nm == num_merged + (j - i - 1)
               e == EmitGroup(r, lst, i, j)
               r2 == [e EXCEPT !.surfs[root].first_vert = Len(e.indices),
                               !.surfs[root].num_verts = Len(e.indices) - Len(r.indices),
                               !.lists[l].surfs[j - nm] = lst[i + 1]]
           IN  IF e.fatal THEN e ELSE GenGroups_late_first(r2, l, j, nm)

\* The outer loop of tr_generate_indices from position i, num_merged
\* surfaces merged so far: emit a group, point its root at the group's
\* indices, move the root to its compacted slot.
RECURSIVE GenGroups(_, _, _, _)
GenGroups(r, l, i, num_merged) ==
  LET lst == r.lists[l].surfs
  IN  IF r.fatal THEN r
      ELSE IF ~(i < Len(lst))
        THEN [r EXCEPT !.lists[l].surfs = SubSeq(@, 1, Len(@) - num_merged)]
      ELSE LET root == lst[i + 1]
               j == GroupEnd(r, lst, root, i + 1)
               nm == num_merged + (j - i - 1)
               e == EmitGroup(r, lst, i, j)
               r2 == [e EXCEPT !.surfs[root].first_vert = Len(r.indices),
                               !.surfs[root].num_verts = Len(e.indices) - Len(r.indices),
                               !.lists[l].surfs[j - nm] = lst[i + 1]]
           IN  IF e.fatal THEN e ELSE GenGroups(r2, l, j, nm)

\* tr_generate_indices for list l.
tr_generate_indices(r, l) == GenGroups(r, l, 0, 0)

\* tr_render_list: draw the surfaces of list l until end_surf is drawn.
\* acc is [drawn |-> draw calls so far, stopped |-> *stopped].
tr_render_list(r, l, end_surf, acc) ==
  LET lst == r.lists[l].surfs
      stop == {k \in DOMAIN lst : lst[k] = end_surf}
      n == IF stop = {} THEN Len(lst) ELSE Min(stop)
  IN  IF acc.stopped THEN acc
      ELSE [drawn |-> acc.drawn \o SubSeq(lst, 1, n), stopped |-> stop # {}]

\* tr_render_context_until: the draw calls, in order, between
\* r_begin_ta_surfaces and r_end_ta_surfaces.
tr_render_context_until(r, end_surf) ==
  LET a0 == [drawn |-> << >>, stopped |-> FALSE]
      a1 == tr_render_list(r, TA_LIST_OPAQUE, end_surf, a0)
      a2 == tr_render_list(r, TA_LIST_PUNCH_THROUGH, end_surf, a1)
      a3 == tr_render_list(r, TA_LIST_TRANSLUCENT, end_surf, a2)
  IN  a3.drawn

-----------------------------------------------------------------------------
VARIABLES
  rc,          \* struct tr_context, plus fatal
  tr,          \* struct tr: last_vertex, list_type, vert_type
  autosort,    \* ctx->autosort
  phase,       \* where tr_convert_context / the caller is
  gen_list,    \* the list tr_generate_indices handles next
  end_surf,    \* the argument of tr_render_context_until
  drawn,       \* the surfaces handed to r_draw_ta_surface, in order
  feed,        \* history: the strip being fed and how many vertices it has
  done_strips, \* history: strips the stream ended and means to be drawn
  global       \* history: surface params of the global parameter in force

vars == << rc, tr, autosort, phase, gen_list, end_surf, drawn,
           feed, done_strips, global >>

\* tr->last_vertex: NULL, or the end_of_strip bit of the vertex it points to.
NULL == [present |-> FALSE, eos |-> FALSE]

Init ==
  /\ rc = [surfs |-> [s \in SurfIdx |-> StaleSurf], num_surfs |-> 0,
           verts |-> [v \in VertIdx |-> StaleVert], num_verts |-> 0,
           indices |-> << >>, params |-> << >>, fatal |-> FALSE,
           lists |-> [l \in ListTypes |-> [surfs |-> << >>, num_orig_surfs |-> 0]]]
  /\ tr = [last_vertex |-> NULL, list_type |-> TA_NUM_LISTS,
           vert_type |-> TA_NUM_VERTS]
  /\ autosort = FALSE
  /\ phase = "idle"
  /\ gen_list = 0
  /\ end_surf = -1
  /\ drawn = << >>
  /\ feed = [strip |-> 0, fed |-> 0]
  /\ done_strips = {}
  /\ global = ZeroParams

\* The next strip starts when a vertex is fed after a strip ended.
NextStrip == IF feed.fed > 0 THEN [strip |-> feed.strip + 1, fed |-> 0] ELSE feed

\* tr_convert_context up to the parameter loop: tr_reset, then tr_parse_bg
\* synthesising the background quad (its fourth vertex is vb + (vb - va) +
\* (vc - va); with one z for the three given vertices it has that z).
ConvertBegin ==
  /\ phase = "idle"
  /\ \E g \in GlobalParams, z \in Depths, a \in Autosort :
       LET p == BgParams(g)
           v(k) == [z |-> z, strip |-> feed.strip, pos |-> k, gp |-> p]
           r0 == tr_reserve_surf(tr_reset(rc), FALSE)
           r1 == [r0 EXCEPT !.surfs[0].params = p]
           r2 == tr_reserve_vert(tr_reserve_vert(tr_reserve_vert(
                   tr_reserve_vert(r1, v(0)), v(1)), v(2)), v(3))
       IN  /\ rc' = tr_commit_surf(r2, TA_LIST_OPAQUE)
           /\ tr' = [last_vertex |-> NULL, list_type |-> TA_NUM_LISTS,
                     vert_type |-> TA_NUM_VERTS]
           /\ autosort' = a
           /\ phase' = IF rc'.fatal THEN "fatal" ELSE "parse"
           /\ feed' = [strip |-> feed.strip + 1, fed |-> 0]
           /\ done_strips' = {feed.strip}
           /\ global' = p
  /\ UNCHANGED << gen_list, end_surf, drawn >>

(***************************************************************************)
(* One iteration of the parameter loop of tr_convert_context: the list    *)
(* type of the PCW is adopted when valid, the parameter is dispatched on  *)
(* its para_type, and a tr_param is appended to rc->params.  Parameters   *)
(* are read while the context holds fewer than MaxParams.  Within an open *)
(* list every PCW names that list (the TA protocol); volumes (poly type 6) *)
(* come in modifier-volume lists and nothing else does.                    *)
(***************************************************************************)
Parsing == phase = "parse" /\ Len(rc.params) < MaxParams

\* ta_pcw_list_type_valid (guest/pvr/ta.h, not under src/; the spec's
\* reading): a PCW's list type counts only when no list is open.
ta_pcw_list_type_valid(list_type) == tr.list_type = TA_NUM_LISTS

InOpenList(l) == tr.list_type \in {TA_NUM_LISTS, l}

AdoptList(l) == IF ta_pcw_list_type_valid(l) THEN l ELSE tr.list_type

\* The tail of the loop body: record the tr_param, or abort.
Dispatched(r, t) ==
  /\ rc' = IF r.fatal THEN r
           ELSE [r EXCEPT !.params = Append(@, [list_type |-> t.list_type,
                                                vert_type |-> t.vert_type,
                                                last_surf |-> r.num_surfs - 1,
                                                last_vert |-> r.num_verts - 1])]
  /\ tr' = t
  /\ phase' = IF r.fatal THEN "fatal" ELSE "parse"

\* TA_PARAM_END_OF_LIST: tr_parse_eol.
ParseEndOfList ==
  /\ Parsing
  /\ Dispatched(rc, [last_vertex |-> NULL, list_type |-> TA_NUM_LISTS,
                     vert_type |-> TA_NUM_VERTS])
  /\ feed' = NextStrip
  /\ UNCHANGED << autosort, gen_list, end_surf, drawn, done_strips, global >>

\* TA_PARAM_USER_TILE_CLIP: ignored, but its PCW may open a list.
ParseUserTileClip ==
  /\ Parsing
  /\ \E l \in StreamLists :
       /\ InOpenList(l)
       /\ Dispatched(rc, [tr EXCEPT !.list_type = AdoptList(l)])
  /\ UNCHANGED << autosort, gen_list, end_surf, drawn, feed, done_strips, global >>

\* TA_PARAM_OBJ_LIST_SET: LOG_FATAL.
ParseObjListSet ==
  /\ Parsing
  /\ Dispatched(Abort(rc), tr)
  /\ UNCHANGED << autosort, gen_list, end_surf, drawn, feed, done_strips, global >>

\* TA_PARAM_POLY_OR_VOL and TA_PARAM_SPRITE: tr_parse_poly_param.  Face and
\* sprite colours only feed vertex colours and are not modelled.
ParsePolyParam ==
  /\ Parsing
  /\ \E l \in StreamLists, f \in PolyForms, g \in GlobalParams :
       LET list_type == AdoptList(l)
           t == [last_vertex |-> NULL, list_type |-> list_type,
                 vert_type |-> f.vert_type]
           p == PolyParams(g, list_type, autosort)
           r1 == tr_reserve_surf(rc, FALSE)
           r2 == IF r1.fatal THEN r1
                 ELSE [r1 EXCEPT !.surfs[r1.num_surfs].params = p]
       IN  /\ InOpenList(l)
           /\ (f.poly_type = 6) = (l \in ModvolLists)
           /\ CASE f.poly_type = 6 ->
                     Dispatched(rc, t) /\ UNCHANGED global
                [] f.poly_type \in {0, 1, 2, 5} ->
                     Dispatched(r2, t) /\ global' = p
                [] OTHER ->
                     Dispatched(Abort(rc), t) /\ UNCHANGED global
  /\ feed' = NextStrip
  /\ UNCHANGED << autosort, gen_list, end_surf, drawn, done_strips >>

\* TA_PARAM_VERTEX: tr_parse_vert_param.  A vertex parameter is its
\* end_of_strip bit, its z (a sprite's four corners share one z, so the
\* plane fit gives the fourth corner that z too) and, for a sprite, whether
\* its plane is degenerate (|n| = 0 or n.z = 0).
ParseVertParam ==
  /\ Parsing
  /\ \E eos \in BOOLEAN, z \in Depths,
        degenerate \in IF tr.vert_type \in SpriteVertTypes
                       THEN DegenerateSprites ELSE {FALSE} :
       LET vt == tr.vert_type
           v(k) == [z |-> z, strip |-> feed.strip, pos |-> feed.fed + k,
                    gp |-> global]
           t1 == [tr EXCEPT !.last_vertex = [present |-> TRUE, eos |-> eos]]
           r1 == IF tr.last_vertex.present /\ tr.last_vertex.eos
                 THEN tr_reserve_surf(rc, TRUE) ELSE rc
           \* polygon vertex types 0..8
           rs == tr_reserve_vert(r1, v(0))
           \* sprites: a, b, d, c reserved in strip order
           rq == tr_reserve_vert(tr_reserve_vert(tr_reserve_vert(
                   tr_reserve_vert(r1, v(0)), v(1)), v(2)), v(3))
       IN  /\ (eos /\ vt \in StripVertTypes) => feed.fed + 1 >= MinStripVerts
           /\ CASE vt = 17 ->
                     /\ Dispatched(rc, tr)
                     /\ UNCHANGED << feed, done_strips >>
                [] vt \in StripVertTypes ->
                     /\ Dispatched(IF eos THEN tr_commit_surf(rs, tr.list_type) ELSE rs, t1)
                     /\ feed' = IF eos THEN [strip |-> feed.strip + 1, fed |-> 0]
                                ELSE [feed EXCEPT !.fed = @ + 1]
                     /\ done_strips' = IF eos THEN done_strips \cup {feed.strip}
                                       ELSE done_strips
                [] vt \in SpriteVertTypes ->
                     /\ Dispatched(IF ~eos THEN Abort(r1)
                                   ELSE IF degenerate THEN rq
                                   ELSE tr_commit_surf(rq, tr.list_type), t1)
                     /\ feed' = [strip |-> feed.strip + 1, fed |-> 0]
                     /\ done_strips' = IF degenerate THEN done_strips
                                       ELSE done_strips \cup {feed.strip}
                [] OTHER ->
                     /\ Dispatched(Abort(r1), t1)
                     /\ UNCHANGED << feed, done_strips >>
  /\ UNCHANGED << autosort, gen_list, end_surf, drawn, global >>

\* The loop ends (data reaches ctx->params + ctx->size); with autosort the
\* translucent and then the punch-through list are sorted.
ConvertSort ==
  /\ phase = "parse"
  /\ rc' = IF autosort
           THEN tr_sort_surfaces(tr_sort_surfaces(rc, TA_LIST_TRANSLUCENT),
                                 TA_LIST_PUNCH_THROUGH)
           ELSE rc
  /\ phase' = IF rc'.fatal THEN "fatal" ELSE "index"
  /\ UNCHANGED << tr, autosort, gen_list, end_surf, drawn, feed, done_strips, global >>

\* The last loop of tr_convert_context: tr_generate_indices for each list.
ConvertGenerateIndices ==
  /\ phase = "index"
  /\ rc' = tr_generate_indices(rc, gen_list)
  /\ gen_list' = gen_list + 1
  /\ phase' = IF rc'.fatal THEN "fatal"
              ELSE IF gen_list = TA_NUM_LISTS - 1 THEN "converted" ELSE "index"
  /\ UNCHANGED << tr, autosort, end_surf, drawn, feed, done_strips, global >>

\* The caller renders the converted context: tr_render_context (end_surf
\* -1) or, from the tracer, tr_render_context_until with the last_surf of
\* one of the recorded parameters.
RenderContext ==
  /\ phase = "converted"
  /\ \E e \in {-1} \cup {rc.params[k].last_surf : k \in DOMAIN rc.params} :
       /\ end_surf' = e
       /\ drawn' = tr_render_context_until(rc, e)
  /\ phase' = "rendered"
  /\ UNCHANGED << rc, tr, autosort, gen_list, feed, done_strips, global >>

Next ==
  \/ ConvertBegin
  \/ ParseEndOfList
  \/ ParseUserTileClip
  \/ ParseObjListSet
  \/ ParsePolyParam
  \/ ParseVertParam
  \/ ConvertSort
  \/ ConvertGenerateIndices
  \/ RenderContext

Spec == Init /\ [][Next]_vars

-----------------------------------------------------------------------------
(***************************************************************************)
(* Properties.                                                             *)
(***************************************************************************)
Params == [depth_func : STRING, src_blend : STRING, dst_blend : STRING,
           alpha_test : BOOLEAN, state : GlobalStates \cup {"zero", "stale"}]
Surface == [params : Params, strip_offset : Nat, first_vert : Nat,
            num_verts : Nat]
Vertex == [z : Depths \cup {0}, strip : Int, pos : Nat, gp : Params]

TypeOK ==
  /\ rc.surfs \in [SurfIdx -> Surface]
  /\ rc.verts \in [VertIdx -> Vertex]
  /\ rc.num_surfs \in 0..MaxSurfs
  /\ rc.num_verts \in Nat
  /\ rc.indices \in Seq(VertIdx) /\ Len(rc.indices) <= MaxIndices
  /\ \A l \in ListTypes : rc.lists[l].surfs \in Seq(SurfIdx)
  /\ rc.fatal \in BOOLEAN
  /\ tr.list_type \in ListTypes \cup {TA_NUM_LISTS}
  /\ tr.last_vertex \in [present : BOOLEAN, eos : BOOLEAN]
  /\ phase \in {"idle", "parse", "index", "converted", "rendered", "fatal"}
  /\ gen_list \in 0..TA_NUM_LISTS
  /\ drawn \in Seq(SurfIdx)

\* The triangles the backend draws, in order, each with the params of the
\* surface drawing it (surfaces point into rc->indices after conversion).
SurfTris(s) ==
  LET sf == rc.surfs[s]
      at(k) == rc.indices[sf.first_vert + k]
  IN  [t \in 1..(sf.num_verts \div 3) |->
         [params |-> sf.params,
          tri |-> << at(3 * t - 2), at(3 * t - 1), at(3 * t) >>]]

DrawnTris == FlattenSeq([k \in 1..Len(drawn) |-> SurfTris(drawn[k])])

\* The triangles the stream describes: for every strip it ended (and did
\* not drop as a degenerate sprite), one triangle per three consecutive
\* vertices, counter-clockwise from the clockwise strip, with the params
\* of the global parameter the strip was fed under.
StreamTriStart(v) ==
  /\ rc.verts[v].strip \in done_strips
  /\ \A d \in 1..2 : /\ rc.verts[v + d].strip = rc.verts[v].strip
                     /\ rc.verts[v + d].pos = rc.verts[v].pos + d

StreamTris ==
  { [params |-> rc.verts[v].gp,
     tri |-> IF rc.verts[v].pos % 2 = 1 THEN << v, v + 1, v + 2 >>
                                        ELSE << v, v + 2, v + 1 >>] :
      v \in { v \in 0..(Min({rc.num_verts, MaxVerts}) - 3) : StreamTriStart(v) } }

\* End to end (spec 4.4, 4.6, 4.8, 4.9): rendering the whole context draws
\* every triangle of every strip the stream ended exactly once, wound
\* counter-clockwise, with the state of the global parameter the strip was
\* fed under; strip inheritance (tr_reserve_surf copying the previous
\* surface), per-triangle splitting, sorting, merging and list compaction
\* must all conspire to keep this.
DrawnMatchesStream ==
  phase = "rendered" /\ end_surf = -1 =>
    /\ ToSet(DrawnTris) = StreamTris
    /\ Len(DrawnTris) = Cardinality(StreamTris)

\* Spec 8.4: after tr_sort_surfaces and until tr_generate_indices rewrites
\* them, the translucent and punch-through lists run back to front by
\* minz, and surfaces of equal minz keep their submission order.
SortedBackToFront ==
  \A l \in {TA_LIST_TRANSLUCENT, TA_LIST_PUNCH_THROUGH} :
    (autosort /\ phase = "index" /\ gen_list <= l) =>
      LET lst == rc.lists[l].surfs
      IN  \A k \in 1..(Len(lst) - 1) :
            \/ SurfMinZ(rc, lst[k]) < SurfMinZ(rc, lst[k + 1])
            \/ /\ SurfMinZ(rc, lst[k]) = SurfMinZ(rc, lst[k + 1])
               /\ lst[k] < lst[k + 1]

\* Spec 8.5: once tr_generate_indices has handled a list, no two adjacent
\* surfaces of it have equal params (every mergeable run was merged).
GeneratedLists ==
  IF phase = "index" THEN 0..(gen_list - 1)
  ELSE IF phase \in {"converted", "rendered"} THEN ListTypes ELSE {}

MergedMaximal ==
  \A l \in GeneratedLists :
    LET lst == rc.lists[l].surfs
    IN  \A k \in 1..(Len(lst) - 1) :
          rc.surfs[lst[k]].params # rc.surfs[lst[k + 1]].params

\* The surfaces some list holds, and the vertices those surfaces span.
ListedSurfs(r) == UNION {ToSet(r.lists[l].surfs) : l \in ListTypes}
ListedVerts(r) ==
  UNION {r.surfs[s].first_vert .. (r.surfs[s].first_vert + r.surfs[s].num_verts - 1) :
           s \in ListedSurfs(r)}

\* No parsing step rewrites a committed surface or a vertex a committed
\* surface draws: whatever a vertex handler writes lands in the open
\* surface and beyond every committed strip.  "Committed" is what the lists
\* reference, not what rc->num_surfs / rc->num_verts claim, so a slip in
\* those counters (tr_reserve_surf, tr_reserve_vert, tr_commit_surf) that
\* lets a later strip overwrite an earlier one is caught.
CommittedDataFrozen ==
  [][phase = "parse" /\ phase' = "parse" =>
       /\ \A s \in ListedSurfs(rc) : rc'.surfs[s] = rc.surfs[s]
       /\ \A v \in ListedVerts(rc) \cap VertIdx : rc'.verts[v] = rc.verts[v]]_vars

\* Spec 3, invariants 1-3 for the index buffer: rc->indices stays within
\* its capacity, every index names a vertex the conversion wrote, and once
\* tr_generate_indices has run every listed surface's range lies inside
\* rc->indices (the root rewrite of every merged group points at exactly
\* the indices the group emitted).
IndexBufferConsistent ==
  /\ Len(rc.indices) <= MaxIndices
  /\ \A k \in DOMAIN rc.indices : rc.indices[k] < rc.num_verts
  /\ phase \in {"converted", "rendered"} =>
       \A s \in ListedSurfs(rc) :
         rc.surfs[s].first_vert + rc.surfs[s].num_verts <= Len(rc.indices)

\* The indices tr_generate_indices must emit for list l: three per
\* triangle of every surface of it.
ListIndexCount(r, l) ==
  FoldSeq(LAMBDA s, acc : acc + (r.surfs[s].num_verts - 2) * 3, 0, r.lists[l].surfs)

\* Spec 3, invariant 1 for the index buffer: exceeding its capacity is
\* fatal, so tr_generate_indices aborts a list only when its indices do
\* not fit in what rc->indices has left (the CHECK_LT in the merge loop).
IndexAbortOnlyOnOverflow ==
  [][phase = "index" /\ phase' = "fatal" =>
       Len(rc.indices) + ListIndexCount(rc, gen_list) > MaxIndices]_vars

\* Spec 4.9 read with the params trail of spec 3: rendering until the
\* last_surf a parameter recorded (a surface committed when it was parsed)
\* stops right after the draw that covers it: the surface itself if it is
\* still in a list, else the group root whose indices include its first
\* vertex (tr_generate_indices leaves a merged member's first_vert alone).
ListedAnywhere(r, s) == \E l \in ListTypes : s \in ToSet(r.lists[l].surfs)

CoversVertex(r, s, v) ==
  \E i \in 1..r.surfs[s].num_verts : r.indices[r.surfs[s].first_vert + i] = v

RenderUntilStopsAtRecordedSurface ==
  (phase = "rendered" /\ end_surf \in 0..(rc.num_surfs - 1)) =>
    /\ drawn # << >>
    /\ IF ListedAnywhere(rc, end_surf) THEN drawn[Len(drawn)] = end_surf
       ELSE CoversVertex(rc, drawn[Len(drawn)], rc.surfs[end_surf].first_vert)

\* Spec 3, invariant 1: rc->num_verts never exceeds ARRAY_SIZE(rc->verts).
VertsWithinCapacity == rc.num_verts <= MaxVerts

\* Spec 4.3, override 3: every surface of the punch-through list tests
\* alpha and uses depth function GEQUAL.
PunchThroughDepthGequal ==
  \A k \in DOMAIN rc.lists[TA_LIST_PUNCH_THROUGH].surfs :
    LET p == rc.surfs[rc.lists[TA_LIST_PUNCH_THROUGH].surfs[k]].params
    IN  p.alpha_test /\ p.depth_func = "GEQUAL"
=============================================================================
