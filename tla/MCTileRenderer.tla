--------------------------- MODULE MCTileRenderer ---------------------------
(***************************************************************************)
(* Instantiates TileRenderer for TLC.  The .cfg files pick the bounds and *)
(* the stream alphabet through the definitions below.                      *)
(***************************************************************************)
EXTENDS TileRenderer, TLC

CONSTANTS g1, g2  \* two global parameter states

\* Front-end derived (poly_type, vert_type) pairs: a polygon with packed
\* colour, a sprite, a modifier volume, and a two-volume polygon (poly
\* type 3) that tr_parse_poly_param does not support.
FormPolygon == [poly_type |-> 0, vert_type |-> 0]
FormSprite == [poly_type |-> 5, vert_type |-> 15]
FormVolume == [poly_type |-> 6, vert_type |-> 17]
FormTwoVolume == [poly_type |-> 3, vert_type |-> 9]

AllForms == {FormPolygon, FormSprite, FormVolume, FormTwoVolume}
DrawnForms == {FormPolygon, FormSprite}
PolygonForms == {FormPolygon}

States2 == {g1, g2}
States1 == {g1}

DrawnLists == {TA_LIST_OPAQUE, TA_LIST_TRANSLUCENT, TA_LIST_PUNCH_THROUGH}
AllStreamLists == DrawnLists \cup {TA_LIST_OPAQUE_MODVOL}
SortedLists == {TA_LIST_TRANSLUCENT, TA_LIST_PUNCH_THROUGH}
PunchThroughOnly == {TA_LIST_PUNCH_THROUGH}
LessMode == {4}                 \* DEPTH_LESS
SrcAlpha == {4}                 \* BLEND_SRC_ALPHA
DstInvAlpha == {5}              \* BLEND_ONE_MINUS_SRC_ALPHA
TwoDepths == {1, 2}
OneDepth == {1}

Symmetry == Permutations(States2)

-----------------------------------------------------------------------------
(***************************************************************************)
(* Refinement: tr_convert_context followed by tr_render_context_until     *)
(* implements TRAbstract.  A triangle is a vertex triple with its params;  *)
(* the described triangles are those of the strips the stream ended       *)
(* (StreamTris), the shown ones those the backend drew (DrawnTris).       *)
(***************************************************************************)
AllTriangles == [params : Params, tri : VertIdx \X VertIdx \X VertIdx]

Stage ==
  CASE phase = "idle" -> "idle"
    [] phase \in {"parse", "index"} -> "building"
    [] phase = "converted" -> "converted"
    [] phase = "rendered" -> "rendered"
    [] phase = "fatal" -> "fatal"

TRA == INSTANCE TRAbstract
         WITH Triangles <- AllTriangles, stage <- Stage,
              described <- StreamTris, shown <- DrawnTris,
              whole <- (end_surf = -1)

\* Spec 1, 4.8, 4.9: while tr_convert_context parses, sorts and generates
\* indices, no triangle of a strip the stream ended is lost or altered
\* (tr_reserve_vert, tr_commit_surf and list compaction never overwrite
\* one); tr_render_context draws exactly those triangles, each once, and
\* tr_render_context_until draws some of them, each at most once.
ImplementsTRAbstract == TRA!ASpec
=============================================================================
