---------------------------- MODULE TRAbstract ----------------------------
(***************************************************************************)
(* What converting and rendering a TA context promises, without surfaces, *)
(* lists or indices (spec 1, 4.8, 4.9).  The stream describes a set of     *)
(* triangles, each a triple of vertices with the render state it is drawn  *)
(* with.  While the context is being built that set only grows: nothing   *)
(* already described is changed or forgotten.  Conversion ends or aborts; *)
(* rendering the whole converted context draws every described triangle   *)
(* exactly once, and rendering up to a surface draws some of them, each at *)
(* most once.                                                              *)
(***************************************************************************)
EXTENDS Sequences, Functions

CONSTANT Triangles  \* every triangle a stream can describe

VARIABLES
  stage,      \* "idle", "building", "converted", "rendered" or "fatal"
  described,  \* the triangles the stream so far describes
  shown,      \* the triangles drawn, in order
  whole       \* whether the render asked for is of the whole context

avars == << stage, described, shown, whole >>

AInit == stage = "idle" /\ described = {} /\ shown = << >> /\ whole = TRUE

\* A conversion starts with the background it is given (and may fail on it).
Begin ==
  /\ stage = "idle"
  /\ stage' \in {"building", "fatal"}
  /\ described' \subseteq Triangles
  /\ UNCHANGED << shown, whole >>

\* A parameter, a sort or an index pass: triangles may only be added.
Build ==
  /\ stage = "building"
  /\ described \subseteq described'
  /\ described' \subseteq Triangles
  /\ UNCHANGED << stage, shown, whole >>

Finish ==
  /\ stage = "building"
  /\ stage' = "converted"
  /\ UNCHANGED << described, shown, whole >>

\* A fatal error ends the conversion; what it built is no longer promised.
Fail ==
  /\ stage = "building"
  /\ stage' = "fatal"
  /\ described' \subseteq Triangles
  /\ UNCHANGED << shown, whole >>

\* Rendering the whole context, or up to a surface.
Render ==
  /\ stage = "converted"
  /\ stage' = "rendered"
  /\ IsInjective(shown')
  /\ Range(shown') \subseteq described
  /\ whole' => Range(shown') = described
  /\ UNCHANGED described

ANext == Begin \/ Build \/ Finish \/ Fail \/ Render

ASpec == AInit /\ [][ANext]_avars
=============================================================================
