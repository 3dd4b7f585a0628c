---------------------------- MODULE SurfaceSort ----------------------------
(***************************************************************************)
(* The depth sort of translucent and punch-through surfaces (spec 4.7).    *)
(* tr_compare_surf is translated from src/src/guest/pvr/tr.c; the merge    *)
(* sort msort_noalloc lives in core/sort.c, which is not part of the       *)
(* sources under src/, and is modelled from the spec: a top-down merge     *)
(* sort that splits at num / 2 and, when merging, takes the left element   *)
(* whenever the comparator accepts the pair (left, right).                 *)
(*                                                                         *)
(* A list is a sequence of surface indices; minz maps a surface index to  *)
(* the smallest z of its three vertices (sort_minz in tr.c).               *)
(***************************************************************************)
EXTENDS Integers, Sequences, FiniteSets

\* A plausible slip in the comparator: strict instead of non-strict.
tr_compare_surf_strict(minz, i, j) == minz[i] < minz[j]

\* tr_compare_surf: surface i may go before surface j when its minz is not
\* larger.  Returning "<=" is what makes the merge sort stable.
tr_compare_surf(minz, i, j) == minz[i] <= minz[j]

\* The merge step of msort_noalloc: merge two sorted runs a and b.
RECURSIVE msort_merge(_, _, _)
msort_merge(minz, a, b) ==
  IF a = << >> THEN b
  ELSE IF b = << >> THEN a
  ELSE IF tr_compare_surf(minz, Head(a), Head(b))
       THEN << Head(a) >> \o msort_merge(minz, Tail(a), b)
       ELSE << Head(b) >> \o msort_merge(minz, a, Tail(b))

\* msort_noalloc(list->surfs, sort_tmp, num_surfs, sizeof(int), cmp)
RECURSIVE msort_noalloc(_, _)
msort_noalloc(minz, s) ==
  IF Len(s) <= 1 THEN s
  ELSE LET middle == Len(s) \div 2
       IN  msort_merge(minz,
                       msort_noalloc(minz, SubSeq(s, 1, middle)),
                       msort_noalloc(minz, SubSeq(s, middle + 1, Len(s))))

(***************************************************************************)
(* Reference definition of what the sort promises (spec 4.7 and 8.4): the *)
(* output is a permutation of the input, ascending in minz, and surfaces  *)
(* with equal minz keep their submission (input) order.                    *)
(***************************************************************************)
IsPermutationOf(t, s) ==
  /\ Len(t) = Len(s)
  /\ \A x \in {s[k] : k \in DOMAIN s} :
        Cardinality({k \in DOMAIN t : t[k] = x})
          = Cardinality({k \in DOMAIN s : s[k] = x})

PositionIn(s, x) == CHOOSE k \in DOMAIN s : s[k] = x

StablySortedFrom(minz, t, s) ==
  /\ IsPermutationOf(t, s)
  /\ \A k \in 1..(Len(t) - 1) :
        \/ minz[t[k]] < minz[t[k + 1]]
        \/ /\ minz[t[k]] = minz[t[k + 1]]
           /\ PositionIn(s, t[k]) < PositionIn(s, t[k + 1])
=============================================================================
