------------------------------ MODULE TagReducer -------------------------------
(***************************************************************************)
(* StaSlackTagReducer: collapsing the tags of a set whose arrival times    *)
(* fall into the same delay bin.  Tags are shared objects: a tag set holds *)
(* references <<node, index>> into a heap of tags, one sequence of tags    *)
(* per node, and a merge updates the object every set that holds it sees.  *)
(*                                                                         *)
(* A bin size is a rational [num, den], num = 0 meaning no binning, and a  *)
(* threshold is a set of at most one number, {} standing for NaN.          *)
(***************************************************************************)
EXTENDS Integers, Sequences, SequencesExt, FiniteSetsExt

At(heap, t) == heap[t[1]][t[2]]

SameBin(size, x, y) ==
    IF size.num = 0 THEN x = y
    ELSE (x * size.den) \div size.num = (y * size.den) \div size.num

Beyond(arr, thr) == \E limit \in thr : arr > limit

(* Mutant: tags of different transitions are merged.                       *)
JoinableAnyTransition(heap, t, r, coarse, fine, thr) ==
    /\ ~(Beyond(At(heap, t).arr, thr) /\ ~Beyond(At(heap, r).arr, thr))
    /\ SameBin(IF Beyond(At(heap, r).arr, thr) THEN fine ELSE coarse,
               At(heap, t).arr, At(heap, r).arr)

(* bin_tag_pred: whether tag t may be merged with the collected tag r.     *)
Joinable(heap, t, r, coarse, fine, thr) ==
    LET tag == At(heap, t)
        rep == At(heap, r)
    IN /\ tag.trans = rep.trans
       /\ ~(Beyond(tag.arr, thr) /\ ~Beyond(rep.arr, thr))
       /\ SameBin(IF Beyond(rep.arr, thr) THEN fine ELSE coarse, tag.arr, rep.arr)

(* Mutants: the scenarios of t are lost; r keeps its own arrival.          *)
AbsorbArrivalOnly(heap, r, t) ==
    [heap EXCEPT ![r[1]][r[2]].arr = Max({@, At(heap, t).arr})]

AbsorbScenariosOnly(heap, r, t) ==
    [heap EXCEPT ![r[1]][r[2]].scen = @ \cup At(heap, t).scen]

(* ExtTimingTags::max_arr(iterator, tag): r's object takes the later       *)
(* arrival and all the switching scenarios of t.                           *)
Absorb(heap, r, t) ==
    [heap EXCEPT ![r[1]][r[2]].arr  = Max({@, At(heap, t).arr}),
                 ![r[1]][r[2]].scen = @ \cup At(heap, t).scen]

(* Mutant: only the tag collected last is tried.                           *)
CollectAdjacent(st, t, coarse, fine, thr) ==
    IF st.merged # <<>> /\ Joinable(st.heap, t, Last(st.merged), coarse, fine, thr)
    THEN [st EXCEPT !.heap = Absorb(@, Last(st.merged), t)]
    ELSE [st EXCEPT !.merged = Append(@, t)]

(* Each tag in turn goes to the first collected tag it may be merged with, *)
(* or else is collected itself.                                            *)
CollectTag(st, t, coarse, fine, thr) ==
    LET reps == {k \in DOMAIN st.merged :
                    Joinable(st.heap, t, st.merged[k], coarse, fine, thr)}
    IN IF reps = {} THEN [st EXCEPT !.merged = Append(@, t)]
       ELSE [st EXCEPT !.heap = Absorb(@, st.merged[Min(reps)], t)]

(* merge_tags: the merged set and the heap it leaves.  Without a threshold *)
(* the set is returned as it is.  (The fold runs over a set of one state,  *)
(* which TLC evaluates once per tag.)                                      *)
MergeTags(heap, set, coarse, fine, thr) ==
    IF thr = {} THEN [heap |-> heap, merged |-> set]
    ELSE CHOOSE last \in
            FoldLeft(LAMBDA sts, t : {CollectTag(st, t, coarse, fine, thr) : st \in sts},
                     {[heap |-> heap, merged |-> <<>>]}, set) : TRUE
===============================================================================
