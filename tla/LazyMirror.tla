----------------------------- MODULE LazyMirror -----------------------------
(***************************************************************************)
(* What a metadata mirror promises: it may lag behind its source, but only *)
(* on paths known to be dirty.  A clean path shows what the source holds,  *)
(* and what the view shows for a clean path never changes by itself.       *)
(***************************************************************************)
CONSTANTS Path, Val
VARIABLES
    source,  \* what is to be mirrored
    view,    \* what the mirror shows
    dirty    \* the paths on which it may lag

vars == <<source, view, dirty>>

Init == /\ source \in [Path -> Val]
        /\ view \in [Path -> Val]
        /\ dirty \in SUBSET Path
        /\ \A p \in Path \ dirty : view[p] = source[p]

\* A path of the source changes: it is dirty from then on.
Write(p, v) == /\ source' = [source EXCEPT ![p] = v]
               /\ view' = view
               /\ dirty' \in SUBSET Path
               /\ dirty \cup {p} \subseteq dirty'

\* The view changes on dirty paths only; the paths that become clean agree.
Sync == /\ source' = source
        /\ view' \in [Path -> Val]
        /\ dirty' \in SUBSET Path
        /\ \A p \in Path \ dirty : view'[p] = view[p]
        /\ \A p \in Path \ dirty' : view'[p] = source[p]

Next == Sync \/ \E p \in Path, v \in Val : Write(p, v)

Spec == Init /\ [][Next]_vars
=============================================================================
