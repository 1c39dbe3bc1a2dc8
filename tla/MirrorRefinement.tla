-------------------------- MODULE MirrorRefinement --------------------------
(***************************************************************************)
(* What MirrorSync promises: LazyMirror, with the paths whose change is    *)
(* underway as the dirty ones.                                             *)
(***************************************************************************)
EXTENDS MirrorSync

Dirty == {p \in Path : ~loaded \/ failures > 0 \/ Underway(p)}

Lazy == INSTANCE LazyMirror WITH source <- [p \in Path |-> Seen(p)],
                                 view <- mirror, dirty <- Dirty

\* The mirror changes only on a path whose change is underway, and a path with
\* nothing underway shows the disk (apply_invalidation and fetch_snapshot are
\* the only writers of RemoteRoot::tree_ here).
IsLazyMirror == Lazy!Spec

=============================================================================
