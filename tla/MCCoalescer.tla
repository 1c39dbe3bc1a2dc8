----------------------------- MODULE MCCoalescer -----------------------------
(* Small instances of Coalescer for TLC: the paths a, a-b and a/b, whose byte *)
(* order puts a-b between the directory a and its child. *)
EXTENDS Coalescer

OneChild == {<<3, 1>>}
=============================================================================
