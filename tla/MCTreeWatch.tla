---------------------------- MODULE MCTreeWatch ----------------------------
(* Small instances of TreeWatch for TLC.                                   *)
EXTENDS TreeWatch

CONSTANTS d1, d2, f1

(* A directory with a file in it, and a directory still to be made.        *)
MCFirstDisk == {[n \in Node |-> CASE n = d1 -> <<Root, "a">>
                                  [] n = f1 -> <<d1, "a">>
                                  [] OTHER -> Nowhere]}
=============================================================================
