-------------------------- MODULE MCFsNotifyBridge --------------------------
(* A mount of two paths: one file at first, and one name still free.       *)
EXTENDS FsNotifyBridge
CONSTANTS p, q
MCFirstTree == (p :> "File") @@ (q :> "Absent")
=============================================================================
