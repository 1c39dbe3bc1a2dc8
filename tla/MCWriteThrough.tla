--------------------------- MODULE MCWriteThrough ---------------------------
(* Two instances of WriteThrough for TLC, one behaviour each.              *)
(*   drift: the constants of the configuration: two paths, mutations, a    *)
(*          far-side change, a timed-out call and re-fetches;              *)
(*   own:   a path that only this client changes, and three mutations of   *)
(*          any kind but rename.                                           *)
EXTENDS WriteThrough

CONSTANTS OwnPath, OwnVal, OwnDir   \* Path, Val and Dir of the second

VARIABLE instance                   \* which of the two this behaviour is of

AllButRename == {"create", "write", "truncate", "mkdir", "unlink", "rmdir"}

O == INSTANCE WriteThrough WITH
        Path <- OwnPath, Val <- OwnVal, Dir <- OwnDir, Own <- OwnPath,
        Kinds <- AllButRename, MaxEvents <- 3, MaxChanges <- 0,
        MaxFailures <- 0, MaxMutations <- 3, MaxLost <- 0

MCInit == \/ instance = "drift" /\ InitW
          \/ instance = "own" /\ O!InitW
MCNext == \/ instance = "drift" /\ NextW /\ UNCHANGED instance
          \/ instance = "own" /\ O!NextW /\ UNCHANGED instance
MCSpec == MCInit /\ [][MCNext]_<<wvars, instance>>

(* WriteThrough's ReadYourWrites, of the second instance: no operation     *)
(* resolved before a mutation and delivered after it undoes it.            *)
OwnReadYourWrites == instance = "own" => O!ReadYourWrites

(* WriteThrough's DriftOnlyWhereNoted, of the first: the mirror loses      *)
(* track of the disk only where a noted mutation is not retired.           *)
NotedDriftOnly == instance = "drift" => DriftOnlyWhereNoted
=============================================================================
