---------------------------- MODULE MCTreeAndNames ----------------------------
(***************************************************************************)
(* Small instances of MetadataTree and Names, side by side: while the tree *)
(* is as the first snapshot left it every short text is given to the name  *)
(* functions, and while there is no text the tree is worked on.  The tree  *)
(* has two names that fold together, a third that hashes near them, a name *)
(* that cannot be kept, and tables that start with four slots so that      *)
(* rehashes and tombstones are met.                                        *)
(***************************************************************************)
EXTENDS MetadataTree, Names

MCFold(n) == IF n = "A" THEN "a" ELSE n

Rank(n) == CASE n = "a" -> 0 [] n = "A" -> 4 [] n = "b" -> 1 [] OTHER -> 2
MCMix(k) == k[1] + Rank(k[2])

MCPath ==
  LET names == {"a", "A", "b"}
  IN  { <<n>> : n \in names }
      \cup { <<"a", "a">>, <<"a", "A">>, <<"A", "b">>, <<>>, <<"a", "bad">>, <<"b", "..">> }

Entry(parent, name, kind) == [parent |-> parent, name |-> name, kind |-> kind]
MCSnapshot ==
  { <<>>,
    <<Entry(0, "a", Dir), Entry(0, "A", Dir), Entry(2, "b", File)>>,
    <<Entry(0, "bad", Dir), Entry(1, "a", File), Entry(0, "b", File), Entry(3, "a", File)>>,
    <<Entry(0, "b", Dir), Entry(1, "A", File), Entry(1, "A", Dir), Entry(4, "a", File)>> }

MCInit == Init /\ TextInit
MCNext ==
  \/ text = <<>> /\ Next /\ UNCHANGED text
  \/ ops = 0 /\ DOMAIN entries = {} /\ TextNext /\ UNCHANGED vars
MCSpec == MCInit /\ [][MCNext]_<<vars, text>>
=============================================================================
