---------------------------- MODULE DirTree ----------------------------
(***************************************************************************)
(* What a metadata tree promises its users, without nodes, links or        *)
(* indexes: a set of paths closed under parents, each with the kind of its *)
(* entry, in which only directories have entries below them.               *)
(***************************************************************************)
EXTENDS Naturals, Sequences, SequencesExt, Functions

CONSTANTS
  Name,        \* the names entries can have
  Fold(_),     \* the case folding of a name
  Path,        \* the paths operations are given
  Snapshot     \* the snapshots a tree is given

VARIABLE entries   \* a function from paths (sequences of names) to kinds

Dir == "dir"
File == "file"

Under(p, q) == IsPrefix(q, p)
FoldPath(p) == [i \in 1..Len(p) |-> Fold(p[i])]
\* The entries without the subtree at p.
Without(e, p) == Restrict(e, { q \in DOMAIN e : ~Under(q, p) })
\* p and its parents, all of them directories.
DirsTo(p) == [q \in { SubSeq(p, 1, n) : n \in 1..Len(p) } |-> Dir]
IsDir(e, p) == p = <<>> \/ (p \in DOMAIN e /\ e[p] = Dir)
\* Every entry on the way to p that exists is a directory.
Open(e, p) == \A n \in 1..Len(p) : SubSeq(p, 1, n) \in DOMAIN e => e[SubSeq(p, 1, n)] = Dir

\* One function laid over another.
Over(f, g) == [x \in DOMAIN f \cup DOMAIN g |-> IF x \in DOMAIN f THEN f[x] ELSE g[x]]

\* A path gets an entry of a kind; missing parents appear as directories and
\* what lay below an entry that is no longer a directory is gone.
Put(p, kind) ==
  /\ p # <<>> /\ Range(p) \subseteq Name /\ Open(entries, Front(p))
  /\ LET base == IF kind = Dir THEN entries ELSE Without(entries, p)
     IN  entries' = Over([q \in {p} |-> kind], Over(base, DirsTo(Front(p))))

\* A directory and its missing parents.
MakeDirs(p) ==
  /\ Range(p) \subseteq Name /\ Open(entries, p)
  /\ entries' = Over(entries, DirsTo(p))

\* An entry asked for as p goes: p itself when there is such an entry, and
\* otherwise at most an entry that p spells in another case.
Delete(p) ==
  \E q \in DOMAIN entries :
    /\ FoldPath(q) = FoldPath(p)
    /\ p \in DOMAIN entries => q = p
    /\ entries' = Without(entries, q)

\* The subtree at p moves to q, which is free, is not below p and lies in a
\* directory.
Move(p, q) ==
  /\ p \in DOMAIN entries /\ q # <<>> /\ q \notin DOMAIN entries /\ ~Under(q, p)
  /\ Range(q) \subseteq Name /\ IsDir(entries, Front(q))
  /\ LET moved == { r \in DOMAIN entries : Under(r, p) }
         to(r) == q \o SubSeq(r, Len(p) + 1, Len(r))
     IN  entries' = [r \in { to(s) : s \in moved } \cup (DOMAIN entries \ moved) |->
                       IF r \in DOMAIN entries \ moved THEN entries[r]
                       ELSE entries[CHOOSE s \in moved : to(s) = r]]

\* A snapshot is a sequence of entries; parent 0 is the root and parent k the
\* k-th entry.  Taken says at which path each entry is kept, <<>> for none.
Taken(snap) ==
  LET below(taken, e) == IF e.parent = 0 THEN <<e.name>> ELSE Append(taken[e.parent], e.name)
      keeps(taken, e) ==
        /\ e.parent = 0 \/ (taken[e.parent] # <<>> /\ snap[e.parent].kind = Dir)
        /\ e.name \in Name
        /\ ~Contains(taken, below(taken, e))
  IN  FoldLeft(LAMBDA taken, e : Append(taken, IF keeps(taken, e) THEN below(taken, e) ELSE <<>>),
               <<>>, snap)

\* The snapshot replaces everything, up to the first entry whose parent does
\* not come before it.
Usable(snap) ==
  LET bad == { k \in 1..Len(snap) : snap[k].parent >= k }
  IN  IF bad = {} THEN snap ELSE SubSeq(snap, 1, Min(bad) - 1)
Kept(snap) ==
  LET s     == Usable(snap)
      taken == Taken(s)
      kept  == { k \in 1..Len(s) : taken[k] # <<>> }
  IN  [p \in { taken[k] : k \in kept } |-> s[CHOOSE k \in kept : taken[k] = p].kind]
Replace(snap) == entries' = Kept(snap)

Init == entries \in { Kept(snap) : snap \in Snapshot }

Next ==
  \/ \E p \in Path \cup DOMAIN entries, kind \in {Dir, File} : Put(p, kind)
  \/ \E p \in Path : MakeDirs(p) \/ Delete(p)
  \/ \E p \in DOMAIN entries, d \in {<<>>} \cup DOMAIN entries, n \in Name : Move(p, Append(d, n))
  \/ \E snap \in Snapshot : Replace(snap)

Spec == Init /\ [][Next]_entries
=============================================================================
