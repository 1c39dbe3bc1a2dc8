---------------------------- MODULE MetadataTree ----------------------------
(***************************************************************************)
(* src/src/core/metadata_tree.{hpp,cpp}: the mirror's tree of entries.     *)
(* Nodes live in one array and are linked to their parents and siblings by *)
(* index; freed slots are reused; two FlatMap tables find a child by its   *)
(* exact name and by its case folding.  The code's NameId is the name      *)
(* itself (the string pool interns one id per spelling), the attributes    *)
(* are reduced to the kind of the entry, and node ids start at 1 so that 0 *)
(* is kInvalidNode.                                                        *)
(***************************************************************************)
EXTENDS FlatMap

CONSTANTS
  Name,        \* valid entry names
  BadName,     \* names valid_name refuses (a separator or a NUL in them)
  Fold(_),     \* casefold_append
  Path,        \* sequences of components the path operations are given
  Snapshot,    \* snapshots given to load_snapshot
  MaxNodes,    \* bound on live nodes
  MaxOps       \* bound on operations

VARIABLES
  tree,        \* nodes, free, exact, folded, live, collisions, dropped
  entries,     \* what the tree means: the kind of the entry at each path
  ops          \* operations so far that changed the tree
vars == <<tree, entries, ops>>

Root == 1
Nil == 0
NoName == "<none>"     \* kInvalidName
RootName == "<root>"   \* the empty name
Dir == "dir"
File == "file"
Dots == ".."

NewNode ==
  [name |-> NoName, parent |-> Nil, first |-> Nil, last |-> Nil,
   next |-> Nil, prev |-> Nil, count |-> 0, kind |-> File]
RootNode == [NewNode EXCEPT !.name = RootName, !.kind = Dir]

NewTree ==
  [nodes |-> <<RootNode>>, free |-> <<>>, exact |-> EmptyMap, folded |-> EmptyMap,
   live |-> 1, collisions |-> 0, dropped |-> 0]

Ids(t) == 1..Len(t.nodes)
Valid(t, id) == id \in Ids(t) /\ t.nodes[id].name # NoName
LiveIds(t) == { id \in Ids(t) : Valid(t, id) }
ValidName(name) == name \notin BadName \cup {Dots}
Key(parent, name) == <<parent, name>>
ExactKey(t, id) == Key(t.nodes[id].parent, t.nodes[id].name)
FoldedKey(t, id) == Key(t.nodes[id].parent, Fold(t.nodes[id].name))

\* The children of a directory in sibling order.
Children(t, id) ==
  LET from[c \in 0..Len(t.nodes)] == IF c = Nil THEN <<>> ELSE <<c>> \o from[t.nodes[c].next]
  IN  from[t.nodes[id].first]

-----------------------------------------------------------------------------
(* Links and indexes.                                                      *)

\* A node from the free list, or a new one at the end of the array.
AllocId(t) == IF t.free # <<>> THEN Last(t.free) ELSE Len(t.nodes) + 1
AllocNode(t) ==
  IF t.free # <<>>
  THEN [t EXCEPT !.nodes[Last(t.free)] = NewNode, !.free = Front(@)]
  ELSE [t EXCEPT !.nodes = Append(@, NewNode)]

LinkChild(t, p, c) ==
  LET last == t.nodes[p].last
      t1   == [t EXCEPT !.nodes[c].parent = p, !.nodes[c].next = Nil, !.nodes[c].prev = last]
      t2   == IF last # Nil THEN [t1 EXCEPT !.nodes[last].next = c]
                            ELSE [t1 EXCEPT !.nodes[p].first = c]
  IN  [t2 EXCEPT !.nodes[p].last = c, !.nodes[p].count = @ + 1]

UnlinkChild(t, c) ==
  LET n  == t.nodes[c]
      t1 == IF n.prev # Nil THEN [t EXCEPT !.nodes[n.prev].next = n.next]
                            ELSE [t EXCEPT !.nodes[n.parent].first = n.next]
      t2 == IF n.next # Nil THEN [t1 EXCEPT !.nodes[n.next].prev = n.prev]
                            ELSE [t1 EXCEPT !.nodes[n.parent].last = n.prev]
  IN  [t2 EXCEPT !.nodes[n.parent].count = @ - 1, !.nodes[c].prev = Nil, !.nodes[c].next = Nil]

IndexNode(t, id) ==
  [t EXCEPT !.exact = InsertOrAssign(@, ExactKey(t, id), id),
            !.folded = InsertIfAbsent(@, FoldedKey(t, id), id),
            !.collisions = IF HasKey(t.folded, FoldedKey(t, id)) THEN @ + 1 ELSE @]

\* Mutant: the folded slot of a removed node is not handed to a sibling that
\* differs from it only by case.
UnindexNodeNoHandOver(t, id) ==
  LET owner == Find(t.folded, FoldedKey(t, id))
      t1    == [t EXCEPT !.exact = Erase(@, ExactKey(t, id))]
  IN  IF owner = NoValue THEN t1
      ELSE IF owner # id THEN [t1 EXCEPT !.collisions = @ - 1]
      ELSE [t1 EXCEPT !.folded = Erase(@, FoldedKey(t, id))]

\* What follows the erasure of the exact key: the folded slot, when it was
\* this node's, goes to the first of its heirs.
UnindexFolded(t, id, fk, owner, heirs) ==
  IF owner = NoValue THEN t
  ELSE IF owner # id THEN [t EXCEPT !.collisions = @ - 1]
  ELSE IF t.collisions = 0 \/ heirs = <<>> THEN [t EXCEPT !.folded = Erase(@, fk)]
  ELSE [t EXCEPT !.folded = InsertIfAbsent(Erase(@, fk), fk, Head(heirs)), !.collisions = @ - 1]

UnindexNode(t, id) ==
  LET heirs == SelectSeq(Children(t, t.nodes[id].parent),
                         LAMBDA s : s # id /\ FoldedKey(t, s) = FoldedKey(t, id))
  IN  UnindexFolded([t EXCEPT !.exact = Erase(@, ExactKey(t, id))], id,
                    FoldedKey(t, id), Find(t.folded, FoldedKey(t, id)), heirs)

-----------------------------------------------------------------------------
(* Lookup.                                                                 *)

\* Mutant: the folded index answers before the exact one.
FindChildFoldedFirst(t, parent, name, insensitive) ==
  IF ~Valid(t, parent) \/ t.nodes[parent].kind # Dir THEN Nil
  ELSE LET e == Find(t.exact, Key(parent, name))
           f == Find(t.folded, Key(parent, Fold(name)))
       IN  IF insensitive /\ f # NoValue THEN f
           ELSE IF e # NoValue THEN e
           ELSE Nil

FindChild(t, parent, name, insensitive) ==
  IF ~Valid(t, parent) \/ t.nodes[parent].kind # Dir THEN Nil
  ELSE LET e == Find(t.exact, Key(parent, name))
           f == Find(t.folded, Key(parent, Fold(name)))
       IN  IF e # NoValue THEN e
           ELSE IF insensitive /\ f # NoValue THEN f
           ELSE Nil

Lookup(t, path, insensitive) ==
  LET step(cur, comp) ==
        IF cur = Nil THEN Nil
        ELSE IF comp = Dots
        THEN IF t.nodes[cur].parent # Nil THEN t.nodes[cur].parent ELSE cur
        ELSE FindChild(t, cur, comp, insensitive)
  IN  FoldLeft(step, Root, path)

PathOf(t, id) ==
  LET up[i \in Ids(t)] == IF i = Root THEN <<>> ELSE Append(up[t.nodes[i].parent], t.nodes[i].name)
  IN  up[id]

-----------------------------------------------------------------------------
(* Mutation.  An operation returns the tree and the node it concerns, Nil  *)
(* when it fails.                                                          *)

Result(t, id) == [tree |-> t, id |-> id]

Insert(t, parent, name, kind) ==
  LET id == AllocId(t)
      t1 == [AllocNode(t) EXCEPT !.nodes[id].name = name, !.nodes[id].kind = kind]
      t2 == IndexNode(LinkChild(t1, parent, id), id)
  IN  IF \/ ~Valid(t, parent) \/ t.nodes[parent].kind # Dir
         \/ ~ValidName(name) \/ HasKey(t.exact, Key(parent, name))
      THEN Result(t, Nil)
      ELSE Result([t2 EXCEPT !.live = @ + 1], id)

\* The order in which release_subtree frees a subtree: children before their
\* parent, the last child first.
PostOrder(t, id) ==
  LET post[i \in Ids(t)] ==
        FoldLeft(LAMBDA acc, c : acc \o post[c], <<>>, Reverse(Children(t, i))) \o <<i>>
  IN  post[id]

\* One node, already unlinked, leaves the indexes and its slot becomes free.
ReleaseNode(t, cur) ==
  [UnindexNode(t, cur) EXCEPT !.nodes[cur].name = NoName, !.free = Append(@, cur), !.live = @ - 1]

\* The caller has unlinked id itself.
ReleaseSubtree(t, id) ==
  FoldLeft(LAMBDA u, cur : ReleaseNode(IF cur # id THEN UnlinkChild(u, cur) ELSE u, cur),
           t, PostOrder(t, id))

\* The children of a directory that becomes a file are released.
DropChildren(t, id) ==
  FoldLeft(LAMBDA u, c : ReleaseSubtree(UnlinkChild(u, c), c), t, Children(t, id))

\* Mutant: any refresh of a directory drops its children.
SetAttributesDrops(t, id, kind) ==
  IF ~Valid(t, id) THEN Result(t, Nil)
  ELSE Result([DropChildren(t, id) EXCEPT !.nodes[id].kind = kind], id)

SetAttributes(t, id, kind) ==
  LET stale == t.nodes[id].kind = Dir /\ kind # Dir /\ t.nodes[id].count # 0
  IN  IF ~Valid(t, id) THEN Result(t, Nil)
      ELSE Result([(IF stale THEN DropChildren(t, id) ELSE t) EXCEPT !.nodes[id].kind = kind], id)

\* Mutant: the put refreshes a sibling that differs by case.
UpsertAnyCase(t, parent, name, kind) ==
  LET existing == FindChild(t, parent, name, TRUE)
  IN  IF ~Valid(t, parent) THEN Result(t, Nil)
      ELSE IF existing # Nil THEN SetAttributes(t, existing, kind)
      ELSE Insert(t, parent, name, kind)

Upsert(t, parent, name, kind) ==
  LET existing == FindChild(t, parent, name, FALSE)
  IN  IF ~Valid(t, parent) THEN Result(t, Nil)
      ELSE IF existing # Nil THEN SetAttributes(t, existing, kind)
      ELSE Insert(t, parent, name, kind)

RemoveNode(t, id) ==
  IF ~Valid(t, id) \/ id = Root THEN Result(t, Nil)
  ELSE Result(ReleaseSubtree(UnlinkChild(t, id), id), id)

\* id and the nodes above it.
Ancestors(t, id) ==
  LET up[i \in 0..Len(t.nodes)] == IF i = Nil THEN {} ELSE {i} \cup up[t.nodes[i].parent]
  IN  up[id]

\* A name taken by the node itself is a rename to what it is already called.
Rename(t, id, parent, name) ==
  LET t1 == [UnlinkChild(UnindexNode(t, id), id) EXCEPT !.nodes[id].name = name]
      at == Find(t.exact, Key(parent, name))
  IN  IF \/ ~Valid(t, id) \/ ~Valid(t, parent) \/ id = Root
         \/ t.nodes[parent].kind # Dir \/ ~ValidName(name)
         \/ id \in Ancestors(t, parent)
      THEN Result(t, Nil)
      ELSE IF at # NoValue THEN Result(t, IF at = id THEN id ELSE Nil)
      ELSE Result(IndexNode(LinkChild(t1, parent, id), id), id)

\* The directories created before a component that fails stay.
EnsureDirectoryPath(t, path) ==
  LET step(r, comp) ==
        LET next == FindChild(r.tree, r.id, comp, FALSE)
        IN  IF r.id = Nil \/ comp = Dots THEN Result(r.tree, Nil)
            ELSE IF next # Nil
            THEN Result(r.tree, IF r.tree.nodes[next].kind = Dir THEN next ELSE Nil)
            ELSE Insert(r.tree, r.id, comp, Dir)
  IN  FoldLeft(step, Result(t, Root), path)

UpsertIn(dir, name, kind) ==
  IF dir.id = Nil THEN dir ELSE Upsert(dir.tree, dir.id, name, kind)

UpsertPath(t, path, kind) ==
  IF path = <<>> THEN Result(t, Nil)
  ELSE UpsertIn(EnsureDirectoryPath(t, Front(path)), Last(path), kind)

RemovePath(t, path, insensitive) == RemoveNode(t, Lookup(t, path, insensitive))

ClearTree(t) ==
  [NewTree EXCEPT !.exact = Clear(t.exact), !.folded = Clear(t.folded)]

\* Entries name their parent by its place in the snapshot, 0 for the root.  An
\* entry that cannot be kept is dropped with all that is below it; an entry
\* whose parent does not come before it ends the load there and then.
LoadSnapshot(t, snap) ==
  LET n     == Len(snap) + 1
      empty == ClearTree(t)
      start == [empty EXCEPT !.exact = Reserve(@, n), !.folded = Reserve(@, n)]
      keep(s, r) ==
        [s EXCEPT !.ids = Append(@, r.id),
                  !.tree = IF r.id = Nil THEN [@ EXCEPT !.dropped = @ + 1] ELSE r.tree]
      load(s, e) ==
        IF s.corrupt \/ e.parent >= Len(s.ids) THEN [s EXCEPT !.corrupt = TRUE]
        ELSE LET parent == s.ids[e.parent + 1]
             IN  keep(s, IF parent = Nil THEN Result(s.tree, Nil)
                         ELSE Insert(s.tree, parent, e.name, e.kind))
  IN  FoldLeft(load, [tree |-> start, ids |-> <<Root>>, corrupt |-> FALSE], snap).tree

\* Mutant: only directories take an index.
ExportDirCountsDirs(t, acc, dir) ==
  FoldLeft(LAMBDA a, c :
             [out   |-> Append(a.out, [parent |-> dir.index, name |-> t.nodes[c].name,
                                       kind |-> t.nodes[c].kind]),
              queue |-> IF t.nodes[c].kind = Dir
                        THEN Append(a.queue, [id |-> c, index |-> Len(a.queue)])
                        ELSE a.queue],
           acc, Children(t, dir.id))

\* One directory written out: its children in sibling order, those that are
\* directories queued with their place in the snapshot.
ExportDir(t, acc, dir) ==
  FoldLeft(LAMBDA a, c :
             [out   |-> Append(a.out, [parent |-> dir.index, name |-> t.nodes[c].name,
                                       kind |-> t.nodes[c].kind]),
              queue |-> IF t.nodes[c].kind = Dir
                        THEN Append(a.queue, [id |-> c, index |-> Len(a.out) + 1])
                        ELSE a.queue],
           acc, Children(t, dir.id))

\* The tree breadth first.
ExportSnapshot(t) ==
  LET walk[k \in 0..Len(t.nodes)] ==
        IF k = 0 THEN [out |-> <<>>, queue |-> <<[id |-> Root, index |-> 0]>>]
        ELSE IF k > Len(walk[k - 1].queue) THEN walk[k - 1]
        ELSE ExportDir(t, walk[k - 1], walk[k - 1].queue[k])
  IN  walk[Len(t.nodes)].out

-----------------------------------------------------------------------------
(* The state machine: one operation at a time, as the client's tree mutex  *)
(* has it.                                                                 *)

Bounded(t) == t.live <= MaxNodes

\* What the tree means: a kind for the path of every node but the root.
Entries(t) ==
  LET inner == LiveIds(t) \ {Root}
      path  == [id \in inner |-> PathOf(t, id)]
  IN  [p \in Range(path) |-> t.nodes[CHOOSE id \in inner : path[id] = p].kind]

Becomes(t) ==
  /\ Bounded(t)
  /\ tree' = t /\ entries' = (IF t = tree THEN entries ELSE Entries(t))
  /\ IF t = tree THEN UNCHANGED ops ELSE ops < MaxOps /\ ops' = ops + 1

DoUpsertPath == \E p \in Path, kind \in {Dir, File} : Becomes(UpsertPath(tree, p, kind).tree)
\* The client asks for the parent of the path it renames to.
DoEnsureDirectoryPath ==
  \E p \in { Front(q) : q \in Path \ {<<>>} } : Becomes(EnsureDirectoryPath(tree, p).tree)
DoRemovePath == \E p \in Path, insensitive \in BOOLEAN : Becomes(RemovePath(tree, p, insensitive).tree)
DoRename ==
  \E id, parent \in LiveIds(tree), name \in Name :
    id # Root /\ tree.nodes[parent].kind = Dir /\ Becomes(Rename(tree, id, parent, name).tree)
DoLoadSnapshot == \E snap \in Snapshot : Becomes(LoadSnapshot(tree, snap))

\* The client loads a snapshot before it uses its tree for anything else.
Init ==
  \E snap \in Snapshot :
    tree = LoadSnapshot(NewTree, snap) /\ entries = Entries(tree) /\ ops = 0
Next ==
  \/ DoUpsertPath \/ DoEnsureDirectoryPath \/ DoRemovePath
  \/ DoRename \/ DoLoadSnapshot

Spec == Init /\ [][Next]_vars

-----------------------------------------------------------------------------
(* Properties.                                                             *)

NodeType ==
  [name : Name \cup {NoName, RootName}, parent : Nat, first : Nat, last : Nat,
   next : Nat, prev : Nat, count : Nat, kind : {Dir, File}]

\* The fields of the tree have their types, and every slot of the node array
\* is either a live node or once on the free list (metadata_tree.cpp alloc_node
\* and release_subtree).
TypeOK ==
  /\ tree.nodes \in Seq(NodeType)
  /\ Range(tree.free) = Ids(tree) \ LiveIds(tree)
  /\ IsInjective(tree.free)
  /\ tree.live = Cardinality(LiveIds(tree))
  /\ tree.dropped \in Nat

Siblings(a, b) == tree.nodes[a].parent = tree.nodes[b].parent
Twins(a, b) == Siblings(a, b) /\ FoldedKey(tree, a) = FoldedKey(tree, b)

\* Both index tables stay usable through every mixture of inserts, erases and
\* rehashes (a probe always meets an empty slot, no key is held twice, what was
\* inserted is found past the tombstones; flat_map.hpp emplace, erase,
\* grow_if_needed), and say what the links say: the exact index holds every node but
\* the root and nothing else, the folded index holds one of the siblings that
\* share a folding, and case_collisions counts the siblings it shadows
\* (metadata_tree.cpp index_node, unindex_node).
IndexesAgree ==
  LET inner == LiveIds(tree) \ {Root}
      exact == Content(tree.exact)
      folded == Content(tree.folded)
  IN  /\ TypeOK /\ Sound(tree.exact) /\ Sound(tree.folded)
      /\ DOMAIN exact = { ExactKey(tree, id) : id \in inner }
      /\ \A id \in inner : exact[ExactKey(tree, id)] = id
      /\ DOMAIN folded = { FoldedKey(tree, id) : id \in inner }
      /\ \A id \in inner : folded[FoldedKey(tree, id)] \in { s \in inner : Twins(s, id) }
      /\ tree.collisions = Cardinality({ id \in inner : folded[FoldedKey(tree, id)] # id })

\* A put that is accepted is found: after upsert_path the path leads, spelled
\* exactly, to the entry it returned, with the kind it was given; and a put
\* is refused only for a file on the way, a "..", or a name that cannot be
\* kept (metadata_tree.cpp upsert_path, lookup).
PutIsFound ==
  \A p \in Path, kind \in {Dir, File} :
    LET names == \A i \in 1..Len(p) : p[i] \in Name
        way   == { Lookup(tree, SubSeq(p, 1, n), FALSE) : n \in 1..(Len(p) - 1) } \ {Nil}
        Found(r) == /\ r.id # Nil /\ r.tree.nodes[r.id].kind = kind
                    /\ Lookup(r.tree, p, FALSE) = r.id /\ PathOf(r.tree, r.id) = p
        Put == UpsertPath(tree, p, kind)
    IN  IF p # <<>> /\ names /\ \A id \in way : tree.nodes[id].kind = Dir
        THEN Found(Put) ELSE Put.id = Nil

\* A lookup that ignores case prefers the exact spelling and otherwise finds
\* an entry whenever one differs from the name only by case, however often
\* such twins came and went (metadata_tree.cpp find_child, unindex_node).
ExactSpellingWins ==
  \A dir \in { id \in LiveIds(tree) : tree.nodes[id].kind = Dir }, name \in Name :
    LET kids  == Range(Children(tree, dir))
        exact == { c \in kids : tree.nodes[c].name = name }
        twins == { c \in kids : Fold(tree.nodes[c].name) = Fold(name) }
        found == FindChild(tree, dir, name, TRUE)
    IN  found \in (IF exact # {} THEN exact ELSE IF twins # {} THEN twins ELSE {Nil})

\* A tree written out breadth first and loaded again is the same tree
\* (metadata_tree.hpp export_snapshot: "the output can be fed to load_snapshot").
ExportReloads ==
  LET Same(again) == Entries(again) = Entries(tree) /\ again.dropped = 0
  IN  Same(LoadSnapshot(NewTree, ExportSnapshot(tree)))

Abstract == INSTANCE DirTree

\* Links, free list and indexes together implement a set of paths closed under
\* parents: every operation has exactly the effect on paths that DirTree gives
\* it, or none.
ImplementsDirTree == Abstract!Spec
=============================================================================
