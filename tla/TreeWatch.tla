----------------------------- MODULE TreeWatch -----------------------------
(***************************************************************************)
(* How a change below the served root finds its way into a mirror: the     *)
(* inotify watcher and its two tables, the coalescer, the flusher with the *)
(* expansion of directories that appear, and the mirror's tree.  The disk  *)
(* is a tree of inodes, so a directory that is renamed takes along what it *)
(* holds and the kernel's watch on it.  The watcher's steps interleave     *)
(* with the changes, one directory armed or listed at a time; the flusher  *)
(* resolves a batch and the mirror applies it in one step (MirrorSync is   *)
(* about what happens in between).                                         *)
(***************************************************************************)
EXTENDS Integers, Sequences, FiniteSets, SequencesExt

CONSTANTS
    Dir, File,      \* inodes: directories other than the root, and files
    Root,           \* the inode of the served root
    Name,           \* names of entries
    QueueCap,       \* events the kernel queues before it reports an overflow
    MaxExpanded,    \* opts_.max_expanded_entries
    FirstDisk,      \* the disks the agent may find: inode -> place
    MaxChanges      \* bound: changes made to the disk

ASSUME TreeWatchAssumption ==
    QueueCap \in Nat \ {0} /\ MaxExpanded \in Nat /\ MaxChanges \in Nat

VARIABLES
    place,          \* place[n] = <<parent inode, name>>, or Nowhere
    changes,        \* changes made so far
    mark,           \* mark[d]: the kernel's watch descriptor for d, or 0
    lastWd,         \* the descriptor the kernel gave out last
    queue,          \* the kernel's event queue
    wdToDir,        \* wd_to_dir_: descriptor -> path
    dirToWd,        \* dir_to_wd_: path -> descriptor
    todo,           \* add_watch_recursive()'s stack
    raised,         \* the callback due once todo is empty, if any
    pending,        \* pending_, in the order of each path's last event
    overflow,       \* overflow_
    serving,        \* start() is over and a client holds a snapshot
    told,           \* the client's mirror: path -> inode described
    excused,        \* paths below which the mirror may keep what is gone
    blind           \* a watch was lost: see WatchesFollow

diskVars == <<place, changes, mark, lastWd, queue>>
watchVars == <<wdToDir, dirToWd, todo, raised, blind>>
mirrorVars == <<pending, overflow, serving, told, excused>>
treeVars == <<diskVars, watchVars, mirrorVars>>

Node == Dir \cup File
Nowhere == <<>>
Unknown == Root     \* what a mirror notes of a parent nobody described

-----------------------------------------------------------------------------
(* The disk.                                                               *)

Present == {n \in Node : place[n] # Nowhere}
Held(d) == {n \in Present : place[n][1] = d}
At(d, name) == {n \in Held(d) : place[n][2] = name}

(* The path of an inode: the disk is no deeper than it has directories.    *)
PathOf(n) ==
    LET up[k \in 0 .. Cardinality(Dir) + 1, m \in Node \cup {Root}] ==
          IF m = Root \/ k = 0 THEN <<>> ELSE Append(up[k - 1, place[m][1]], place[m][2])
    IN up[Cardinality(Dir) + 1, n]

(* path_is_under(), for a path other than p itself.                        *)
Under(q, p) == Len(q) > Len(p) /\ SubSeq(q, 1, Len(p)) = p

(* The inode at a path, in a set with at most one member.                  *)
Resolve(p) == {n \in Present \cup {Root} : p = IF n = Root THEN <<>> ELSE PathOf(n)}

DiskTree == [p \in {PathOf(n) : n \in Present} |-> CHOOSE n \in Resolve(p) : TRUE]

(* The kernel's queue (external): an event goes to whoever watches the     *)
(* directory it happened in; a full queue ends in one overflow event.      *)
Event(wd, kind, name, dir) == [wd |-> wd, kind |-> kind, name |-> name, dir |-> dir]
Overflowed == Event(0, "overflow", "", FALSE)

Queued(q, e) ==
    CASE e.wd = 0 -> q
      [] e.wd # 0 /\ Len(q) < QueueCap -> Append(q, e)
      [] OTHER -> IF Last(q) = Overflowed THEN q ELSE Append(q, Overflowed)

Post(q) ==
    /\ queue' = q
    /\ blind' = (blind \/ (q # <<>> /\ Last(q) = Overflowed))

(* The changes (external): an entry appears, goes, or moves.               *)
Create(n, d, name) ==
    /\ changes < MaxChanges /\ n \notin Present /\ At(d, name) = {}
    /\ place' = [place EXCEPT ![n] = <<d, name>>]
    /\ Post(Queued(queue, Event(mark[d], "create", name, n \in Dir)))
    /\ changes' = changes + 1
    /\ UNCHANGED <<mark, lastWd, wdToDir, dirToWd, todo, raised, mirrorVars>>

Gone(n, q) == IF n \in Dir THEN Queued(q, Event(mark[n], "self", "", TRUE)) ELSE q
Excuse(n) == excused' = IF n \in Dir THEN excused \cup {PathOf(n)} ELSE excused

Delete(n) ==
    /\ changes < MaxChanges /\ n \in Present /\ Held(n) = {}
    /\ place' = [place EXCEPT ![n] = Nowhere]
    /\ Post(Gone(n, Queued(queue, Event(mark[place[n][1]], "delete", place[n][2], n \in Dir))))
    /\ mark' = [mark EXCEPT ![n] = 0]
    /\ Excuse(n)
    /\ changes' = changes + 1
    /\ UNCHANGED <<lastWd, wdToDir, dirToWd, todo, raised, pending, overflow, serving, told>>

Move(n, d, name) ==
    /\ changes < MaxChanges /\ n \in Present /\ At(d, name) = {}
    /\ n # d /\ ~Under(PathOf(d), PathOf(n))
    /\ place' = [place EXCEPT ![n] = <<d, name>>]
    /\ LET from == Event(mark[place[n][1]], "from", place[n][2], n \in Dir)
           to == Event(mark[d], "to", name, n \in Dir)
       IN Post(Gone(n, Queued(Queued(queue, from), to)))
    /\ Excuse(n)
    /\ changes' = changes + 1
    /\ UNCHANGED <<mark, lastWd, wdToDir, dirToWd, todo, raised, pending, overflow, serving, told>>

-----------------------------------------------------------------------------
(* The coalescer, less what only the kind of change tells apart.           *)

NoEvent == [kind |-> "none", path |-> <<>>]

(* push(): a path keeps one entry, in the order of its last event; a       *)
(* removal resets what appeared before it.                                 *)
Push(ev) ==
    IF overflow THEN UNCHANGED <<pending, overflow>>
    ELSE /\ pending' = Append(SelectSeq(pending, LAMBDA e : e.path # ev.path),
                              [path |-> ev.path,
                               removed |-> ev.kind \in {"delete", "from", "self"},
                               appeared |-> ev.kind \in {"create", "to"}])
         /\ UNCHANGED overflow

PushOverflow == overflow' = TRUE /\ pending' = <<>>

(* take(): an entry below a removed directory is dropped when the removal  *)
(* came after it.  The topmost removal decides.                            *)
Taken ==
    LET above(i) == {j \in DOMAIN pending : pending[j].removed /\ Under(pending[i].path, pending[j].path)}
        top(i) == CHOOSE j \in above(i) : \A k \in above(i) : Len(pending[j].path) <= Len(pending[k].path)
        kept == {i \in DOMAIN pending : above(i) = {} \/ top(i) < i}
    IN [k \in 1 .. Cardinality(kept) |->
          pending[CHOOSE i \in kept : Cardinality({j \in kept : j <= i}) = k]]

-----------------------------------------------------------------------------
(* The watcher.                                                            *)

(* drop_watch_subtree(rel): the kernel's watches go with the entries.      *)
Dropped(rel) == {p \in DOMAIN dirToWd : p = rel \/ Under(p, rel)}

DropWatchSubtree(rel) ==
    LET wds == {dirToWd[p] : p \in Dropped(rel)} IN
    /\ dirToWd' = Restrict(dirToWd, DOMAIN dirToWd \ Dropped(rel))
    /\ wdToDir' = Restrict(wdToDir, DOMAIN wdToDir \ wds)
    /\ mark' = [d \in DOMAIN mark |-> IF mark[d] \in wds THEN 0 ELSE mark[d]]

(* handle_event().  A directory that arrives is armed first (Arm, List),   *)
(* and its callback comes after that.                                      *)
HandleEvent ==
    /\ queue # <<>> /\ todo = <<>> /\ raised = NoEvent
    /\ queue' = Tail(queue)
    /\ LET e == Head(queue)
           dir == wdToDir[e.wd]
           ev == [kind |-> e.kind, path |-> IF e.kind = "self" THEN dir ELSE Append(dir, e.name)]
       IN CASE e = Overflowed ->
                 PushOverflow /\ UNCHANGED <<mark, watchVars>>
            [] e # Overflowed /\ (e.wd \notin DOMAIN wdToDir \/ (e.kind = "self" /\ dir = <<>>)) ->
                 UNCHANGED <<mark, watchVars, pending, overflow>>
            [] e.wd \in DOMAIN wdToDir /\ e.kind \in {"create", "to"} /\ e.dir ->
                 /\ todo' = <<[path |-> ev.path, armed |-> FALSE]>> /\ raised' = ev
                 /\ UNCHANGED <<mark, wdToDir, dirToWd, blind, pending, overflow>>
            [] e.wd \in DOMAIN wdToDir /\ e.kind \in {"delete", "from"} /\ e.dir ->
                 DropWatchSubtree(ev.path) /\ Push(ev) /\ UNCHANGED <<todo, raised, blind>>
            [] OTHER -> Push(ev) /\ UNCHANGED <<mark, watchVars>>
    /\ UNCHANGED <<place, changes, lastWd, serving, told, excused>>

(* One call of add_watch_recursive(): inotify_add_watch() finds whatever   *)
(* directory is at the path by now, and returns the descriptor it has.     *)
ArmIn(d, path, rest) ==
    LET wd == IF mark[d] # 0 THEN mark[d] ELSE lastWd + 1 IN
    /\ mark' = [mark EXCEPT ![d] = wd]
    /\ lastWd' = IF wd > lastWd THEN wd ELSE lastWd
    /\ wdToDir' = [w \in DOMAIN wdToDir \cup {wd} |-> IF w = wd THEN path ELSE wdToDir[w]]
    /\ dirToWd' = [p \in DOMAIN dirToWd \cup {path} |-> IF p = path THEN wd ELSE dirToWd[p]]
    /\ todo' = <<[path |-> path, armed |-> TRUE]>> \o rest
    /\ blind' = (blind \/ (wd \in DOMAIN wdToDir /\ wdToDir[wd] # path))

Arm ==
    /\ todo # <<>> /\ ~Head(todo).armed
    /\ LET path == Head(todo).path
           here == {d \in Resolve(path) : d \in Dir \cup {Root}}
       IN \/ \E d \in here : ArmIn(d, path, Tail(todo))
          \/ here = {} /\ todo' = Tail(todo) /\ UNCHANGED <<mark, lastWd, wdToDir, dirToWd, blind>>
    /\ UNCHANGED <<place, changes, queue, raised, mirrorVars>>

(* Then the directory is listed, and the directories in it are next.       *)
BelowNone(path) == <<>>

Below(path) ==
    LET found == {PathOf(n) : n \in UNION {Held(d) \cap Dir : d \in Resolve(path)}}
    IN SetToSeq({[path |-> p, armed |-> FALSE] : p \in found})

List ==
    /\ todo # <<>> /\ Head(todo).armed
    /\ todo' = Below(Head(todo).path) \o Tail(todo)
    /\ UNCHANGED <<diskVars, wdToDir, dirToWd, raised, blind, mirrorVars>>

Raise ==
    /\ todo = <<>> /\ raised # NoEvent
    /\ Push(raised) /\ raised' = NoEvent
    /\ UNCHANGED <<diskVars, wdToDir, dirToWd, todo, blind, serving, told, excused>>

-----------------------------------------------------------------------------
(* The mirror: upsert_path() and remove_path().  A missing parent is       *)
(* created, a parent that is a file refuses, and a directory that becomes  *)
(* a file loses what it held; one that becomes another directory does not. *)

Parents(p) == {SubSeq(p, 1, k) : k \in 1 .. Len(p) - 1}

UpsertPath(t, n) ==
    LET p == PathOf(n)
        lost == IF n \in File THEN {q \in DOMAIN t : Under(q, p)} ELSE {}
        paths == (DOMAIN t \ lost) \cup {p} \cup Parents(p)
    IN IF \E q \in Parents(p) \cap DOMAIN t : t[q] \in File THEN t
       ELSE [q \in paths |-> CASE q = p -> n
                               [] q # p /\ q \in DOMAIN t -> t[q]
                               [] OTHER -> Unknown]

RemovePath(t, p) == Restrict(t, {q \in DOMAIN t : q # p /\ ~Under(q, p)})

(* An op is resolved against the disk, whatever the event said.            *)
Apply(t, op) ==
    IF Resolve(op.path) = {} THEN RemovePath(t, op.path)
    ELSE UpsertPath(t, CHOOSE n \in Resolve(op.path) : TRUE)

(* append_subtrees(): what lies below the directories that appeared,       *)
(* parents first, less what has an op of its own.                          *)
ExpandedNone(ops) == {}

Expanded(ops) ==
    LET roots == {i \in DOMAIN ops : ops[i].appeared /\ Resolve(ops[i].path) \cap Dir # {}}
    IN {n \in Present : \E i \in roots : Under(PathOf(n), ops[i].path)}

Appended(ops) ==
    LET own == {ops[i].path : i \in DOMAIN ops}
    IN SetToSortSeq({n \in Expanded(ops) : PathOf(n) \notin own},
                    LAMBDA m, n : Len(PathOf(m)) < Len(PathOf(n)))

(* What the mirror is told of a directory that has no watch yet.           *)
Watched(d) ==
    /\ mark[d] \in DOMAIN wdToDir
    /\ wdToDir[mark[d]] = IF d = Root THEN <<>> ELSE PathOf(d)

Unwatched == {PathOf(d) : d \in {n \in Present \cap Dir : ~Watched(n)}}

(* flush_loop() and the mirror's apply_invalidation().  Too many entries   *)
(* below the directories that appeared, or an overflow, and the client     *)
(* takes a snapshot.                                                       *)
FlushTree ==
    /\ serving /\ (pending # <<>> \/ overflow)
    /\ told' = IF overflow \/ Cardinality(Expanded(Taken)) > MaxExpanded THEN DiskTree
               ELSE FoldLeft(UpsertPath, FoldLeft(Apply, told, Taken), Appended(Taken))
    /\ excused' = excused \cup Unwatched
    /\ pending' = <<>> /\ overflow' = FALSE
    /\ UNCHANGED <<diskVars, watchVars, serving>>

(* start() has armed what it found; a client connects and takes a snapshot *)
(* (scan_tree() of the root).                                              *)
ServeSnapshot ==
    /\ ~serving /\ todo = <<>>
    /\ serving' = TRUE /\ told' = DiskTree /\ excused' = Unwatched \cup excused
    /\ UNCHANGED <<diskVars, watchVars, pending, overflow>>

-----------------------------------------------------------------------------
TreeInit ==
    /\ place \in FirstDisk
    /\ changes = 0 /\ excused = {} /\ queue = <<>>
    /\ mark = [d \in Dir \cup File \cup {Root} |-> 0] /\ lastWd = 0
    /\ wdToDir = <<>> /\ dirToWd = [p \in {} |-> 0]
    /\ todo = <<[path |-> <<>>, armed |-> FALSE]>> /\ raised = NoEvent /\ blind = FALSE
    /\ pending = <<>> /\ overflow = FALSE /\ serving = FALSE /\ told = [p \in {} |-> Root]

Change ==
    \E n \in Node :
        \/ Delete(n)
        \/ \E d \in {Root} \cup (Present \cap Dir), name \in Name : Create(n, d, name) \/ Move(n, d, name)

TreeNext == Change \/ HandleEvent \/ Arm \/ List \/ Raise \/ FlushTree \/ ServeSnapshot

TreeSpec == TreeInit /\ [][TreeNext]_treeVars

-----------------------------------------------------------------------------
WatcherIdle == queue = <<>> /\ todo = <<>> /\ raised = NoEvent
Quiet == WatcherIdle /\ serving /\ pending = <<>> /\ ~overflow

(* Once the watcher has caught up it watches every directory there is, and *)
(* knows each under the path it has now: a directory made, filled, moved   *)
(* or replaced while an earlier event was still being handled is not left  *)
(* out, and no event will be reported under a path that is gone.  Two      *)
(* things end this for good: an event the kernel drops, and a moved        *)
(* directory that add_watch_recursive() comes upon before handle_event()   *)
(* has seen it leave; its descriptor is then known under two paths, and    *)
(* dropping the old one drops the watch.                                   *)
WatchesFollow ==
    WatcherIdle /\ ~blind => \A d \in {Root} \cup (Present \cap Dir) : Watched(d)

(* Once everything has settled the mirror shows every entry on the disk    *)
(* and describes the inode that is there: what a directory held when it    *)
(* was moved, and what was put into it before its watch was armed.  What   *)
(* it shows beyond that lies below a path a directory has left, or below   *)
(* one that was read before it was watched.                                *)
MirrorFollows ==
    Quiet /\ ~blind =>
        /\ \A n \in Present : PathOf(n) \in DOMAIN told /\ told[PathOf(n)] = n
        /\ \A p \in DOMAIN told : Resolve(p) = {} => \E v \in excused : Under(p, v)

(* README.md:130: the mount "stays coherent via pushed invalidations".  It *)
(* does not when a directory is moved away and another one takes its path  *)
(* before the flusher looks: the path is there, so the op is an Upsert,    *)
(* and what the first directory held stays in the mirror.                  *)
CoherentWhenQuiet == Quiet => told = DiskTree
=============================================================================
