----------------------------- MODULE MirrorSync -----------------------------
(***************************************************************************)
(* How one client's metadata mirror follows the tree its agent serves.    *)
(*                                                                         *)
(* Agent (server.cpp): kernel change queue -> watcher thread -> Coalescer  *)
(* -> flusher thread, which takes the coalesced paths, assigns the next    *)
(* generation, re-stats every path and broadcasts the result in one or     *)
(* more frames.  The session thread answers SnapshotRequest by stamping    *)
(* the current generation and then scanning the tree entry by entry.       *)
(* Client (client.cpp): the reader thread applies invalidation frames;     *)
(* the mounting thread and the rescan thread fetch snapshots, during which *)
(* the reader records batches that are replayed over the loaded snapshot.  *)
(*                                                                         *)
(* All of the far side's metadata for a path is one value of Val.  Changes *)
(* come from the far side only; the client's own mutations are added by    *)
(* WriteThrough.                                                           *)
(***************************************************************************)
EXTENDS Integers, Sequences

CONSTANTS
    Path,        \* the paths below the served root
    Val,         \* what a stat of a path can return
    Absent,      \* ... when there is nothing at the path
    Special,     \* values whose kind is NodeKind::Other (fifos, sockets)
    Dir,         \* values whose kind is Directory
    Ignored,     \* paths an ignore rule excludes
    Overflow,    \* the kernel's "events were lost" record
    NoOp,        \* no operation for a path in a batch, no entry scanned yet
    MaxEvents,   \* capacity of the kernel's change queue
    MaxReplay,   \* kMaxSnapshotReplay
    MaxChanges,  \* bound: far-side changes
    MaxFailures  \* bound: snapshot fetches that fail

ASSUME ValueAssumption ==
    /\ Absent \in Val
    /\ Special \subseteq Val \ {Absent}
    /\ Dir \subseteq Val \ ({Absent} \cup Special)
    /\ NoOp \notin Val
    /\ Ignored \subseteq Path
    /\ Overflow \notin Path

ASSUME BoundAssumption ==
    /\ MaxEvents \in Nat \ {0}
    /\ MaxReplay \in Nat
    /\ MaxChanges \in Nat
    /\ MaxFailures \in Nat

VARIABLES
    disk,         \* the served tree
    changes,      \* far-side changes so far
    events,       \* the kernel's change queue
    pending,      \* Coalescer::pending_, as the set of its paths
    overflow,     \* Coalescer::overflow_
    flusher,      \* where flush_loop is
    planned,      \* taken paths that are not re-stated yet
    rescanOp,     \* the plan, or the batch, holds a Rescan
    generation,   \* RootServer::generation_
    batchGen,     \* batch.generation
    batch,        \* batch.ops: path -> resolved value or NoOp
    stage,        \* progress of the snapshot each fetcher asked for
    snapGen,      \* the generation stamped on it
    tree,         \* its entries: path -> value, NoOp while not scanned
    chan,         \* frames on the way to the client, oldest first
    mirror,       \* RemoteRoot::tree_
    loaded,       \* some snapshot has been loaded
    inFlight,     \* snapshot_in_flight_
    replay,       \* snapshot_replay_
    replayOver,   \* snapshot_replay_overflow_
    readerRescan, \* the reader is about to request a rescan
    rsRequested,  \* rs_requested_
    pc,           \* where each fetcher is
    failures      \* failed fetches (rescan_failures, or a failed mount)

watchVars == <<disk, changes, events>>
coalVars == <<pending, overflow>>
flushVars == <<flusher, planned, rescanOp, generation, batchGen, batch>>
snapVars == <<stage, snapGen, tree>>
mirrorVars == <<mirror, loaded, inFlight, replay, replayOver>>
fetchVars == <<readerRescan, rsRequested, pc, failures>>
agentVars == <<watchVars, coalVars, flushVars>>
vars == <<agentVars, snapVars, chan, mirrorVars, fetchVars>>

\* The threads that call fetch_snapshot: the one that mounts, and rescan_loop.
Fetcher == {"main", "rescan"}

Ops == [Path -> Val \cup {NoOp}]
NoOps == [p \in Path |-> NoOp]
Touched(ops) == {p \in Path : ops[p] # NoOp}
Only(ops, S) == [p \in Path |-> IF p \in S THEN ops[p] ELSE NoOp]

\* A frame to the client: an invalidation batch, the end of the snapshot a
\* fetcher asked for (the entries are in tree, fixed by then), or the end of
\* one nobody waits for any more.
Frame == [kind : {"batch", "late"} \cup Fetcher,
          gen : Nat, ops : Ops, rescan : BOOLEAN]
BatchFrame(g, ops, rescan) ==
    [kind |-> "batch", gen |-> g, ops |-> ops, rescan |-> rescan]
SnapshotEnd(t) == [kind |-> t, gen |-> 0, ops |-> NoOps, rescan |-> FALSE]
Mentions(f, p) == f.ops[p] # NoOp \/ f.rescan

\* What a scan reports for a path: ignored paths and special files are skipped.
Seen(p) == IF p \in Ignored \/ disk[p] \in Special THEN Absent ELSE disk[p]

Init ==
    /\ disk \in [Path -> Val]
    /\ changes = 0
    /\ events = <<>>
    /\ pending = {} /\ overflow = FALSE
    /\ flusher = "idle" /\ planned = {} /\ rescanOp = FALSE
    /\ generation = 1 /\ batchGen = 0 /\ batch = NoOps
    /\ stage = [t \in Fetcher |-> "none"]
    /\ snapGen = [t \in Fetcher |-> 0]
    /\ tree = [t \in Fetcher |-> NoOps]
    /\ chan = <<>>
    /\ mirror = [p \in Path |-> Absent]
    /\ loaded = FALSE
    /\ inFlight = FALSE /\ replay = <<>> /\ replayOver = FALSE
    /\ readerRescan = FALSE /\ rsRequested = FALSE
    /\ pc = [t \in Fetcher |-> IF t = "main" THEN "want" ELSE "idle"]
    /\ failures = 0

-----------------------------------------------------------------------------
(* The far side changes, and the watcher reports it. *)

\* The kernel queues a change record.  A full queue drops it and holds one
\* overflow record for everything it dropped.
Enqueue(queue, p) ==
    IF Len(queue) < MaxEvents THEN Append(queue, p)
    ELSE IF \E i \in 1..Len(queue) : queue[i] = Overflow THEN queue
    ELSE Append(queue, Overflow)

\* A far-side program changes a path.
Change(p, v) ==
    /\ changes < MaxChanges
    /\ v # disk[p]
    /\ disk' = [disk EXCEPT ![p] = v]
    /\ changes' = changes + 1
    /\ events' = Enqueue(events, p)
    /\ UNCHANGED <<coalVars, flushVars, snapVars, chan, mirrorVars, fetchVars>>

\* The watcher thread hands an event to on_event, which pushes it.
OnEvent ==
    /\ events # <<>>
    /\ events' = Tail(events)
    /\ overflow' = (overflow \/ Head(events) = Overflow)
    /\ pending' = IF overflow' THEN {} ELSE pending \cup {Head(events)}
    /\ UNCHANGED <<disk, changes, flushVars, snapVars, chan, mirrorVars,
                   fetchVars>>

-----------------------------------------------------------------------------
(* flush_loop *)

\* Coalescer::take, under coalescer_mu_.  When the window ends is left open.
Take ==
    /\ flusher = "idle"
    /\ pending # {} \/ overflow
    /\ flusher' = "taken"
    /\ planned' = pending
    /\ rescanOp' = overflow
    /\ pending' = {} /\ overflow' = FALSE
    /\ UNCHANGED <<watchVars, generation, batchGen, batch, snapVars, chan,
                   mirrorVars, fetchVars>>

\* generation_.fetch_add, after the lock is released and before any re-stat.
AssignGeneration ==
    /\ flusher = "taken"
    /\ flusher' = "resolve"
    /\ generation' = generation + 1
    /\ batchGen' = generation + 1
    /\ UNCHANGED <<watchVars, coalVars, planned, rescanOp, batch, snapVars,
                   chan, mirrorVars, fetchVars>>

\* Mutant of Resolve: the ignore rules are not consulted.
ResolveUnfiltered(p) ==
    /\ flusher = "resolve"
    /\ p \in planned
    /\ planned' = planned \ {p}
    /\ batch' = [batch EXCEPT ![p] = disk[p]]
    /\ UNCHANGED <<watchVars, coalVars, flusher, rescanOp, generation,
                   batchGen, snapVars, chan, mirrorVars, fetchVars>>

\* One planned path is resolved against the disk as it is now.  Ignored paths
\* and special files are skipped, and so contribute no operation.
Resolve(p) ==
    /\ flusher = "resolve"
    /\ p \in planned
    /\ planned' = planned \ {p}
    /\ batch' = IF p \in Ignored \/ disk[p] \in Special THEN batch
                ELSE [batch EXCEPT ![p] = disk[p]]
    /\ UNCHANGED <<watchVars, coalVars, flusher, rescanOp, generation,
                   batchGen, snapVars, chan, mirrorVars, fetchVars>>

\* Mutant of EndResolve: a batch without paths is dropped, its Rescan included.
EndResolveDropsRescan(over) ==
    /\ flusher = "resolve"
    /\ planned = {}
    /\ over => \E p \in Path : batch[p] \in Dir
    /\ rescanOp' = ((rescanOp \/ over) /\ Touched(batch) # {})
    /\ flusher' = IF Touched(batch) = {} THEN "idle" ELSE "send"
    /\ UNCHANGED <<watchVars, coalVars, planned, generation, batchGen, batch,
                   snapVars, chan, mirrorVars, fetchVars>>

\* Every path is resolved.  A directory whose expansion is over budget adds a
\* Rescan; a batch that came out empty is not broadcast.
EndResolve(over) ==
    /\ flusher = "resolve"
    /\ planned = {}
    /\ over => \E p \in Path : batch[p] \in Dir
    /\ rescanOp' = (rescanOp \/ over)
    /\ flusher' = IF Touched(batch) = {} /\ ~rescanOp' THEN "idle" ELSE "send"
    /\ UNCHANGED <<watchVars, coalVars, planned, generation, batchGen, batch,
                   snapVars, chan, mirrorVars, fetchVars>>

\* broadcast_batch sends the operations in frames that share the generation;
\* the Rescan, last in the batch, goes with or after the last path.
Broadcast(S, withRescan) ==
    /\ flusher = "send"
    /\ S \subseteq Touched(batch)
    /\ S # {} \/ withRescan
    /\ withRescan => rescanOp /\ S = Touched(batch)
    /\ chan' = Append(chan, BatchFrame(batchGen, Only(batch, S), withRescan))
    /\ batch' = Only(batch, Path \ S)
    /\ rescanOp' = (rescanOp /\ ~withRescan)
    /\ flusher' = IF Touched(batch) = S /\ ~rescanOp' THEN "idle" ELSE "send"
    /\ UNCHANGED <<watchVars, coalVars, planned, generation, batchGen,
                   snapVars, mirrorVars, fetchVars>>

-----------------------------------------------------------------------------
(* send_snapshot, on the session thread *)

StampSnapshot(t) ==
    /\ stage[t] = "requested"
    /\ \A u \in Fetcher : stage[u] # "scan"
    /\ stage' = [stage EXCEPT ![t] = "scan"]
    /\ snapGen' = [snapGen EXCEPT ![t] = generation]
    /\ tree' = [tree EXCEPT ![t] = NoOps]
    /\ UNCHANGED <<agentVars, chan, mirrorVars, fetchVars>>

ScanEntry(t, p) ==
    /\ stage[t] = "scan"
    /\ tree[t][p] = NoOp
    /\ tree' = [tree EXCEPT ![t] = [@ EXCEPT ![p] = Seen(p)]]
    /\ UNCHANGED <<agentVars, stage, snapGen, chan, mirrorVars, fetchVars>>

\* Mutant of SendSnapshot: the last frame does not wait for the scan.
SendSnapshotEarly(t) ==
    /\ stage[t] = "scan"
    /\ stage' = [stage EXCEPT ![t] = "sent"]
    /\ chan' = Append(chan, SnapshotEnd(t))
    /\ UNCHANGED <<agentVars, snapGen, tree, mirrorVars, fetchVars>>

\* Mutant of SendSnapshot: the generation is read after the scan.
SendSnapshotStamps(t) ==
    /\ stage[t] = "scan"
    /\ Touched(tree[t]) = Path
    /\ stage' = [stage EXCEPT ![t] = "sent"]
    /\ snapGen' = [snapGen EXCEPT ![t] = generation]
    /\ chan' = Append(chan, SnapshotEnd(t))
    /\ UNCHANGED <<agentVars, tree, mirrorVars, fetchVars>>

SendSnapshot(t) ==
    /\ stage[t] = "scan"
    /\ Touched(tree[t]) = Path
    /\ stage' = [stage EXCEPT ![t] = "sent"]
    /\ chan' = Append(chan, SnapshotEnd(t))
    /\ UNCHANGED <<agentVars, snapGen, tree, mirrorVars, fetchVars>>

-----------------------------------------------------------------------------
(* The client's reader thread *)

\* apply_invalidation up to the release of tree_mu_; stale is the set of paths
\* whose operations are discarded.
ApplyBatch(stale) ==
    /\ ~readerRescan
    /\ chan # <<>> /\ Head(chan).kind = "batch"
    /\ chan' = Tail(chan)
    /\ LET b == Head(chan) IN
       /\ mirror' = [p \in Path |-> IF b.ops[p] = NoOp \/ p \in stale
                                    THEN mirror[p] ELSE b.ops[p]]
       /\ readerRescan' = b.rescan
       /\ replay' = IF inFlight /\ Len(replay) < MaxReplay
                    THEN Append(replay, b) ELSE replay
       /\ replayOver' = (replayOver \/ (inFlight /\ Len(replay) >= MaxReplay))
    /\ UNCHANGED <<agentVars, snapVars, loaded, inFlight, rsRequested, pc,
                   failures>>

ReceiveInvalidation == ApplyBatch({})

\* The rest of apply_invalidation for a batch with a Rescan.
SignalRescan ==
    /\ readerRescan
    /\ readerRescan' = FALSE
    /\ rsRequested' = TRUE
    /\ UNCHANGED <<agentVars, snapVars, chan, mirrorVars, pc, failures>>

\* The last frame of a snapshot completes the request that waits for it.
ReceiveSnapshot(t) ==
    /\ ~readerRescan
    /\ chan # <<>> /\ Head(chan).kind = t
    /\ stage[t] = "sent"
    /\ chan' = Tail(chan)
    /\ stage' = [stage EXCEPT ![t] = "reply"]
    /\ UNCHANGED <<agentVars, snapGen, tree, mirrorVars, fetchVars>>

\* A late reply to a timed-out request is dropped.
ReceiveLate ==
    /\ ~readerRescan
    /\ chan # <<>> /\ Head(chan).kind = "late"
    /\ chan' = Tail(chan)
    /\ UNCHANGED <<agentVars, snapVars, mirrorVars, fetchVars>>

-----------------------------------------------------------------------------
(* fetch_snapshot and rescan_loop *)

\* rescan_loop consumes the request, sits out its back-off and calls
\* fetch_snapshot.
RescanWake ==
    /\ pc["rescan"] = "idle"
    /\ rsRequested
    /\ rsRequested' = FALSE
    /\ pc' = [pc EXCEPT !["rescan"] = "want"]
    /\ UNCHANGED <<agentVars, snapVars, chan, mirrorVars, readerRescan,
                   failures>>

\* Mutant of FetchBegin: the request is sent before recording is switched on.
FetchBeginUnrecorded(t) ==
    /\ pc[t] = "want"
    /\ \A u \in Fetcher : pc[u] \notin {"fetch", "incomplete"}
    /\ pc' = [pc EXCEPT ![t] = "fetch"]
    /\ replay' = <<>>
    /\ stage' = [stage EXCEPT ![t] = "requested"]
    /\ UNCHANGED <<agentVars, snapGen, tree, chan, mirror, loaded, inFlight,
                   replayOver, readerRescan, rsRequested, failures>>

\* Takes snapshot_mu_, starts recording and sends the request.
FetchBegin(t) ==
    /\ pc[t] = "want"
    /\ \A u \in Fetcher : pc[u] \notin {"fetch", "incomplete"}
    /\ pc' = [pc EXCEPT ![t] = "fetch"]
    /\ inFlight' = TRUE
    /\ replay' = <<>>
    /\ stage' = [stage EXCEPT ![t] = "requested"]
    /\ UNCHANGED <<agentVars, snapGen, tree, chan, mirror, loaded, replayOver,
                   readerRescan, rsRequested, failures>>

\* The mounting thread fetches once; the rescan thread waits for a request.
FetchEnd(t) == IF t = "main" THEN "done" ELSE "idle"

\* The recorded batches that post-date the snapshot and touch p.
Newer(t, p) == {i \in 1..Len(replay) : /\ replay[i].gen > snapGen[t]
                                       /\ replay[i].ops[p] # NoOp}
LastOf(S) == CHOOSE i \in S : \A j \in S : j <= i

\* Mutant of LoadSnapshot: a replay that overflowed is trusted.
LoadSnapshotTrusting(t) ==
    /\ pc[t] = "fetch"
    /\ stage[t] = "reply"
    /\ mirror' = [p \in Path |-> IF Newer(t, p) = {} THEN tree[t][p]
                                 ELSE replay[LastOf(Newer(t, p))].ops[p]]
    /\ loaded' = TRUE
    /\ inFlight' = FALSE /\ replay' = <<>> /\ replayOver' = FALSE
    /\ stage' = [stage EXCEPT ![t] = "none"]
    /\ pc' = [pc EXCEPT ![t] = FetchEnd(t)]
    /\ UNCHANGED <<agentVars, snapGen, tree, chan, readerRescan, rsRequested,
                   failures>>

\* The snapshot replaces the mirror and the batches that post-date it are
\* applied on top, oldest first, so the last one to touch a path wins.
LoadSnapshot(t) ==
    /\ pc[t] = "fetch"
    /\ stage[t] = "reply"
    /\ mirror' = [p \in Path |-> IF Newer(t, p) = {} THEN tree[t][p]
                                 ELSE replay[LastOf(Newer(t, p))].ops[p]]
    /\ loaded' = TRUE
    /\ inFlight' = FALSE /\ replay' = <<>> /\ replayOver' = FALSE
    /\ stage' = [stage EXCEPT ![t] = "none"]
    /\ pc' = [pc EXCEPT ![t] = IF replayOver THEN "incomplete" ELSE FetchEnd(t)]
    /\ UNCHANGED <<agentVars, snapGen, tree, chan, readerRescan, rsRequested,
                   failures>>

\* A replay that overflowed makes the snapshot untrustworthy: ask for another.
SignalIncomplete(t) ==
    /\ pc[t] = "incomplete"
    /\ rsRequested' = TRUE
    /\ pc' = [pc EXCEPT ![t] = FetchEnd(t)]
    /\ UNCHANGED <<agentVars, snapVars, chan, mirrorVars, readerRescan,
                   failures>>

\* The request times out, or the scan fails: recording ends and the failure is
\* counted.  Whatever the agent still sends for it is a late reply.
FetchFail(t) ==
    /\ pc[t] = "fetch"
    /\ stage[t] \in {"requested", "scan", "sent"}
    /\ failures < MaxFailures
    /\ failures' = failures + 1
    /\ inFlight' = FALSE /\ replay' = <<>> /\ replayOver' = FALSE
    /\ stage' = [stage EXCEPT ![t] = "none"]
    /\ chan' = [i \in 1..Len(chan) |->
                  [chan[i] EXCEPT !.kind = IF @ = t THEN "late" ELSE @]]
    /\ pc' = [pc EXCEPT ![t] = FetchEnd(t)]
    /\ UNCHANGED <<agentVars, snapGen, tree, mirror, loaded, readerRescan,
                   rsRequested>>

-----------------------------------------------------------------------------
Flush == Take \/ AssignGeneration \/ (\E p \in Path : Resolve(p))
           \/ (\E over \in BOOLEAN : EndResolve(over))
           \/ (\E S \in SUBSET Path, r \in BOOLEAN : Broadcast(S, r))
Serve == \E t \in Fetcher : \/ StampSnapshot(t) \/ SendSnapshot(t)
                            \/ \E p \in Path : ScanEntry(t, p)
Reader == ReceiveInvalidation \/ SignalRescan \/ ReceiveLate
            \/ \E t \in Fetcher : ReceiveSnapshot(t)
Fetch == RescanWake \/ \E t \in Fetcher : \/ FetchBegin(t) \/ LoadSnapshot(t)
                                          \/ SignalIncomplete(t)
Work == OnEvent \/ Flush \/ Serve \/ Reader \/ Fetch

Next == \/ \E p \in Path, v \in Val : Change(p, v)
        \/ \E t \in Fetcher : FetchFail(t)
        \/ Work

Spec == Init /\ [][Next]_vars

\* The program's threads keep running: while any of them can move, one does.
FairSpec == Spec /\ WF_vars(Work)

-----------------------------------------------------------------------------
(* Properties *)

TypeOK ==
    /\ disk \in [Path -> Val]
    /\ changes \in 0..MaxChanges
    /\ events \in Seq(Path \cup {Overflow})
    /\ pending \in SUBSET Path /\ overflow \in BOOLEAN
    /\ flusher \in {"idle", "taken", "resolve", "send"}
    /\ planned \in SUBSET Path /\ rescanOp \in BOOLEAN
    /\ generation \in Nat /\ batchGen \in Nat /\ batch \in Ops
    /\ stage \in [Fetcher -> {"none", "requested", "scan", "sent", "reply"}]
    /\ snapGen \in [Fetcher -> Nat]
    /\ tree \in [Fetcher -> Ops]
    /\ \A t \in Fetcher : stage[t] \in {"sent", "reply"} => Touched(tree[t]) = Path
    /\ chan \in Seq(Frame)
    /\ mirror \in [Path -> Val]
    /\ loaded \in BOOLEAN /\ inFlight \in BOOLEAN /\ replayOver \in BOOLEAN
    /\ replay \in Seq(Frame)
    /\ readerRescan \in BOOLEAN /\ rsRequested \in BOOLEAN
    /\ pc \in [Fetcher -> {"idle", "want", "fetch", "incomplete", "done"}]
    /\ failures \in 0..MaxFailures

\* The watcher or the coalescer still holds a notice that covers p.
Noticed(p) == \/ \E i \in 1..Len(events) : events[i] \in {p, Overflow}
              \/ p \in pending \/ overflow

\* The flusher holds an operation on p, or a Rescan, that is not sent yet.
Flushing(p) == p \in planned \/ batch[p] # NoOp \/ rescanOp

\* A frame behind position i of the channel covers p.
Queued(p, i) == \E j \in (i+1)..Len(chan) : Mentions(chan[j], p)

\* A new snapshot is asked for, being fetched, or about to be asked for.
Resyncing == \/ readerRescan \/ rsRequested
             \/ \E t \in Fetcher : pc[t] \in {"want", "fetch", "incomplete"}

\* Something newer than the frame at position i is on its way for p.
Pursued(p, i) == Noticed(p) \/ Flushing(p) \/ Queued(p, i)

Underway(p) == Pursued(p, 0) \/ Resyncing

\* No change is lost between the disk and the mirror: once a snapshot is
\* loaded, a path on which the mirror and the disk disagree is covered by a
\* notice, an operation or a frame still on its way, or by a fetch that is
\* under way or due - unless a fetch failed, which rescan_loop only counts.
\* Concerns the generation stamps of flush_loop and send_snapshot, the replay
\* of fetch_snapshot, and its overflow.
NoLostChange ==
    loaded /\ failures = 0 => \A p \in Path : mirror[p] = Seen(p) \/ Underway(p)

\* Nothing is on its way in either process.
Quiet == \A p \in Path : ~Underway(p)

\* README.md:130 "stays coherent via pushed invalidations": a mirror with
\* nothing left to apply shows what a scan of the disk would show.
QuietMeansCoherent == loaded /\ Quiet => \A p \in Path : mirror[p] = Seen(p)

\* Once the far side stops changing, the mirror comes to equal the disk and
\* stays so, unless a fetch failed (apply_invalidation, fetch_snapshot and
\* rescan_loop together).
Converges == <>[](failures > 0 \/ \A p \in Path : mirror[p] = Seen(p))

-----------------------------------------------------------------------------
(* The inductive strengthening of NoLostChange *)

\* A notice, or a planned or resolved operation, on p that the flusher will
\* broadcast under a generation above g.
Ahead(p, g) == \/ Noticed(p)
               \/ Flushing(p) /\ (flusher = "taken" \/ batchGen > g)
               \/ \E j \in 1..Len(chan) : chan[j].gen > g /\ Mentions(chan[j], p)

\* A second snapshot will follow the one being fetched.
Again == replayOver \/ readerRescan \/ rsRequested \/ pc["rescan"] = "want"

\* The threads hand over to each other as the locks and the channel force.
Control ==
    /\ \A t, u \in Fetcher : /\ pc[t] \in {"fetch", "incomplete"}
                             /\ pc[u] \in {"fetch", "incomplete"}
                             => t = u
    /\ \A t \in Fetcher : stage[t] # "none" => pc[t] = "fetch"
    /\ \A t \in Fetcher : pc[t] = "fetch" => inFlight
    /\ flusher \in {"idle", "taken"} => batch = NoOps
    /\ flusher = "idle" => planned = {} /\ ~rescanOp
    /\ flusher = "send" => planned = {}
    /\ \A i \in 1..Len(chan) : chan[i].kind # "batch" =>
          chan[i].ops = NoOps /\ ~chan[i].rescan

\* Generations grow along the channel and never run ahead of the agent's.
Generations ==
    /\ batchGen <= generation
    /\ \A i \in 1..Len(chan) : chan[i].gen <= batchGen
    /\ \A i, j \in 1..Len(chan) :
          i < j /\ chan[i].kind = "batch" /\ chan[j].kind = "batch"
          => chan[i].gen <= chan[j].gen
    /\ \A i \in 1..Len(replay) : replay[i].gen <= batchGen
    /\ \A t \in Fetcher : snapGen[t] <= generation

\* No operation, entry or mirror node exists for an ignored path.
IgnoredNeverShown ==
    \A p \in Ignored :
        /\ batch[p] = NoOp
        /\ \A i \in 1..Len(chan) : chan[i].ops[p] = NoOp
        /\ \A i \in 1..Len(replay) : replay[i].ops[p] = NoOp
        /\ \A t \in Fetcher : tree[t][p] \in {NoOp, Absent}
        /\ mirror[p] = Absent

\* An operation that is out of date is followed by something newer on p.
StaleOpsFollowed ==
    \A p \in Path :
        /\ batch[p] \notin {NoOp, Seen(p)} => Noticed(p)
        /\ \A i \in 1..Len(chan) :
              chan[i].ops[p] \notin {NoOp, Seen(p)} => Pursued(p, i)

\* A snapshot entry that is out of date will be overwritten by a replayed
\* batch or by something that reaches the client after it, and so will an
\* out-of-date batch of the replay.
StaleEntriesFollowed ==
    \A t \in Fetcher, p \in Path : stage[t] \in {"scan", "sent", "reply"} =>
        /\ tree[t][p] \notin {NoOp, Seen(p)} =>
              Again \/ Ahead(p, snapGen[t]) \/ Newer(t, p) # {}
        /\ \A i \in Newer(t, p) : replay[i].ops[p] # Seen(p) =>
              \/ Again \/ Ahead(p, snapGen[t])
              \/ \E j \in Newer(t, p) : j > i

\* The inductive invariant behind NoLostChange.
IInv == /\ TypeOK /\ Control /\ Generations /\ IgnoredNeverShown
        /\ StaleOpsFollowed /\ StaleEntriesFollowed
        /\ NoLostChange

=============================================================================
