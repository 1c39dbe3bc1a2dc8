-------------------------- MODULE MirrorSyncProofs --------------------------
(***************************************************************************)
(* MirrorSync, part 4: no change is lost between the disk and the mirror,  *)
(* and the mirror implements LazyMirror, for every set of paths and every  *)
(* bound.                                                                  *)
(***************************************************************************)
EXTENDS MirrorSnapshotProofs, MirrorRefinement

LEMMA NoLostInit == Init => NoLostChange
BY Zenon DEF Init, NoLostChange

\* A fetch that is due or under way stays so until it loads or fails.
LEMMA ResyncingKept ==
    ASSUME TypeOK, Resyncing, failures' = failures,
           \A t \in Fetcher : ~LoadSnapshot(t), [Next]_vars
    PROVE  Resyncing'
<1>0. pc \in [Fetcher -> {"idle", "want", "fetch", "incomplete", "done"}]
  BY Zenon DEF TypeOK
<1>1. CASE ReceiveInvalidation
  BY <1>1, Zenon DEF ReceiveInvalidation, ApplyBatch, Resyncing
<1>2. CASE SignalRescan
  BY <1>2, Zenon DEF SignalRescan, Resyncing
<1>3. CASE RescanWake
  <2>1. "rescan" \in Fetcher /\ pc'["rescan"] = "want"
    BY <1>0, <1>3 DEF RescanWake, Fetcher
  <2>. QED BY <2>1, Zenon DEF Resyncing
<1>4. ASSUME NEW t \in Fetcher, FetchBegin(t) PROVE Resyncing'
  <2>1. pc'[t] = "fetch"
    BY <1>0, <1>4 DEF FetchBegin
  <2>. QED BY <2>1, Zenon DEF Resyncing
<1>5. ASSUME NEW t \in Fetcher, SignalIncomplete(t) PROVE Resyncing'
  BY <1>5, Zenon DEF SignalIncomplete, Resyncing
<1>6. ASSUME NEW t \in Fetcher, FetchFail(t) PROVE FALSE
  <2>1. failures' = failures + 1 /\ failures \in Nat
    BY <1>6 DEF FetchFail, TypeOK
  <2>. QED BY <2>1
<1>7. CASE UNCHANGED <<readerRescan, rsRequested, pc>>
  BY <1>7, Zenon DEF Resyncing
<1>. QED BY <1>1, <1>2, <1>3, <1>4, <1>5, <1>6, <1>7, SignalSteps, Zenon DEF Fetch

\* Only an applied batch and a loaded snapshot write the mirror.
LEMMA MirrorKept ==
    ASSUME TypeOK, \A t \in Fetcher : ~LoadSnapshot(t), [Next]_vars
    PROVE  /\ loaded' = loaded
           /\ ReceiveInvalidation \/ mirror' = mirror
           /\ failures' = 0 => failures = 0 /\ failures' = failures
<1>1. CASE ReceiveInvalidation
  BY <1>1, Zenon DEF ReceiveInvalidation, ApplyBatch
<1>2. ASSUME NEW t \in Fetcher, FetchBegin(t)
      PROVE  UNCHANGED <<loaded, mirror, failures>>
  BY <1>2, Zenon DEF FetchBegin
<1>3. ASSUME NEW t \in Fetcher, FetchFail(t)
      PROVE  UNCHANGED <<loaded, mirror>> /\ failures' # 0
  <2>1. failures' = failures + 1 /\ failures \in Nat
    BY <1>3 DEF FetchFail, TypeOK
  <2>2. UNCHANGED <<loaded, mirror>>
    BY <1>3, Zenon DEF FetchFail
  <2>. QED BY <2>1, <2>2
<1>. QED BY <1>1, <1>2, <1>3, MirrorSteps, Zenon DEF mirrorVars

\* What the snapshot leaves out of date is still being followed.
LEMMA LoadedStale ==
    ASSUME TypeOK, Control, StaleEntriesFollowed,
           NEW t \in Fetcher, LoadSnapshot(t), NEW p \in Path, mirror'[p] # Seen(p)
    PROVE  Underway(p)'
<1>1. /\ stage[t] = "reply" /\ pc[t] = "fetch"
      /\ UNCHANGED <<agentVars, chan, readerRescan, rsRequested>>
  BY Zenon DEF LoadSnapshot
<1>2. mirror'[p] = IF Newer(t, p) = {} THEN tree[t][p]
                   ELSE replay[LastOf(Newer(t, p))].ops[p]
  BY DEF LoadSnapshot
<1>3. tree[t][p] # NoOp
  <2>1. Touched(tree[t]) = Path
    BY <1>1 DEF TypeOK
  <2>. QED BY <2>1, Zenon DEF Touched
<1>4. CASE Again
  <2>1. pc \in [Fetcher -> {"idle", "want", "fetch", "incomplete", "done"}]
    BY Zenon DEF TypeOK
  <2>2. pc' = [pc EXCEPT ![t] = IF replayOver THEN "incomplete" ELSE FetchEnd(t)]
    BY Zenon DEF LoadSnapshot
  <2>3. replayOver => pc'[t] = "incomplete"
    BY <2>1, <2>2
  <2>4. pc["rescan"] = "want" => "rescan" \in Fetcher /\ pc'["rescan"] = "want"
    BY <1>1, <2>1, <2>2 DEF Fetcher
  <2>. QED BY <1>1, <1>4, <2>3, <2>4, Zenon DEF Again, Underway, Resyncing
<1>5. CASE Ahead(p, snapGen[t])
  <2>1. Noticed(p) \/ Flushing(p) \/ \E j \in 1..Len(chan) : Mentions(chan[j], p)
    BY <1>5, Zenon DEF Ahead
  <2>2. UNCHANGED <<events, pending, overflow, planned, batch, rescanOp, chan>>
    BY <1>1, Zenon DEF agentVars, watchVars, coalVars, flushVars
  <2>3. 1..Len(chan) = (0 + 1)..Len(chan)
    OBVIOUS
  <2>. QED BY <2>1, <2>2, <2>3, Zenon
           DEF Underway, Pursued, Noticed, Flushing, Queued
<1>6. CASE ~Again /\ ~Ahead(p, snapGen[t])
  <2>0. /\ tree[t][p] \notin {NoOp, Seen(p)} => Newer(t, p) # {}
        /\ \A i \in Newer(t, p) : replay[i].ops[p] # Seen(p) =>
             \E j \in Newer(t, p) : j > i
    BY <1>1, <1>6, Zenon DEF StaleEntriesFollowed
  <2>1. Newer(t, p) # {}
    BY <1>2, <1>3, <2>0
  <2>. DEFINE last == LastOf(Newer(t, p))
  <2>2. last \in Newer(t, p) /\ \A j \in Newer(t, p) : j <= last
    <3>1. Newer(t, p) \subseteq 1..Len(replay) /\ Len(replay) \in Nat
      BY QueueTypes DEF Newer
    <3>. QED BY <2>1, <3>1, LastOfProperty, Zenon
  <2>3. replay[last].ops[p] # Seen(p)
    BY <1>2, <2>1
  <2>. HIDE DEF last
  <2>4. PICK j \in Newer(t, p) : j > last
    BY <2>0, <2>2, <2>3, Zenon
  <2>5. j \in Nat /\ last \in Nat /\ j <= last
    BY <2>2, QueueTypes DEF Newer
  <2>. QED BY <2>4, <2>5
<1>. QED BY <1>4, <1>5, <1>6, Zenon

\* What covers p, covers it from behind the first frame, unless that one does.
LEMMA PursuedBehind ==
    ASSUME TypeOK, NEW p \in Path, Pursued(p, 0), ~Mentions(chan[1], p)
    PROVE  Pursued(p, 0 + 1)
<1>1. ASSUME NEW j \in (0 + 1)..Len(chan), Mentions(chan[j], p)
      PROVE  j \in ((0 + 1) + 1)..Len(chan)
  <2>1. j # 1
    BY <1>1
  <2>. QED BY <2>1, QueueTypes
<1>. QED BY <1>1, Zenon DEF Pursued, Queued

\* An applied batch leaves a path out of date only if something follows it.
LEMMA AppliedStale ==
    ASSUME TypeOK, StaleOpsFollowed, ReceiveInvalidation,
           NEW p \in Path, mirror'[p] # Seen(p),
           mirror[p] # Seen(p) => Underway(p), Resyncing => Resyncing'
    PROVE  Underway(p)'
<1>1. Pop
  BY Zenon DEF Pop
<1>2. 1 \in 1..Len(chan) /\ Head(chan) = chan[1]
  BY <1>1, ChannelShifts
<1>3. /\ mirror'[p] = IF chan[1].ops[p] = NoOp THEN mirror[p] ELSE chan[1].ops[p]
      /\ readerRescan' = chan[1].rescan
  BY <1>2 DEF ReceiveInvalidation, ApplyBatch
<1>4. CASE Pursued(p, 0 + 1)
  <2>1. Pursued(p, 0)'
    BY <1>1, <1>4, PursuedPopped
  <2>. QED BY <2>1, Zenon DEF Underway
<1>5. CASE chan[1].ops[p] # NoOp
  <2>1. Pursued(p, 1)
    BY <1>2, <1>3, <1>5 DEF StaleOpsFollowed
  <2>2. 1 = 0 + 1
    OBVIOUS
  <2>. QED BY <1>4, <2>1, <2>2
<1>6. CASE chan[1].ops[p] = NoOp
  <2>1. Underway(p)
    BY <1>3, <1>6
  <2>2. CASE chan[1].rescan
    BY <1>3, <2>2, Zenon DEF Underway, Resyncing
  <2>3. CASE Pursued(p, 0) /\ ~chan[1].rescan
    BY <1>4, <1>6, <2>3, PursuedBehind DEF Mentions
  <2>. QED BY <2>1, <2>2, <2>3, Zenon DEF Underway
<1>. QED BY <1>5, <1>6

\* The steps that leave the mirror alone keep what covers p.
LEMMA UnderwayKept ==
    ASSUME TypeOK, Control, Special = {}, NEW p \in Path \ Ignored, Underway(p),
           ~ReceiveInvalidation, Resyncing => Resyncing', [Next]_vars
    PROVE  Underway(p)'
<1>1. CASE Pursued(p, 0) /\ Pop
  <2>1. 1 \in 1..Len(chan) /\ Head(chan) = chan[1]
    BY <1>1, ChannelShifts
  <2>2. chan[1].kind = "late" \/ chan[1].kind \in Fetcher
    BY <1>1, <2>1, Zenon DEF Pop, ReceiveLate, ReceiveSnapshot
  <2>3. chan[1].kind # "batch"
    BY <2>2 DEF Fetcher
  <2>4. ~Mentions(chan[1], p)
    BY <2>1, <2>3 DEF Control, Mentions, NoOps
  <2>5. Pursued(p, 0 + 1)
    BY <1>1, <2>4, PursuedBehind
  <2>6. Pursued(p, 0)'
    BY <1>1, <2>5, PursuedPopped
  <2>. QED BY <2>6, Zenon DEF Underway
<1>2. CASE Pursued(p, 0) /\ ~Pop
  <2>1. 0 \in Nat /\ 0 <= Len(chan)
    BY QueueTypes
  <2>2. Pursued(p, 0)'
    BY <1>2, <2>1, PursuedKept
  <2>. QED BY <2>2, Zenon DEF Underway
<1>. QED BY <1>1, <1>2, Zenon DEF Underway

LEMMA NoLostStep ==
    ASSUME TypeOK, Control, Special = {}, IgnoredNeverShown', StaleOpsFollowed,
           StaleEntriesFollowed, NoLostChange, [Next]_vars
    PROVE  NoLostChange'
<1>. SUFFICES ASSUME loaded', failures' = 0, NEW p \in Path,
                     mirror'[p] # Seen(p)'
     PROVE  Underway(p)'
  BY Zenon DEF NoLostChange
<1>1. p \notin Ignored
  BY DEF IgnoredNeverShown, Seen
<1>2. CASE Seen(p)' # Seen(p)
  <2>1. Noticed(p)'
    BY <1>2, ChangeNoticed
  <2>. QED BY <2>1, Zenon DEF Underway, Pursued
<1>3. ASSUME NEW t \in Fetcher, LoadSnapshot(t), Seen(p)' = Seen(p)
      PROVE  Underway(p)'
  BY <1>3, LoadedStale
<1>4. CASE Seen(p)' = Seen(p) /\ \A t \in Fetcher : ~LoadSnapshot(t)
  <2>1. /\ loaded /\ failures = 0 /\ failures' = failures
        /\ ReceiveInvalidation \/ mirror' = mirror
    BY <1>4, MirrorKept, Zenon
  <2>2. mirror[p] # Seen(p) => Underway(p)
    BY <2>1, Zenon DEF NoLostChange
  <2>3. Resyncing => Resyncing'
    BY <1>4, <2>1, ResyncingKept
  <2>4. CASE ReceiveInvalidation
    BY <1>4, <2>2, <2>3, <2>4, AppliedStale
  <2>5. CASE mirror' = mirror /\ ~ReceiveInvalidation
    BY <1>1, <1>4, <2>2, <2>3, <2>5, UnderwayKept
  <2>. QED BY <2>1, <2>4, <2>5, Zenon
<1>. QED BY <1>2, <1>3, <1>4, Zenon

LEMMA IInvInit == Init => IInv
BY TypeInit, ControlInit, GenerationsInit, IgnoredInit, StaleOpsInit,
   StaleEntriesInit, NoLostInit, Zenon DEF IInv

LEMMA IInvStep ==
    ASSUME Special = {}
    PROVE  IInv /\ [Next]_vars => IInv'
<1>. SUFFICES ASSUME TypeOK, Control, Generations, IgnoredNeverShown,
                     StaleOpsFollowed, StaleEntriesFollowed, NoLostChange,
                     [Next]_vars
     PROVE  IInv'
  BY Zenon DEF IInv
<1>1. TypeOK'
  BY TypeStep, Zenon
<1>2. Control'
  BY <1>1, ControlStep, Zenon
<1>3. Generations'
  BY <1>1, GenerationsStep, Zenon
<1>4. IgnoredNeverShown'
  BY <1>1, IgnoredStep, Zenon
<1>5. StaleOpsFollowed'
  BY <1>1, <1>2, <1>4, StaleOpsStep, Zenon
<1>6. StaleEntriesFollowed'
  BY <1>1, <1>2, <1>4, StaleEntriesStep, Zenon
<1>7. NoLostChange'
  BY <1>1, <1>4, NoLostStep, Zenon
<1>. QED BY <1>1, <1>2, <1>3, <1>4, <1>5, <1>6, <1>7, Zenon DEF IInv

\* The strengthening holds in every state, for every set of paths and every
\* queue, replay and failure bound, when no path can become a special file
\* (flush_loop skips those: SpecialFile.cfg shows what that loses).
THEOREM InductiveInvariant ==
    ASSUME Special = {}
    PROVE  Spec => []IInv
BY IInvInit, IInvStep, PTL DEF Spec

\* No change is lost between the disk and the mirror: NoLostChange holds for
\* every instance without special files.
THEOREM NoChangeIsLost ==
    ASSUME Special = {}
    PROVE  Spec => []NoLostChange
<1>1. IInv => NoLostChange
  BY Zenon DEF IInv
<1>. QED BY <1>1, InductiveInvariant, PTL


-----------------------------------------------------------------------------
(* The refinement: the paths whose change is underway are the dirty ones. *)

Source == [p \in Path |-> Seen(p)]

LEMMA SourceType ==
    ASSUME TypeOK
    PROVE  Source \in [Path -> Val]
<1>1. \A p \in Path : Seen(p) \in Val
  BY ValueAssumption DEF Seen, TypeOK
<1>. QED BY <1>1 DEF Source

LEMMA RefinementInit == Init => Lazy!Init
<1>. SUFFICES ASSUME Init PROVE Lazy!Init
  OBVIOUS
<1>1. TypeOK
  BY TypeInit
<1>2. Dirty = Path
  BY DEF Dirty, Init
<1>3. Source \in [Path -> Val] /\ mirror \in [Path -> Val]
  BY <1>1, SourceType DEF TypeOK
<1>. QED BY <1>2, <1>3 DEF Lazy!Init, Source

\* A far-side change is a write: it only adds to what is underway.
LEMMA ChangeWrites ==
    ASSUME TypeOK, TypeOK', [Next]_vars,
           NEW q \in Path, NEW v \in Val, Change(q, v)
    PROVE  Lazy!Next
<1>. USE DEF watchVars, coalVars, flushVars, snapVars, mirrorVars, fetchVars,
             agentVars
<1>1. Source \in [Path -> Val] /\ Source' \in [Path -> Val] /\ Source'[q] \in Val
  <2>1. \A p \in Path : Seen(p)' \in Val
    BY ValueAssumption DEF Seen, TypeOK
  <2>. QED BY <2>1, SourceType DEF Source
<1>2. Source' = [Source EXCEPT ![q] = Source'[q]]
  BY <1>1, Zenon DEF Change, Source, Seen, TypeOK
<1>3. mirror' = mirror
  BY DEF Change
<1>4. ASSUME NEW p \in Path, Underway(p) PROVE Underway(p)'
  <2>1. /\ flusher' = flusher /\ planned' = planned /\ batch' = batch
        /\ rescanOp' = rescanOp /\ chan' = chan
        /\ readerRescan' = readerRescan /\ rsRequested' = rsRequested /\ pc' = pc
    BY DEF Change
  <2>2. CASE Noticed(p)
    BY <2>2, NoticedKept DEF Underway, Pursued
  <2>3. CASE Flushing(p) \/ Queued(p, 0)
    BY <2>1, <2>3 DEF Underway, Pursued, Flushing, Queued
  <2>4. CASE Resyncing
    BY <2>1, <2>4 DEF Underway, Resyncing
  <2>. QED BY <1>4, <2>2, <2>3, <2>4 DEF Underway, Pursued
<1>5. Underway(q)'
  BY ChangeIsNoticed DEF Underway, Pursued
<1>6. Dirty \cup {q} \subseteq Dirty' /\ Dirty' \in SUBSET Path
  <2>1. loaded' = loaded /\ failures' = failures
    BY DEF Change
  <2>. QED BY <1>4, <1>5, <2>1 DEF Dirty
<1>. QED BY <1>1, <1>2, <1>3, <1>6, Zenon DEF Lazy!Next, Lazy!Write, Source

\* Every other step that changes the mirror or its dirty paths is a sync: a
\* clean path has neither an operation in the next frame nor a fetch under way.
LEMMA OtherStepsSync ==
    ASSUME IInv, IInv', [Next]_vars,
           \A q \in Path, v \in Val : ~Change(q, v)
    PROVE  Lazy!Next
<1>0. TypeOK /\ TypeOK' /\ Control /\ NoLostChange'
  BY DEF IInv
<1>1. disk' = disk
  <2>1. ~\E q \in Path, v \in Val : Change(q, v)
    BY Zenon
  <2>. QED BY <2>1, NoticeSteps, Zenon DEF OnEvent, Take, watchVars
<1>2. Source' = Source
  BY <1>1 DEF Source, Seen
<1>3. ASSUME NEW p \in Path \ Dirty PROVE mirror'[p] = mirror[p]
  <2>1. loaded /\ ~Underway(p)
    BY <1>3 DEF Dirty
  <2>2. \A t \in Fetcher : ~LoadSnapshot(t)
    BY <2>1 DEF LoadSnapshot, Underway, Resyncing
  <2>3. CASE mirror' = mirror
    BY <2>3
  <2>4. CASE ReceiveInvalidation
    <3>1. 1 \in 1..Len(chan) /\ Head(chan) = chan[1]
      BY <1>0, <2>4, ChannelShifts DEF Pop
    <3>2. chan[1].ops[p] = NoOp
      BY <2>1, <3>1 DEF Underway, Pursued, Queued, Mentions
    <3>. QED BY <2>4, <3>1, <3>2 DEF ReceiveInvalidation, ApplyBatch
  <2>. QED BY <1>0, <2>2, <2>3, <2>4, MirrorKept
<1>4. ASSUME NEW p \in Path \ Dirty' PROVE mirror'[p] = Source[p]
  <2>1. loaded' /\ failures' = 0 /\ ~Underway(p)'
    BY <1>0, <1>4 DEF Dirty, TypeOK
  <2>. QED BY <1>0, <1>2, <2>1 DEF NoLostChange, Source
<1>5. mirror' \in [Path -> Val] /\ Dirty' \in SUBSET Path
  BY <1>0 DEF TypeOK, Dirty
<1>. QED BY <1>2, <1>3, <1>4, <1>5 DEF Lazy!Next, Lazy!Sync, Source

\* The client's mirror implements the lazy mirror for every instance without
\* special files: it is written only on paths whose change is underway, and
\* shows the disk on all others (apply_invalidation, fetch_snapshot).
THEOREM ImplementsLazyMirror ==
    ASSUME Special = {}
    PROVE  Spec => IsLazyMirror
<1>1. IInv /\ IInv' /\ [Next]_vars => [Lazy!Next]_(Lazy!vars)
  <2>. SUFFICES ASSUME IInv, IInv', [Next]_vars PROVE Lazy!Next
    OBVIOUS
  <2>1. TypeOK /\ TypeOK'
    BY DEF IInv
  <2>2. CASE \E q \in Path, v \in Val : Change(q, v)
    BY <2>1, <2>2, ChangeWrites
  <2>3. CASE \A q \in Path, v \in Val : ~Change(q, v)
    BY <2>3, OtherStepsSync
  <2>. QED BY <2>2, <2>3
<1>. QED BY <1>1, RefinementInit, InductiveInvariant, PTL
     DEF Spec, IsLazyMirror, Lazy!Spec

=============================================================================
