------------------------ MODULE MirrorSnapshotProofs ------------------------
(***************************************************************************)
(* MirrorSync, part 3: what a snapshot, or the recording that is replayed  *)
(* over it, has out of date is followed by something newer.                *)
(***************************************************************************)
EXTENDS MirrorControlProofs

-----------------------------------------------------------------------------
(* Out-of-date snapshot entries *)

Active == {"scan", "sent", "reply"}

\* Nobody begins, loads or abandons a fetch while another one is delivered.
LEMMA FetchesAlone ==
    ASSUME TypeOK, Control, NEW t \in Fetcher, stage'[t] \in Active,
           NEW u \in Fetcher, FetchBegin(u) \/ LoadSnapshot(u) \/ FetchFail(u)
    PROVE  FALSE
<1>1. u # t
  BY DEF FetchBegin, LoadSnapshot, FetchFail, Active, TypeOK
<1>2. stage'[t] = stage[t]
  BY <1>1 DEF FetchBegin, LoadSnapshot, FetchFail, TypeOK
<1>3. pc[t] = "fetch"
  BY <1>2 DEF Active, Control
<1>. QED BY <1>1, <1>3 DEF FetchBegin, LoadSnapshot, FetchFail, Control

\* A request for another snapshot is not dropped in the meantime ...
LEMMA AgainKept ==
    ASSUME TypeOK, Control, NEW t \in Fetcher, stage'[t] \in Active, [Next]_vars, Again
    PROVE  Again'
<1>1. CASE ReceiveInvalidation
  BY <1>1, Zenon DEF ReceiveInvalidation, ApplyBatch, Again
<1>2. CASE SignalRescan
  BY <1>2 DEF SignalRescan, Again
<1>3. CASE RescanWake
  <2>1. pc'["rescan"] = "want"
    <3>1. pc \in [Fetcher -> {"idle", "want", "fetch", "incomplete", "done"}]
      BY Zenon DEF TypeOK
    <3>2. pc' = [pc EXCEPT !["rescan"] = "want"]
      BY <1>3, Zenon DEF RescanWake
    <3>. QED BY <3>1, <3>2 DEF Fetcher
  <2>. QED BY <2>1, Zenon DEF Again
<1>4. ASSUME NEW u \in Fetcher, SignalIncomplete(u) PROVE Again'
  BY <1>4 DEF SignalIncomplete, Again
<1>5. ASSUME NEW u \in Fetcher, FetchBegin(u) \/ LoadSnapshot(u) \/ FetchFail(u)
      PROVE  FALSE
  BY <1>5, FetchesAlone
<1>6. CASE UNCHANGED <<readerRescan, rsRequested, pc, replayOver>>
  BY <1>6, Zenon DEF Again
<1>7. \/ ReceiveInvalidation \/ SignalRescan \/ RescanWake
      \/ \E u \in Fetcher : SignalIncomplete(u)
      \/ UNCHANGED <<readerRescan, rsRequested, pc, replayOver>>
  BY <1>5, SignalSteps, MirrorSteps, Zenon DEF Fetch, mirrorVars
<1>. QED BY <1>1, <1>2, <1>3, <1>4, <1>6, <1>7, Zenon

\* ... its generation stays, entries are read off the disk, and only the reader
\* extends the recording.
LEMMA SnapshotKept ==
    ASSUME TypeOK, Control, NEW t \in Fetcher, NEW p \in Path,
           stage'[t] \in Active, [Next]_vars, ~StampSnapshot(t)
    PROVE  /\ stage[t] \in Active
           /\ snapGen'[t] = snapGen[t]
           /\ tree'[t][p] \in {tree[t][p], Seen(p)}
           /\ replay' = replay \/ ReceiveInvalidation
<1>1. stage[t] \in Active
  <2>1. ASSUME NEW u \in Fetcher, StampSnapshot(u) PROVE stage[t] \in Active
    <3>1. stage[u] = "requested" /\ \A v \in Fetcher : v # u => stage'[v] = stage[v]
      BY <2>1 DEF StampSnapshot, TypeOK
    <3>. QED BY <2>1, <3>1, Zenon
  <2>2. ASSUME NEW u \in Fetcher, SendSnapshot(u) PROVE stage[t] \in Active
    BY <2>2 DEF SendSnapshot, Active, TypeOK
  <2>3. ASSUME NEW u \in Fetcher, ReceiveSnapshot(u) PROVE stage[t] \in Active
    BY <2>3 DEF ReceiveSnapshot, Active, TypeOK
  <2>4. RescanWake \/ (\E u \in Fetcher : SignalIncomplete(u)) => stage' = stage
    BY Zenon DEF RescanWake, SignalIncomplete, snapVars
  <2>. QED BY <2>1, <2>2, <2>3, <2>4, FetchSteps, FetchesAlone, Zenon DEF Fetch
<1>2. snapGen'[t] = snapGen[t] /\ tree'[t][p] \in {tree[t][p], Seen(p)}
  <2>1. ASSUME NEW u \in Fetcher, StampSnapshot(u)
        PROVE  snapGen'[t] = snapGen[t] /\ tree'[t] = tree[t]
    <3>1. u # t
      BY <2>1, Zenon
    <3>. QED BY <2>1, <3>1 DEF StampSnapshot, TypeOK
  <2>2. ASSUME NEW u \in Fetcher, NEW q \in Path, ScanEntry(u, q)
        PROVE  snapGen' = snapGen /\ tree'[t][p] \in {tree[t][p], Seen(p)}
    BY <2>2 DEF ScanEntry, TypeOK, Ops
  <2>. QED BY <2>1, <2>2, SnapshotSteps, Zenon
<1>3. replay' = replay \/ ReceiveInvalidation
  BY MirrorSteps, FetchesAlone, Zenon DEF mirrorVars
<1>. QED BY <1>1, <1>2, <1>3

\* The reader records the batch it applies, or notes that it could not.
LEMMA Recorded ==
    ASSUME TypeOK, inFlight, ReceiveInvalidation
    PROVE  Again' \/ (Records /\ ~chan[1].rescan)
<1>1. Head(chan) = chan[1] /\ chan[1] \in Frame
  BY ChannelShifts DEF Pop
<1>2. /\ readerRescan' = chan[1].rescan
      /\ replay' = IF inFlight /\ Len(replay) < MaxReplay
                   THEN Append(replay, chan[1]) ELSE replay
      /\ replayOver' = (replayOver \/ (inFlight /\ Len(replay) >= MaxReplay))
  BY <1>1 DEF ReceiveInvalidation, ApplyBatch
<1>3. replay \in Seq(Frame) /\ Len(replay) \in Nat /\ MaxReplay \in Nat
  BY BoundAssumption DEF TypeOK
<1>4. CASE chan[1].rescan \/ Len(replay) >= MaxReplay
  BY <1>2, <1>4, Zenon DEF Again
<1>5. CASE ~chan[1].rescan /\ Len(replay) < MaxReplay
  <2>1. replay' = Append(replay, chan[1])
    BY <1>2, <1>5
  <2>. QED BY <1>1, <1>3, <1>5, <2>1, AppendFacts DEF Records
<1>6. Len(replay) >= MaxReplay \/ Len(replay) < MaxReplay
  BY <1>3
<1>. QED BY <1>4, <1>5, <1>6, Zenon

LEMMA StaleEntriesInit == Init => StaleEntriesFollowed
BY DEF Init, StaleEntriesFollowed

\* What the recording gained by a step: nothing, or the frame the reader took.
LEMMA RecordingKept ==
    ASSUME TypeOK, Control, NEW t \in Fetcher, NEW p \in Path, stage'[t] \in Active,
           [Next]_vars, ~StampSnapshot(t), ~Again'
    PROVE  /\ \A i \in Newer(t, p) : i \in Newer(t, p)' /\ replay'[i] = replay[i]
           /\ \A i \in Newer(t, p)' :
                 \/ i \in Newer(t, p) /\ replay'[i] = replay[i]
                 \/ /\ ReceiveInvalidation /\ i = Len(replay) + 1
                    /\ replay'[i] = chan[1]
           /\ ReceiveInvalidation => Records /\ ~chan[1].rescan
<1>1. /\ snapGen'[t] = snapGen[t]
      /\ replay' = replay \/ ReceiveInvalidation
      /\ stage[t] \in Active
  BY SnapshotKept
<1>2. inFlight
  BY <1>1 DEF Active, Control
<1>3. CASE replay' = replay /\ ~ReceiveInvalidation
  BY <1>1, <1>3, Zenon DEF Newer
<1>4. CASE ReceiveInvalidation
  <2>1. Records /\ ~chan[1].rescan
    BY <1>2, <1>4, Recorded
  <2>2. \A i \in 1..Len(replay) : i \in 1..Len(replay') /\ replay'[i] = replay[i]
    BY <2>1 DEF Records
  <2>3. \A i \in 1..Len(replay') : i \in 1..Len(replay) \/ i = Len(replay) + 1
    BY <2>1 DEF Records
  <2>4. ASSUME NEW i \in Newer(t, p)
        PROVE  i \in Newer(t, p)' /\ replay'[i] = replay[i]
    <3>1. i \in 1..Len(replay) /\ replay[i].gen > snapGen[t] /\ replay[i].ops[p] # NoOp
      BY Zenon DEF Newer
    <3>2. i \in 1..Len(replay') /\ replay'[i] = replay[i]
      BY <2>2, <3>1, Zenon
    <3>3. replay'[i].gen > snapGen'[t] /\ replay'[i].ops[p] # NoOp
      BY <1>1, <3>1, <3>2
    <3>. QED BY <3>2, <3>3, Zenon DEF Newer
  <2>5. ASSUME NEW i \in Newer(t, p)'
        PROVE  \/ i \in Newer(t, p) /\ replay'[i] = replay[i]
               \/ i = Len(replay) + 1 /\ replay'[i] = chan[1]
    <3>0. /\ i \in 1..Len(replay') /\ replay'[i].gen > snapGen'[t]
          /\ replay'[i].ops[p] # NoOp
      BY Zenon DEF Newer
    <3>1. /\ i \in 1..Len(replay') /\ replay'[i].gen > snapGen[t]
          /\ replay'[i].ops[p] # NoOp
      BY <1>1, <3>0
    <3>2. CASE i \in 1..Len(replay)
      <4>1. replay'[i] = replay[i]
        BY <2>2, <3>2, Zenon
      <4>. QED BY <3>1, <3>2, <4>1, Zenon DEF Newer
    <3>3. CASE i = Len(replay) + 1
      BY <2>1, <3>3, Zenon DEF Records
    <3>. QED BY <2>3, <3>1, <3>2, <3>3, Zenon
  <2>. QED BY <1>4, <2>1, <2>4, <2>5, Zenon
<1>. QED BY <1>1, <1>3, <1>4, Zenon

\* Evidence ahead of the snapshot is lost only into the recording.
LEMMA AheadRecorded ==
    ASSUME TypeOK, Control, Special = {}, NEW t \in Fetcher, NEW p \in Path \ Ignored,
           stage'[t] \in Active, [Next]_vars, ~StampSnapshot(t), ~Again',
           snapGen[t] <= generation, Ahead(p, snapGen[t]), ~Ahead(p, snapGen[t])'
    PROVE  Len(replay) \in Nat /\ Len(replay) + 1 \in Newer(t, p)'
<1>0. snapGen[t] \in Nat /\ snapGen'[t] = snapGen[t]
  BY SnapshotKept DEF TypeOK
<1>. DEFINE g == snapGen[t]
<1>1. Ahead(p, g) /\ ~Ahead(p, g)' /\ g \in Nat /\ g <= generation
  BY <1>0
<1>2. ASSUME NEW h \in Nat, h = g
      PROVE  Pop /\ chan[1].gen > h /\ Mentions(chan[1], p)
  <2>0. ~Ahead(p, h)'
    BY <1>0, <1>1, <1>2 DEF Ahead
  <2>1. Pop
    BY <1>1, <1>2, <2>0, AheadKept
  <2>. QED BY <1>1, <1>2, <2>0, <2>1, AheadPopped
<1>3. Pop /\ chan[1].gen > snapGen[t] /\ Mentions(chan[1], p)
  BY <1>0, <1>2
<1>4. ReceiveInvalidation
  <2>1. 1 \in 1..Len(chan) /\ Head(chan) = chan[1]
    BY <1>3, ChannelShifts
  <2>2. chan[1].kind = "batch"
    BY <1>3, <2>1 DEF Control, Mentions, NoOps
  <2>3. ReceiveLate => chan[1].kind = "late"
    BY <2>1, Zenon DEF ReceiveLate
  <2>4. \A u \in Fetcher : ReceiveSnapshot(u) => chan[1].kind = u
    BY <2>1, Zenon DEF ReceiveSnapshot
  <2>5. ~ReceiveLate /\ \A u \in Fetcher : ~ReceiveSnapshot(u)
    BY <2>2, <2>3, <2>4 DEF Fetcher
  <2>. QED BY <1>3, <2>5, Zenon DEF Pop
<1>5. Records /\ ~chan[1].rescan
  BY <1>4, RecordingKept
<1>6. Len(replay) + 1 \in 1..Len(replay')
  BY <1>5 DEF Records
<1>. QED BY <1>0, <1>3, <1>5, <1>6 DEF Mentions, Newer, Records

\* A batch that is out of date when it is recorded has something behind it.
LEMMA StaleRecordedFollowed ==
    ASSUME TypeOK, Control, Generations, StaleOpsFollowed, ReceiveInvalidation,
           NEW p \in Path, NEW g \in Nat, chan[1].gen > g,
           chan[1].ops[p] \notin {NoOp, Seen(p)}
    PROVE  Ahead(p, g)'
<1>1. Pop
  BY DEF Pop
<1>2. Shifted /\ 1 \in 1..Len(chan)
  BY <1>1, ChannelShifts
<1>3. Pursued(p, 1)
  BY <1>2, Zenon DEF StaleOpsFollowed
<1>4. CASE Noticed(p)
  BY <1>1, <1>4, PopFrame, Zenon DEF Ahead, Noticed
<1>5. CASE Flushing(p)
  <2>1. chan[1].gen \in Nat /\ batchGen \in Nat /\ chan[1].gen <= batchGen
    BY <1>2, QueueTypes DEF Generations, TypeOK
  <2>2. batchGen > g
    BY <2>1
  <2>. QED BY <1>1, <1>5, <2>2, PopFrame, Zenon DEF Ahead, Flushing, flushVars
<1>6. ASSUME NEW j \in (1 + 1)..Len(chan), Mentions(chan[j], p) PROVE Ahead(p, g)'
  <2>1. /\ j \in 1..Len(chan) /\ 1 < j
        /\ j - 1 \in 1..Len(chan') /\ chan'[j - 1] = chan[j]
    BY <1>2 DEF Shifted
  <2>2. chan[1].kind = "batch" /\ chan[j].kind = "batch"
    <3>1. chan[1].kind = "batch"
      BY <1>2 DEF Control, NoOps
    <3>2. chan[j].kind = "batch"
      BY <1>6, <2>1 DEF Control, Mentions, NoOps
    <3>. QED BY <3>1, <3>2
  <2>3. chan[1].gen <= chan[j].gen /\ chan[1].gen \in Nat /\ chan[j].gen \in Nat
    BY <1>2, <2>1, <2>2, QueueTypes DEF Generations
  <2>4. chan[j].gen > g
    BY <2>3
  <2>. QED BY <1>6, <2>1, <2>4, Zenon DEF Ahead
<1>. QED BY <1>3, <1>4, <1>5, <1>6, Zenon DEF Pursued, Queued

\* A fresh stamp is not behind anything recorded.
LEMMA StampedClean ==
    ASSUME TypeOK, Generations, NEW t \in Fetcher, NEW p \in Path, StampSnapshot(t)
    PROVE  tree'[t][p] = NoOp /\ Newer(t, p)' = {}
<1>1. snapGen'[t] = generation /\ replay' = replay /\ tree'[t][p] = NoOp
  BY DEF StampSnapshot, mirrorVars, TypeOK, NoOps
<1>2. ASSUME NEW i \in 1..Len(replay) PROVE ~(replay[i].gen > generation)
  <2>1. replay[i].gen \in Nat /\ batchGen \in Nat /\ generation \in Nat
    BY QueueTypes DEF TypeOK
  <2>2. replay[i].gen <= batchGen /\ batchGen <= generation
    BY DEF Generations
  <2>. QED BY <2>1, <2>2
<1>. QED BY <1>1, <1>2, Zenon DEF Newer

LEMMA StaleEntryStep ==
    ASSUME TypeOK, Control, Generations, Special = {}, StaleOpsFollowed,
           StaleEntriesFollowed, [Next]_vars,
           NEW t \in Fetcher, NEW p \in Path \ Ignored, stage'[t] \in Active,
           ~StampSnapshot(t), ~Again', ~Ahead(p, snapGen[t])'
    PROVE  /\ tree'[t][p] \notin {NoOp, Seen(p)'} => Newer(t, p)' # {}
           /\ \A i \in Newer(t, p)' : replay'[i].ops[p] # Seen(p)' =>
                \E j \in Newer(t, p)' : j > i
<1>1. /\ stage[t] \in Active /\ snapGen'[t] = snapGen[t]
      /\ tree'[t][p] \in {tree[t][p], Seen(p)}
  BY SnapshotKept
<1>2. ~Again /\ Seen(p)' = Seen(p)
  <2>1. ~Noticed(p)'
    BY Zenon DEF Ahead
  <2>. QED BY <2>1, AgainKept, ChangeNoticed
<1>3. snapGen[t] <= generation /\ snapGen[t] \in Nat
  BY DEF Generations, TypeOK
<1>4. Ahead(p, snapGen[t]) => Len(replay) \in Nat /\ Len(replay) + 1 \in Newer(t, p)'
  BY <1>3, AheadRecorded
<1>5. \A i \in Newer(t, p) : i \in Newer(t, p)' /\ replay'[i] = replay[i]
  BY RecordingKept
<1>6. /\ tree[t][p] \notin {NoOp, Seen(p)} =>
            Ahead(p, snapGen[t]) \/ Newer(t, p) # {}
      /\ \A i \in Newer(t, p) : replay[i].ops[p] # Seen(p) =>
            Ahead(p, snapGen[t]) \/ \E j \in Newer(t, p) : j > i
  BY <1>1, <1>2, Zenon DEF StaleEntriesFollowed, Active
<1>7. ASSUME tree'[t][p] \notin {NoOp, Seen(p)'} PROVE Newer(t, p)' # {}
  BY <1>1, <1>2, <1>4, <1>5, <1>6, <1>7, Zenon
<1>8. ASSUME NEW i \in Newer(t, p)', replay'[i].ops[p] # Seen(p)'
      PROVE  \E j \in Newer(t, p)' : j > i
  <2>1. CASE i \in Newer(t, p) /\ replay'[i] = replay[i]
    <3>1. i \in 1..Len(replay) /\ Len(replay) \in Nat
      BY <2>1, QueueTypes DEF Newer
    <3>2. Len(replay) + 1 > i
      BY <3>1
    <3>. QED BY <1>2, <1>4, <1>5, <1>6, <1>8, <2>1, <3>2, Zenon
  <2>2. CASE ReceiveInvalidation /\ i = Len(replay) + 1 /\ replay'[i] = chan[1]
    <3>1. chan[1].gen > snapGen[t] /\ chan[1].ops[p] \notin {NoOp, Seen(p)}
      BY <1>1, <1>2, <1>8, <2>2, Zenon DEF Newer
    <3>2. ASSUME NEW g \in Nat, g = snapGen[t] PROVE Ahead(p, g)'
      BY <2>2, <3>1, <3>2, StaleRecordedFollowed
    <3>3. PICK g \in Nat : g = snapGen[t]
      BY <1>3
    <3>4. Ahead(p, g)' /\ g = snapGen'[t]
      BY <1>1, <3>2, <3>3
    <3>. QED BY <3>4, Zenon DEF Ahead
  <2>. QED BY <1>8, <2>1, <2>2, RecordingKept
<1>. QED BY <1>7, <1>8, Zenon

\* A snapshot is stamped before it is scanned, so a change its scan missed
\* reaches the client in a batch with a higher generation, which is recorded
\* and replayed, or arrives after the load (send_snapshot, fetch_snapshot).
LEMMA StaleEntriesStep ==
    ASSUME TypeOK, Control, Generations, Special = {}, IgnoredNeverShown',
           StaleOpsFollowed, StaleEntriesFollowed, [Next]_vars
    PROVE  StaleEntriesFollowed'
<1>. DEFINE Followed(t, p) ==
              /\ tree[t][p] \notin {NoOp, Seen(p)} =>
                   Again \/ Ahead(p, snapGen[t]) \/ Newer(t, p) # {}
              /\ \A i \in Newer(t, p) : replay[i].ops[p] # Seen(p) =>
                   \/ Again \/ Ahead(p, snapGen[t])
                   \/ \E j \in Newer(t, p) : j > i
<1>. SUFFICES ASSUME NEW t \in Fetcher, NEW p \in Path, stage'[t] \in Active
     PROVE  Followed(t, p)'
  BY Zenon DEF StaleEntriesFollowed, Active
<1>1. CASE p \in Ignored
  <2>1. Seen(p)' = Absent
    BY <1>1 DEF Seen
  <2>2. Newer(t, p)' = {} /\ tree'[t][p] \in {NoOp, Absent}
    BY <1>1, Zenon DEF Newer, IgnoredNeverShown
  <2>. QED BY <2>1, <2>2, Zenon
<1>2. CASE StampSnapshot(t)
  <2>1. tree'[t][p] = NoOp /\ Newer(t, p)' = {}
    BY <1>2, StampedClean
  <2>. QED BY <2>1, Zenon
<1>3. CASE p \notin Ignored /\ ~StampSnapshot(t)
  BY <1>3, StaleEntryStep, Zenon
<1>. QED BY <1>1, <1>2, <1>3, Zenon

=============================================================================
