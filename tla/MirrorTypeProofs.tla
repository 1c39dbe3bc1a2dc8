-------------------------- MODULE MirrorTypeProofs --------------------------
(***************************************************************************)
(* MirrorSync, part 1: type correctness, which steps touch which variables,*)
(* and what a step does to the channel and to the recording.               *)
(***************************************************************************)
EXTENDS MirrorSync, TLAPS
LOCAL INSTANCE WellFoundedInduction

\* A non-empty set of positions has a last one.
LEMMA LastExists ==
    ASSUME NEW n \in Nat, NEW S \in SUBSET (1..n), S # {}
    PROVE  \E i \in S : \A j \in S : j <= i
<1>. DEFINE T == {n - j : j \in S}
<1>1. T \subseteq Nat /\ T # {}
  <2>1. \A j \in S : j \in 1..n /\ n - j \in Nat
    OBVIOUS
  <2>2. PICK j \in S : TRUE
    BY Zenon
  <2>3. n - j \in T
    BY <2>2
  <2>. QED BY <2>1, <2>3
<1>2. PICK x \in T : \A y \in T : ~(<<y, x>> \in OpToRel(<, Nat))
  <2>. HIDE DEF T
  <2>. QED BY <1>1, NatLessThanWellFounded, WFMin, Zenon
<1>3. \A y \in T : x <= y
  <2>. SUFFICES ASSUME NEW y \in T PROVE x <= y
    OBVIOUS
  <2>1. x \in Nat /\ y \in Nat
    BY <1>1
  <2>2. ~(<<y, x>> \in OpToRel(<, Nat))
    BY <1>2, Zenon
  <2>3. ~(y < x)
    BY <2>1, <2>2 DEF OpToRel
  <2>. QED BY <2>1, <2>3
<1>4. PICK i \in S : x = n - i
  OBVIOUS
<1>5. \A j \in S : j <= i
  <2>. TAKE j \in S
  <2>1. n - j \in T
    OBVIOUS
  <2>2. x <= n - j
    BY <2>1, <1>3
  <2>. QED BY <2>2, <1>4
<1>. QED BY <1>5

USE DEF Fetcher

LEMMA EmptySeq == ASSUME NEW S PROVE <<>> \in Seq(S)
OBVIOUS

LEMMA NoOpsType == NoOps \in Ops
BY DEF NoOps, Ops

LEMMA OnlyType ==
    ASSUME NEW ops \in Ops, NEW S PROVE Only(ops, S) \in Ops
BY DEF Only, Ops

LEMMA BatchFrameType ==
    ASSUME NEW g \in Nat, NEW ops \in Ops, NEW r \in BOOLEAN
    PROVE  BatchFrame(g, ops, r) \in Frame
BY DEF BatchFrame, Frame

LEMMA SnapshotEndType ==
    ASSUME NEW t \in Fetcher PROVE SnapshotEnd(t) \in Frame
BY NoOpsType DEF SnapshotEnd, Frame

\* What the two kinds of frame carry.
LEMMA BatchFrameFacts ==
    ASSUME NEW g, NEW ops, NEW r
    PROVE  /\ BatchFrame(g, ops, r).kind = "batch"
           /\ BatchFrame(g, ops, r).gen = g
           /\ BatchFrame(g, ops, r).rescan = r
           /\ BatchFrame(g, ops, r).ops = ops
BY DEF BatchFrame

LEMMA OnlyFacts ==
    ASSUME NEW ops, NEW S, NEW p \in Path
    PROVE  /\ p \in S => Only(ops, S)[p] = ops[p]
           /\ p \notin S => Only(ops, S)[p] = NoOp
BY DEF Only

LEMMA SnapshotEndFacts ==
    ASSUME NEW t \in Fetcher
    PROVE  /\ SnapshotEnd(t).kind # "batch"
           /\ SnapshotEnd(t).gen = 0
           /\ SnapshotEnd(t).ops = NoOps
           /\ SnapshotEnd(t).rescan = FALSE
BY DEF SnapshotEnd

LEMMA SeenType ==
    ASSUME disk \in [Path -> Val], NEW p \in Path PROVE Seen(p) \in Val
BY ValueAssumption DEF Seen

\* The last index of a non-empty set of positions.
LEMMA LastOfProperty ==
    ASSUME NEW n \in Nat, NEW S \in SUBSET (1..n), S # {}
    PROVE  LastOf(S) \in S /\ \A j \in S : j <= LastOf(S)
BY LastExists, Zenon DEF LastOf
-----------------------------------------------------------------------------
(* Type correctness *)

LEMMA TypeInit == Init => TypeOK
<1>. SUFFICES ASSUME Init PROVE TypeOK
  OBVIOUS
<1>1. /\ changes \in 0..MaxChanges /\ failures \in 0..MaxFailures
  BY BoundAssumption DEF Init
<1>2. tree \in [Fetcher -> Ops] /\ batch \in Ops
  BY NoOpsType DEF Init
<1>3. events \in Seq(Path \cup {Overflow}) /\ chan \in Seq(Frame)
      /\ replay \in Seq(Frame)
  BY DEF Init
<1>4. mirror \in [Path -> Val] /\ disk \in [Path -> Val]
  BY ValueAssumption DEF Init
<1>5. /\ pc \in [Fetcher -> {"idle", "want", "fetch", "incomplete", "done"}]
      /\ stage \in [Fetcher -> {"none", "requested", "scan", "sent", "reply"}]
      /\ snapGen \in [Fetcher -> Nat]
  BY DEF Init
<1>. QED BY <1>1, <1>2, <1>3, <1>4, <1>5, Zenon DEF Init, TypeOK

LEMMA TypeStep == TypeOK /\ [Next]_vars => TypeOK'
<1>. SUFFICES ASSUME TypeOK, [Next]_vars PROVE TypeOK'
  OBVIOUS
<1>. USE DEF watchVars, coalVars, flushVars, snapVars, mirrorVars, fetchVars,
             agentVars
<1>1. ASSUME NEW p \in Path, NEW v \in Val, Change(p, v) PROVE TypeOK'
  BY <1>1, BoundAssumption DEF TypeOK, Change, Enqueue
<1>2. CASE OnEvent
  <2>1. /\ Head(events) \in Path \cup {Overflow}
        /\ Tail(events) \in Seq(Path \cup {Overflow})
    BY <1>2 DEF OnEvent, TypeOK
  <2>2. pending' \in SUBSET Path /\ overflow' \in BOOLEAN
    BY <1>2, <2>1, Zenon DEF OnEvent, TypeOK
  <2>. QED BY <1>2, <2>1, <2>2 DEF TypeOK, OnEvent
<1>3. CASE Take
  BY <1>3, Zenon DEF TypeOK, Take
<1>4. CASE AssignGeneration
  BY <1>4 DEF TypeOK, AssignGeneration
<1>5. ASSUME NEW p \in Path, Resolve(p) PROVE TypeOK'
  BY <1>5 DEF TypeOK, Resolve, Ops
<1>6. ASSUME NEW over \in BOOLEAN, EndResolve(over) PROVE TypeOK'
  BY <1>6 DEF TypeOK, EndResolve
<1>7. ASSUME NEW S \in SUBSET Path, NEW r \in BOOLEAN, Broadcast(S, r)
      PROVE TypeOK'
  <2>1. /\ BatchFrame(batchGen, Only(batch, S), r) \in Frame
        /\ Only(batch, Path \ S) \in Ops
    BY OnlyType, BatchFrameType DEF TypeOK
  <2>. QED BY <1>7, <2>1 DEF TypeOK, Broadcast
<1>8. ASSUME NEW t \in Fetcher, StampSnapshot(t) PROVE TypeOK'
  BY <1>8, NoOpsType DEF TypeOK, StampSnapshot
<1>9. ASSUME NEW t \in Fetcher, NEW p \in Path, ScanEntry(t, p) PROVE TypeOK'
  BY <1>9, SeenType DEF TypeOK, ScanEntry, Ops
<1>10. ASSUME NEW t \in Fetcher, SendSnapshot(t) PROVE TypeOK'
  BY <1>10, SnapshotEndType DEF TypeOK, SendSnapshot
<1>11. CASE ReceiveInvalidation
  <2>1. Head(chan) \in Frame /\ Tail(chan) \in Seq(Frame)
    BY <1>11 DEF ReceiveInvalidation, ApplyBatch, TypeOK
  <2>2. mirror' \in [Path -> Val]
    BY <1>11, <2>1 DEF ReceiveInvalidation, ApplyBatch, TypeOK, Frame, Ops
  <2>3. readerRescan' \in BOOLEAN /\ replayOver' \in BOOLEAN
    BY <1>11, <2>1 DEF ReceiveInvalidation, ApplyBatch, TypeOK, Frame
  <2>4. replay' \in Seq(Frame)
    BY <1>11, <2>1 DEF ReceiveInvalidation, ApplyBatch, TypeOK
  <2>. QED BY <1>11, <2>1, <2>2, <2>3, <2>4
           DEF TypeOK, ReceiveInvalidation, ApplyBatch
<1>12. CASE SignalRescan
  BY <1>12, Zenon DEF TypeOK, SignalRescan
<1>13. ASSUME NEW t \in Fetcher, ReceiveSnapshot(t) PROVE TypeOK'
  BY <1>13 DEF TypeOK, ReceiveSnapshot
<1>14. CASE ReceiveLate
  BY <1>14 DEF TypeOK, ReceiveLate
<1>15. CASE RescanWake
  BY <1>15, Zenon DEF TypeOK, RescanWake
<1>16. ASSUME NEW t \in Fetcher, FetchBegin(t) PROVE TypeOK'
  BY <1>16 DEF TypeOK, FetchBegin
<1>17. ASSUME NEW t \in Fetcher, LoadSnapshot(t) PROVE TypeOK'
  <2>1. mirror' \in [Path -> Val]
    <3>. SUFFICES ASSUME NEW p \in Path PROVE mirror'[p] \in Val
      BY <1>17 DEF LoadSnapshot
    <3>1. CASE Newer(t, p) = {}
      BY <1>17, <3>1 DEF LoadSnapshot, TypeOK, Touched, Ops
    <3>2. CASE Newer(t, p) # {}
      <4>1. LastOf(Newer(t, p)) \in Newer(t, p)
        <5>1. Len(replay) \in Nat /\ Newer(t, p) \in SUBSET (1..Len(replay))
          BY DEF Newer, TypeOK
        <5>. QED BY <3>2, <5>1, LastOfProperty
      <4>2. PICK i \in Newer(t, p) : mirror'[p] = replay[i].ops[p]
        BY <1>17, <3>2, <4>1 DEF LoadSnapshot
      <4>3. replay[i] \in Frame /\ replay[i].ops[p] # NoOp
        BY <4>2 DEF Newer, TypeOK
      <4>. QED BY <4>2, <4>3 DEF Frame, Ops
    <3>. QED BY <3>1, <3>2
  <2>2. pc' \in [Fetcher -> {"idle", "want", "fetch", "incomplete", "done"}]
    BY <1>17 DEF LoadSnapshot, FetchEnd, TypeOK
  <2>3. /\ stage' \in [Fetcher -> {"none", "requested", "scan", "sent", "reply"}]
        /\ \A u \in Fetcher : stage'[u] \in {"sent", "reply"} =>
                                Touched(tree[u]) = Path
    BY <1>17 DEF LoadSnapshot, TypeOK
  <2>4. UNCHANGED <<disk, changes, events, pending, overflow, flusher, planned,
                    rescanOp, generation, batchGen, batch, snapGen, tree, chan,
                    readerRescan, rsRequested, failures>>
    BY <1>17, EmptySeq DEF LoadSnapshot
  <2>5. replay' \in Seq(Frame) /\ loaded' \in BOOLEAN /\ inFlight' \in BOOLEAN
        /\ replayOver' \in BOOLEAN
    BY <1>17, EmptySeq, Zenon DEF LoadSnapshot
  <2>. QED BY <2>1, <2>2, <2>3, <2>4, <2>5 DEF TypeOK
<1>18. ASSUME NEW t \in Fetcher, SignalIncomplete(t) PROVE TypeOK'
  BY <1>18 DEF TypeOK, SignalIncomplete, FetchEnd
<1>19. ASSUME NEW t \in Fetcher, FetchFail(t) PROVE TypeOK'
  <2>1. chan' \in Seq(Frame)
    <3>1. \A f \in Frame : [f EXCEPT !.kind = IF @ = t THEN "late" ELSE @] \in Frame
      BY DEF Frame
    <3>. QED BY <1>19, <3>1 DEF FetchFail, TypeOK
  <2>2. failures' \in 0..MaxFailures
    BY <1>19, BoundAssumption DEF FetchFail, TypeOK
  <2>3. pc' \in [Fetcher -> {"idle", "want", "fetch", "incomplete", "done"}]
    BY <1>19 DEF FetchFail, FetchEnd, TypeOK
  <2>4. /\ stage' \in [Fetcher -> {"none", "requested", "scan", "sent", "reply"}]
        /\ \A u \in Fetcher : stage'[u] \in {"sent", "reply"} =>
                                Touched(tree[u]) = Path
    BY <1>19 DEF FetchFail, TypeOK
  <2>5. UNCHANGED <<disk, changes, events, pending, overflow, flusher, planned,
                    rescanOp, generation, batchGen, batch, snapGen, tree,
                    mirror, loaded, readerRescan, rsRequested>>
    BY <1>19, EmptySeq DEF FetchFail
  <2>6. replay' \in Seq(Frame) /\ inFlight' \in BOOLEAN /\ replayOver' \in BOOLEAN
    BY <1>19, EmptySeq, Zenon DEF FetchFail
  <2>. QED BY <2>1, <2>2, <2>3, <2>4, <2>5, <2>6 DEF TypeOK
<1>20. CASE UNCHANGED vars
  BY <1>20 DEF TypeOK, vars
<1>. QED
  BY <1>1, <1>2, <1>3, <1>4, <1>5, <1>6, <1>7, <1>8, <1>9, <1>10, <1>11,
     <1>12, <1>13, <1>14, <1>15, <1>16, <1>17, <1>18, <1>19, <1>20
  DEF Next, Work, Flush, Serve, Reader, Fetch

\* Every variable keeps its type.
THEOREM TypeCorrect == Spec => []TypeOK
BY TypeInit, TypeStep, PTL DEF Spec

-----------------------------------------------------------------------------
(* Facts about the two ends of a queue *)

LEMMA AppendFacts ==
    ASSUME NEW T, NEW s \in Seq(T), NEW e \in T
    PROVE  /\ Append(s, e) \in Seq(T)
           /\ Len(s) \in Nat
           /\ Len(Append(s, e)) = Len(s) + 1
           /\ \A i \in 1..Len(s) : Append(s, e)[i] = s[i]
           /\ Append(s, e)[Len(s) + 1] = e
OBVIOUS

LEMMA TailFacts ==
    ASSUME NEW T, NEW s \in Seq(T), s # <<>>
    PROVE  /\ Len(s) \in Nat /\ Len(s) >= 1
           /\ Head(s) = s[1] /\ Head(s) \in T
           /\ Tail(s) \in Seq(T)
           /\ Len(Tail(s)) = Len(s) - 1
           /\ \A i \in 1..(Len(s) - 1) : Tail(s)[i] = s[i + 1]
OBVIOUS

-----------------------------------------------------------------------------
(* Which steps touch which variables *)

\* The reader takes a frame off the channel.
Pop == ReceiveInvalidation \/ ReceiveLate \/ \E t \in Fetcher : ReceiveSnapshot(t)

LEMMA FlushFrame ==
    ASSUME Flush
    PROVE  /\ UNCHANGED <<watchVars, snapVars, mirrorVars, fetchVars>>
           /\ Take \/ UNCHANGED coalVars
           /\ UNCHANGED chan \/ \E S \in SUBSET Path, r \in BOOLEAN : Broadcast(S, r)
BY Zenon DEF Flush, Take, AssignGeneration, Resolve, EndResolve, Broadcast

LEMMA ServeFrame ==
    ASSUME Serve
    PROVE  /\ UNCHANGED <<agentVars, mirrorVars, fetchVars>>
           /\ \/ UNCHANGED <<stage, chan>>
              \/ \E t \in Fetcher : StampSnapshot(t) \/ SendSnapshot(t)
BY Zenon DEF Serve, StampSnapshot, ScanEntry, SendSnapshot

LEMMA ReaderFrame ==
    ASSUME Reader
    PROVE  /\ UNCHANGED <<agentVars, snapGen, tree, loaded, inFlight, pc, failures>>
           /\ SignalRescan \/ Pop
BY Zenon DEF Reader, Pop, ReceiveInvalidation, ApplyBatch, SignalRescan,
             ReceiveSnapshot, ReceiveLate, snapVars, mirrorVars, fetchVars

LEMMA FetchFrame ==
    ASSUME Fetch
    PROVE  UNCHANGED <<agentVars, snapGen, tree, chan, readerRescan, failures>>
BY Zenon DEF Fetch, RescanWake, FetchBegin, LoadSnapshot, SignalIncomplete, snapVars

\* The steps that disturb the notices ...
LEMMA NoticeSteps ==
    ASSUME [Next]_vars
    PROVE  \/ \E p \in Path, v \in Val : Change(p, v)
           \/ OnEvent \/ Take
           \/ UNCHANGED <<disk, events, pending, overflow>>
BY FlushFrame, ServeFrame, ReaderFrame, FetchFrame, Zenon
DEF Next, Work, FetchFail, vars, agentVars, watchVars, coalVars

\* ... the flusher's variables ...
LEMMA FlushSteps ==
    ASSUME [Next]_vars
    PROVE  Flush \/ UNCHANGED flushVars
BY ServeFrame, ReaderFrame, FetchFrame, Zenon
DEF Next, Work, Change, OnEvent, FetchFail, vars, agentVars

\* ... the fetchers' progress ...
LEMMA FetchSteps ==
    ASSUME [Next]_vars
    PROVE  \/ \E t \in Fetcher : \/ StampSnapshot(t) \/ SendSnapshot(t)
                                 \/ ReceiveSnapshot(t) \/ FetchFail(t)
           \/ Fetch
           \/ UNCHANGED <<stage, inFlight, pc>>
BY FlushFrame, ServeFrame, ReaderFrame, Zenon
DEF Next, Work, Change, OnEvent, Pop, ReceiveInvalidation, ApplyBatch, SignalRescan,
    ReceiveLate, vars, snapVars, mirrorVars, fetchVars

LEMMA SnapshotSteps ==
    ASSUME [Next]_vars
    PROVE  \/ \E t \in Fetcher : \/ StampSnapshot(t)
                                 \/ \E p \in Path : ScanEntry(t, p)
           \/ UNCHANGED <<snapGen, tree>>
BY FlushFrame, ReaderFrame, FetchFrame, Zenon
DEF Next, Work, Serve, Change, OnEvent, FetchFail, SendSnapshot, vars, snapVars

LEMMA MirrorSteps ==
    ASSUME [Next]_vars
    PROVE  \/ ReceiveInvalidation
           \/ \E t \in Fetcher : FetchBegin(t) \/ LoadSnapshot(t) \/ FetchFail(t)
           \/ UNCHANGED <<mirrorVars, failures>>
BY FlushFrame, ServeFrame, ReaderFrame, FetchFrame, Zenon
DEF Next, Work, Change, OnEvent, Pop, SignalRescan, ReceiveLate, ReceiveSnapshot,
    Fetch, RescanWake, SignalIncomplete, vars, fetchVars

LEMMA SignalSteps ==
    ASSUME [Next]_vars
    PROVE  \/ ReceiveInvalidation \/ SignalRescan \/ Fetch
           \/ \E t \in Fetcher : FetchFail(t)
           \/ UNCHANGED <<readerRescan, rsRequested, pc>>
BY FlushFrame, ServeFrame, ReaderFrame, FetchFrame, Zenon
DEF Next, Work, Change, OnEvent, Pop, ReceiveLate, ReceiveSnapshot,
    vars, fetchVars

\* ... and the channel.
LEMMA ChannelSteps ==
    ASSUME [Next]_vars
    PROVE  \/ \E S \in SUBSET Path, r \in BOOLEAN : Broadcast(S, r)
           \/ \E t \in Fetcher : SendSnapshot(t) \/ FetchFail(t)
           \/ Pop
           \/ UNCHANGED chan
BY FlushFrame, ServeFrame, ReaderFrame, FetchFrame, Zenon
DEF Next, Work, Change, OnEvent, StampSnapshot, SignalRescan, vars

-----------------------------------------------------------------------------
(* What a step does to the channel and to the recording *)

LEMMA QueueTypes ==
    ASSUME TypeOK
    PROVE  /\ Len(chan) \in Nat /\ Len(replay) \in Nat
           /\ \A i \in 1..Len(chan) :
                 /\ chan[i] \in Frame
                 /\ chan[i].gen \in Nat
                 /\ chan[i].ops \in Ops
           /\ \A i \in 1..Len(replay) :
                 /\ replay[i] \in Frame
                 /\ replay[i].gen \in Nat
                 /\ replay[i].ops \in Ops
<1>1. \A f \in Frame : f.gen \in Nat /\ f.ops \in Ops
  BY DEF Frame
<1>2. /\ Len(chan) \in Nat /\ Len(replay) \in Nat
      /\ \A i \in 1..Len(chan) : chan[i] \in Frame
      /\ \A i \in 1..Len(replay) : replay[i] \in Frame
  BY DEF TypeOK
<1>. QED BY <1>1, <1>2

\* The channel grows by the frame f ...
Grown(f) ==
    /\ Len(chan) \in Nat /\ Len(chan') = Len(chan) + 1
    /\ \A i \in 1..Len(chan) : chan'[i] = chan[i]
    /\ chan'[Len(chan) + 1] = f

\* ... loses its first frame ...
Shifted ==
    /\ Len(chan) \in Nat \ {0} /\ Len(chan') = Len(chan) - 1
    /\ \A i \in 1..Len(chan') : i + 1 \in 1..Len(chan) /\ chan'[i] = chan[i + 1]

\* ... or keeps its frames, up to the addressee of a snapshot.
Relabelled ==
    /\ Len(chan) \in Nat /\ Len(chan') = Len(chan)
    /\ \A i \in 1..Len(chan) :
          /\ chan'[i].gen = chan[i].gen
          /\ chan'[i].ops = chan[i].ops
          /\ chan'[i].rescan = chan[i].rescan
          /\ chan'[i].kind = "batch" <=> chan[i].kind = "batch"

LEMMA ChannelGrows ==
    ASSUME TypeOK, NEW f \in Frame, chan' = Append(chan, f)
    PROVE  Grown(f)
BY AppendFacts DEF TypeOK, Grown

LEMMA ChannelShifts ==
    ASSUME TypeOK, Pop
    PROVE  /\ Shifted /\ Head(chan) = chan[1] /\ chan[1] \in Frame
           /\ 1 \in 1..Len(chan)
<1>1. chan # <<>> /\ chan' = Tail(chan)
  BY DEF Pop, ReceiveInvalidation, ApplyBatch, ReceiveLate, ReceiveSnapshot
<1>. QED BY <1>1, TailFacts DEF TypeOK, Shifted

LEMMA ChannelRelabels ==
    ASSUME TypeOK, NEW t \in Fetcher, FetchFail(t)
    PROVE  Relabelled
<1>1. Len(chan) \in Nat /\ \A i \in 1..Len(chan) : chan[i] \in Frame
  BY DEF TypeOK
<1>2. chan' = [i \in 1..Len(chan) |->
                [chan[i] EXCEPT !.kind = IF @ = t THEN "late" ELSE @]]
  BY DEF FetchFail
<1>3. Len(chan') = Len(chan)
  BY <1>1, <1>2
<1>. QED BY <1>1, <1>2, <1>3 DEF Frame, Relabelled

LEMMA BroadcastGrows ==
    ASSUME TypeOK, NEW S \in SUBSET Path, NEW r \in BOOLEAN, Broadcast(S, r)
    PROVE  Grown(BatchFrame(batchGen, Only(batch, S), r))
<1>1. BatchFrame(batchGen, Only(batch, S), r) \in Frame
  BY BatchFrameType, OnlyType DEF TypeOK
<1>. QED BY <1>1, ChannelGrows DEF Broadcast

LEMMA ChannelStep ==
    ASSUME TypeOK, [Next]_vars
    PROVE  \/ \E S \in SUBSET Path, r \in BOOLEAN :
                 /\ Broadcast(S, r)
                 /\ Grown(BatchFrame(batchGen, Only(batch, S), r))
           \/ \E t \in Fetcher : SendSnapshot(t) /\ Grown(SnapshotEnd(t))
           \/ Pop /\ Shifted
           \/ Relabelled
<1>1. ASSUME NEW S \in SUBSET Path, NEW r \in BOOLEAN, Broadcast(S, r)
      PROVE  Grown(BatchFrame(batchGen, Only(batch, S), r))
  BY <1>1, BroadcastGrows
<1>2. ASSUME NEW t \in Fetcher, SendSnapshot(t) PROVE Grown(SnapshotEnd(t))
  BY <1>2, SnapshotEndType, ChannelGrows DEF SendSnapshot
<1>3. CASE UNCHANGED chan
  BY <1>3, QueueTypes DEF Relabelled
<1>. QED BY <1>1, <1>2, <1>3, ChannelShifts, ChannelRelabels, ChannelSteps, Zenon

\* The reader records the frame it takes.
Records ==
    /\ Len(replay) \in Nat /\ Len(replay') = Len(replay) + 1
    /\ \A i \in 1..Len(replay) : replay'[i] = replay[i]
    /\ replay'[Len(replay) + 1] = chan[1]

LEMMA ReplayStep ==
    ASSUME TypeOK, [Next]_vars
    PROVE  \/ replay' = replay
           \/ replay' = <<>>
           \/ ReceiveInvalidation /\ Records
<1>1. CASE ReceiveInvalidation
  <2>1. Pop
    BY <1>1 DEF Pop
  <2>2. replay' = replay \/ replay' = Append(replay, chan[1])
    BY <1>1, <2>1, ChannelShifts DEF ReceiveInvalidation, ApplyBatch
  <2>3. replay \in Seq(Frame) /\ chan[1] \in Frame
    BY <2>1, ChannelShifts, Zenon DEF TypeOK
  <2>4. CASE replay' = Append(replay, chan[1])
    <3>1. /\ Len(replay) \in Nat
          /\ Len(Append(replay, chan[1])) = Len(replay) + 1
          /\ \A i \in 1..Len(replay) : Append(replay, chan[1])[i] = replay[i]
          /\ Append(replay, chan[1])[Len(replay) + 1] = chan[1]
      BY <2>3
    <3>. QED BY <1>1, <2>4, <3>1, Zenon DEF Records
  <2>. QED BY <1>1, <2>2, <2>4, Zenon
<1>2. ASSUME NEW t \in Fetcher, FetchBegin(t) \/ LoadSnapshot(t) \/ FetchFail(t)
      PROVE  replay' = <<>>
  BY <1>2, Zenon DEF FetchBegin, LoadSnapshot, FetchFail
<1>. QED BY <1>1, <1>2, MirrorSteps, Zenon DEF mirrorVars

=============================================================================
