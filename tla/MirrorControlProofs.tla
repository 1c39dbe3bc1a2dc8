------------------------ MODULE MirrorControlProofs -------------------------
(***************************************************************************)
(* MirrorSync, part 2: the conjuncts of the inductive invariant about      *)
(* control, generations and ignored paths; and that a notice, an operation *)
(* or a frame that covers a path is not lost on its way.                   *)
(***************************************************************************)
EXTENDS MirrorTypeProofs

-----------------------------------------------------------------------------
(* Control *)

LEMMA ControlInit == Init => Control
BY DEF Init, Control

\* One fetch runs at a time, under snapshot_mu_, and is recorded.
LEMMA ControlFetchers ==
    ASSUME TypeOK, Control, [Next]_vars
    PROVE  /\ \A t, u \in Fetcher : /\ pc'[t] \in {"fetch", "incomplete"}
                                    /\ pc'[u] \in {"fetch", "incomplete"}
                                    => t = u
           /\ \A t \in Fetcher : stage'[t] # "none" => pc'[t] = "fetch"
           /\ \A t \in Fetcher : pc'[t] = "fetch" => inFlight'
<1>. USE DEF snapVars, mirrorVars, fetchVars
<1>. DEFINE Alone == /\ \A t, u \in Fetcher : /\ pc[t] \in {"fetch", "incomplete"}
                                              /\ pc[u] \in {"fetch", "incomplete"}
                                              => t = u
                     /\ \A t \in Fetcher : stage[t] # "none" => pc[t] = "fetch"
                     /\ \A t \in Fetcher : pc[t] = "fetch" => inFlight
<1>. SUFFICES Alone'
  OBVIOUS
<1>0. Alone
  BY DEF Control
<1>1. ASSUME NEW t \in Fetcher, StampSnapshot(t) PROVE Alone'
  BY <1>0, <1>1 DEF StampSnapshot, TypeOK
<1>2. ASSUME NEW t \in Fetcher, SendSnapshot(t) PROVE Alone'
  BY <1>0, <1>2 DEF SendSnapshot, TypeOK
<1>3. ASSUME NEW t \in Fetcher, ReceiveSnapshot(t) PROVE Alone'
  BY <1>0, <1>3 DEF ReceiveSnapshot, TypeOK
<1>4. CASE RescanWake
  BY <1>0, <1>4 DEF RescanWake, TypeOK
<1>5. ASSUME NEW t \in Fetcher, FetchBegin(t) PROVE Alone'
  BY <1>0, <1>5 DEF FetchBegin, TypeOK
<1>6. ASSUME NEW t \in Fetcher, LoadSnapshot(t) PROVE Alone'
  BY <1>0, <1>6 DEF LoadSnapshot, FetchEnd, TypeOK
<1>7. ASSUME NEW t \in Fetcher, SignalIncomplete(t) PROVE Alone'
  BY <1>0, <1>7 DEF SignalIncomplete, FetchEnd, TypeOK
<1>8. ASSUME NEW t \in Fetcher, FetchFail(t) PROVE Alone'
  BY <1>0, <1>8 DEF FetchFail, FetchEnd, TypeOK
<1>9. CASE UNCHANGED <<stage, inFlight, pc>>
  BY <1>0, <1>9
<1>. HIDE DEF Alone
<1>. QED BY <1>1, <1>2, <1>3, <1>4, <1>5, <1>6, <1>7, <1>8, <1>9, FetchSteps, Zenon
         DEF Fetch

\* The flusher finishes a batch before it takes the next notices.
LEMMA ControlFlusher ==
    ASSUME TypeOK, TypeOK', Control, [Next]_vars
    PROVE  /\ flusher' \in {"idle", "taken"} => batch' = NoOps
           /\ flusher' = "idle" => planned' = {} /\ ~rescanOp'
           /\ flusher' = "send" => planned' = {}
<1>. DEFINE Phase == /\ flusher \in {"idle", "taken"} => batch = NoOps
                     /\ flusher = "idle" => planned = {} /\ ~rescanOp
                     /\ flusher = "send" => planned = {}
<1>. SUFFICES Phase'
  OBVIOUS
<1>0. Phase
  BY DEF Control
<1>1. CASE Take
  BY <1>0, <1>1 DEF Take
<1>2. CASE AssignGeneration
  BY <1>0, <1>2 DEF AssignGeneration
<1>3. ASSUME NEW p \in Path, Resolve(p) PROVE Phase'
  BY <1>0, <1>3 DEF Resolve
<1>4. ASSUME NEW over \in BOOLEAN, EndResolve(over) PROVE Phase'
  <2>1. flusher' = "idle" => batch' = NoOps
    BY <1>4 DEF EndResolve, Touched, TypeOK, Ops, NoOps
  <2>. QED BY <1>0, <1>4, <2>1 DEF EndResolve
<1>5. ASSUME NEW S \in SUBSET Path, NEW r \in BOOLEAN, Broadcast(S, r) PROVE Phase'
  <2>1. flusher' = "idle" => batch' = NoOps
    BY <1>5 DEF Broadcast, Touched, Only, NoOps
  <2>. QED BY <1>0, <1>5, <2>1 DEF Broadcast
<1>6. CASE UNCHANGED flushVars
  BY <1>0, <1>6 DEF flushVars
<1>. HIDE DEF Phase
<1>. QED BY <1>1, <1>2, <1>3, <1>4, <1>5, <1>6, FlushSteps, Zenon DEF Flush

\* Only batches carry operations.
LEMMA ControlChannel ==
    ASSUME TypeOK, Control, [Next]_vars
    PROVE  \A i \in 1..Len(chan') : chan'[i].kind # "batch" =>
              chan'[i].ops = NoOps /\ ~chan'[i].rescan
<1>0. \A i \in 1..Len(chan) : chan[i].kind # "batch" =>
         chan[i].ops = NoOps /\ ~chan[i].rescan
  BY DEF Control
<1>1. ASSUME NEW f, f.kind # "batch" => f.ops = NoOps /\ ~f.rescan, Grown(f)
      PROVE  \A i \in 1..Len(chan') : chan'[i].kind # "batch" =>
                chan'[i].ops = NoOps /\ ~chan'[i].rescan
  BY <1>0, <1>1 DEF Grown
<1>2. \A g, ops, r : BatchFrame(g, ops, r).kind = "batch"
  BY DEF BatchFrame
<1>3. \A t \in Fetcher : SnapshotEnd(t).ops = NoOps /\ ~SnapshotEnd(t).rescan
  BY DEF SnapshotEnd
<1>4. CASE Shifted
  BY <1>0, <1>4 DEF Shifted
<1>5. CASE Relabelled
  BY <1>0, <1>5 DEF Relabelled
<1>. QED BY <1>1, <1>2, <1>3, <1>4, <1>5, ChannelStep

LEMMA ControlStep ==
    ASSUME TypeOK, TypeOK', Control, [Next]_vars
    PROVE  Control'
BY ControlFetchers, ControlFlusher, ControlChannel, Zenon DEF Control

-----------------------------------------------------------------------------
(* Generations *)

LEMMA GenerationsInit == Init => Generations
BY DEF Init, Generations

\* The counters only move when a batch is stamped, and then upwards.
LEMMA GenerationsGrow ==
    ASSUME TypeOK, Generations, [Next]_vars
    PROVE  /\ batchGen \in Nat /\ batchGen' \in Nat /\ batchGen <= batchGen'
           /\ batchGen' <= generation'
           /\ generation <= generation'
<1>0. batchGen \in Nat /\ generation \in Nat /\ batchGen <= generation
  BY DEF TypeOK, Generations
<1>1. CASE AssignGeneration
  BY <1>0, <1>1 DEF AssignGeneration
<1>2. CASE UNCHANGED <<generation, batchGen>>
  BY <1>0, <1>2
<1>3. AssignGeneration \/ UNCHANGED <<generation, batchGen>>
  BY FlushSteps, Zenon DEF Flush, flushVars, Take, Resolve, EndResolve, Broadcast
<1>. QED BY <1>1, <1>2, <1>3

LEMMA GenerationsChannel ==
    ASSUME TypeOK, Generations, [Next]_vars
    PROVE  /\ \A i \in 1..Len(chan') : chan'[i].gen <= batchGen'
           /\ \A i, j \in 1..Len(chan') :
                 i < j /\ chan'[i].kind = "batch" /\ chan'[j].kind = "batch"
                 => chan'[i].gen <= chan'[j].gen
<1>. DEFINE Bounded == \A i \in 1..Len(chan') : chan'[i].gen <= batchGen'
            Ordered == \A i, j \in 1..Len(chan') :
                 i < j /\ chan'[i].kind = "batch" /\ chan'[j].kind = "batch"
                 => chan'[i].gen <= chan'[j].gen
<1>0. /\ \A i \in 1..Len(chan) : chan[i].gen \in Nat /\ chan[i].gen <= batchGen
      /\ \A i, j \in 1..Len(chan) :
            i < j /\ chan[i].kind = "batch" /\ chan[j].kind = "batch"
            => chan[i].gen <= chan[j].gen
      /\ batchGen \in Nat /\ batchGen' \in Nat /\ batchGen <= batchGen'
  BY GenerationsGrow, QueueTypes DEF Generations
<1>1. ASSUME NEW f, f.gen = batchGen \/ (f.gen = 0 /\ f.kind # "batch"), Grown(f)
      PROVE  Bounded /\ Ordered
  <2>1. Bounded
    BY <1>0, <1>1 DEF Grown
  <2>2. ASSUME NEW i \in 1..Len(chan'), NEW j \in 1..Len(chan'), i < j,
               chan'[i].kind = "batch", chan'[j].kind = "batch"
        PROVE  chan'[i].gen <= chan'[j].gen
    <3>1. i \in 1..Len(chan) /\ chan'[i] = chan[i]
      BY <1>1, <2>2 DEF Grown
    <3>2. CASE j \in 1..Len(chan)
      BY <1>0, <1>1, <2>2, <3>1, <3>2 DEF Grown
    <3>3. CASE j = Len(chan) + 1
      BY <1>0, <1>1, <2>2, <3>1, <3>3 DEF Grown
    <3>. QED BY <1>1, <3>2, <3>3 DEF Grown
  <2>. QED BY <2>1, <2>2
<1>2. \A ops, r : BatchFrame(batchGen, ops, r).gen = batchGen
  BY DEF BatchFrame
<1>3. \A t \in Fetcher : SnapshotEnd(t).gen = 0 /\ SnapshotEnd(t).kind # "batch"
  BY SnapshotEndFacts, Zenon
<1>4. ASSUME Shifted PROVE Bounded /\ Ordered
  <2>0. \A i \in 1..Len(chan') : i + 1 \in 1..Len(chan) /\ chan'[i] = chan[i + 1]
    BY <1>4 DEF Shifted
  <2>1. ASSUME NEW i \in 1..Len(chan') PROVE chan'[i].gen <= batchGen'
    <3>1. chan'[i].gen \in Nat /\ chan'[i].gen <= batchGen
      BY <1>0, <2>0
    <3>. QED BY <1>0, <3>1
  <2>2. ASSUME NEW i \in 1..Len(chan'), NEW j \in 1..Len(chan'), i < j
        PROVE  /\ chan'[i] = chan[i + 1] /\ chan'[j] = chan[j + 1]
               /\ i + 1 \in 1..Len(chan) /\ j + 1 \in 1..Len(chan)
               /\ i + 1 < j + 1
    BY <2>0, <2>2
  <2>3. Ordered
    BY <1>0, <2>2, Zenon
  <2>. QED BY <2>1, <2>3
<1>5. ASSUME Relabelled PROVE Bounded /\ Ordered
  <2>1. Bounded
    BY <1>0, <1>5 DEF Relabelled
  <2>2. Ordered
    BY <1>0, <1>5 DEF Relabelled
  <2>. QED BY <2>1, <2>2
<1>. HIDE DEF Bounded, Ordered
<1>6. Bounded /\ Ordered
  BY <1>1, <1>2, <1>3, <1>4, <1>5, ChannelStep, Zenon
<1>. QED BY <1>6 DEF Bounded, Ordered

LEMMA GenerationsReplay ==
    ASSUME TypeOK, Generations, [Next]_vars
    PROVE  \A i \in 1..Len(replay') : replay'[i].gen <= batchGen'
<1>0. /\ \A i \in 1..Len(replay) : replay[i].gen \in Nat /\ replay[i].gen <= batchGen
      /\ batchGen \in Nat /\ batchGen' \in Nat /\ batchGen <= batchGen'
  BY GenerationsGrow, QueueTypes DEF Generations
<1>1. CASE replay' = replay
  BY <1>0, <1>1
<1>2. CASE replay' = <<>>
  BY <1>2
<1>3. CASE ReceiveInvalidation /\ Records
  <2>1. chan[1].gen \in Nat /\ chan[1].gen <= batchGen
    BY <1>3, ChannelShifts, QueueTypes DEF Pop, Generations
  <2>. QED BY <1>0, <1>3, <2>1 DEF Records
<1>. QED BY <1>1, <1>2, <1>3, ReplayStep

LEMMA GenerationsSnapshot ==
    ASSUME TypeOK, Generations, [Next]_vars
    PROVE  \A t \in Fetcher : snapGen'[t] <= generation'
<1>0. /\ generation \in Nat /\ generation' \in Nat /\ generation <= generation'
      /\ snapGen \in [Fetcher -> Nat]
      /\ \A t \in Fetcher : snapGen[t] <= generation
  <2>1. generation' \in Nat
    BY TypeStep DEF TypeOK
  <2>. QED BY <2>1, GenerationsGrow DEF Generations, TypeOK
<1>1. ASSUME NEW t \in Fetcher, StampSnapshot(t)
      PROVE  snapGen' = [snapGen EXCEPT ![t] = generation]
  BY <1>1 DEF StampSnapshot
<1>2. ASSUME NEW t \in Fetcher, NEW p \in Path, ScanEntry(t, p)
      PROVE  snapGen' = snapGen
  BY <1>2 DEF ScanEntry
<1>3. \/ snapGen' = snapGen
      \/ \E t \in Fetcher : snapGen' = [snapGen EXCEPT ![t] = generation]
  BY <1>1, <1>2, SnapshotSteps, Zenon
<1>. QED BY <1>0, <1>3

LEMMA GenerationsStep ==
    ASSUME TypeOK, Generations, [Next]_vars
    PROVE  Generations'
BY GenerationsGrow, GenerationsChannel, GenerationsReplay, GenerationsSnapshot, Zenon
DEF Generations

-----------------------------------------------------------------------------
(* Ignored paths *)

LEMMA IgnoredInit == Init => IgnoredNeverShown
<1>. SUFFICES ASSUME Init PROVE IgnoredNeverShown
  OBVIOUS
<1>1. 1..Len(chan) = {} /\ 1..Len(replay) = {}
  BY DEF Init
<1>2. \A p \in Ignored : /\ batch[p] = NoOp /\ mirror[p] = Absent
                         /\ \A t \in Fetcher : tree[t][p] = NoOp
  BY ValueAssumption, Zenon DEF Init, NoOps
<1>. QED BY <1>1, <1>2, Zenon DEF IgnoredNeverShown

LEMMA IgnoredOps ==
    ASSUME TypeOK, IgnoredNeverShown, [Next]_vars, NEW q \in Ignored
    PROVE  /\ batch'[q] = NoOp
           /\ \A i \in 1..Len(chan') : chan'[i].ops[q] = NoOp
           /\ \A i \in 1..Len(replay') : replay'[i].ops[q] = NoOp
<1>0. /\ q \in Path
      /\ batch[q] = NoOp
      /\ \A i \in 1..Len(chan) : chan[i].ops[q] = NoOp
      /\ \A i \in 1..Len(replay) : replay[i].ops[q] = NoOp
  BY ValueAssumption DEF IgnoredNeverShown
<1>1. batch'[q] = NoOp
  <2>1. ASSUME NEW p \in Path, Resolve(p) PROVE batch'[q] = NoOp
    BY <1>0, <2>1 DEF Resolve, TypeOK, Ops
  <2>2. ASSUME NEW S \in SUBSET Path, NEW r \in BOOLEAN, Broadcast(S, r)
        PROVE  batch'[q] = NoOp
    BY <1>0, <2>2 DEF Broadcast, Only
  <2>3. CASE Take \/ AssignGeneration \/ (\E over \in BOOLEAN : EndResolve(over))
              \/ UNCHANGED flushVars
    BY <1>0, <2>3, Zenon DEF Take, AssignGeneration, EndResolve, flushVars
  <2>. QED BY <2>1, <2>2, <2>3, FlushSteps, Zenon DEF Flush
<1>2. \A i \in 1..Len(chan') : chan'[i].ops[q] = NoOp
  <2>1. ASSUME NEW f, f.ops[q] = NoOp, Grown(f)
        PROVE  \A i \in 1..Len(chan') : chan'[i].ops[q] = NoOp
    BY <1>0, <2>1 DEF Grown
  <2>2. \A S, r : BatchFrame(batchGen, Only(batch, S), r).ops[q] = NoOp
    BY <1>0 DEF BatchFrame, Only
  <2>3. \A t : SnapshotEnd(t).ops[q] = NoOp
    BY <1>0 DEF SnapshotEnd, NoOps
  <2>4. CASE Shifted
    BY <1>0, <2>4 DEF Shifted
  <2>5. CASE Relabelled
    BY <1>0, <2>5 DEF Relabelled
  <2>. QED BY <2>1, <2>2, <2>3, <2>4, <2>5, ChannelStep
<1>3. \A i \in 1..Len(replay') : replay'[i].ops[q] = NoOp
  <2>1. CASE replay' = replay
    BY <1>0, <2>1
  <2>2. CASE replay' = <<>>
    BY <2>2
  <2>3. CASE ReceiveInvalidation /\ Records
    BY <1>0, <2>3, ChannelShifts DEF Pop, Records
  <2>. QED BY <2>1, <2>2, <2>3, ReplayStep
<1>. QED BY <1>1, <1>2, <1>3

LEMMA IgnoredEntries ==
    ASSUME TypeOK, IgnoredNeverShown, [Next]_vars, NEW q \in Ignored
    PROVE  /\ \A t \in Fetcher : tree'[t][q] \in {NoOp, Absent}
           /\ mirror'[q] = Absent
<1>0. /\ q \in Path
      /\ \A i \in 1..Len(chan) : chan[i].ops[q] = NoOp
      /\ \A i \in 1..Len(replay) : replay[i].ops[q] = NoOp
      /\ \A t \in Fetcher : tree[t][q] \in {NoOp, Absent}
      /\ mirror[q] = Absent
  BY ValueAssumption DEF IgnoredNeverShown
<1>1. \A t \in Fetcher : tree'[t][q] \in {NoOp, Absent}
  <2>1. ASSUME NEW t \in Fetcher, StampSnapshot(t)
        PROVE  \A u \in Fetcher : tree'[u][q] \in {NoOp, Absent}
    BY <1>0, <2>1 DEF StampSnapshot, TypeOK, NoOps
  <2>2. ASSUME NEW t \in Fetcher, NEW p \in Path, ScanEntry(t, p)
        PROVE  \A u \in Fetcher : tree'[u][q] \in {NoOp, Absent}
    BY <1>0, <2>2 DEF ScanEntry, TypeOK, Ops, Seen
  <2>. QED BY <1>0, <2>1, <2>2, SnapshotSteps, Zenon
<1>2. mirror'[q] = Absent
  <2>1. CASE ReceiveInvalidation
    <3>1. 1 \in 1..Len(chan) /\ Head(chan) = chan[1]
      BY <2>1, ChannelShifts DEF Pop
    <3>. QED BY <1>0, <2>1, <3>1 DEF ReceiveInvalidation, ApplyBatch
  <2>2. ASSUME NEW t \in Fetcher, LoadSnapshot(t) PROVE mirror'[q] = Absent
    <3>1. Newer(t, q) = {}
      BY <1>0 DEF Newer
    <3>2. tree[t][q] = Absent
      BY <1>0, <2>2 DEF LoadSnapshot, TypeOK, Touched
    <3>. QED BY <1>0, <2>2, <3>1, <3>2 DEF LoadSnapshot
  <2>3. ASSUME NEW t \in Fetcher, FetchBegin(t) \/ FetchFail(t)
        PROVE  mirror' = mirror
    BY <2>3, Zenon DEF FetchBegin, FetchFail
  <2>4. CASE mirror' = mirror
    BY <1>0, <2>4
  <2>. QED BY <2>1, <2>2, <2>3, <2>4, MirrorSteps, Zenon DEF mirrorVars
<1>. QED BY <1>1, <1>2

LEMMA IgnoredStep ==
    ASSUME TypeOK, IgnoredNeverShown, [Next]_vars
    PROVE  IgnoredNeverShown'
BY IgnoredOps, IgnoredEntries, Zenon DEF IgnoredNeverShown

-----------------------------------------------------------------------------
(* Evidence of a change is handed on, never dropped *)

\* A notice stays in the watcher and the coalescer until the flusher takes it.
LEMMA NoticedKept ==
    ASSUME TypeOK, NEW p \in Path, Noticed(p), [Next]_vars
    PROVE  Noticed(p)' \/ (flusher' = "taken" /\ Flushing(p)')
<1>1. ASSUME NEW q \in Path, NEW v \in Val, Change(q, v) PROVE Noticed(p)'
  <2>1. /\ Len(events) \in Nat
        /\ \A i \in 1..Len(events) : i \in 1..Len(events') /\ events'[i] = events[i]
    <3>1. \/ events' = events
          \/ \E e \in Path \cup {Overflow} : events' = Append(events, e)
      BY <1>1 DEF Change, Enqueue
    <3>2. events \in Seq(Path \cup {Overflow}) /\ Len(events) \in Nat
      BY DEF TypeOK
    <3>3. ASSUME NEW e \in Path \cup {Overflow}, events' = Append(events, e)
          PROVE  \A i \in 1..Len(events) : i \in 1..Len(events') /\ events'[i] = events[i]
      BY <3>2, <3>3, AppendFacts
    <3>. QED BY <3>1, <3>2, <3>3, Zenon
  <2>2. pending' = pending /\ overflow' = overflow
    BY <1>1 DEF Change, coalVars
  <2>. QED BY <2>1, <2>2, Zenon DEF Noticed
<1>2. ASSUME OnEvent PROVE Noticed(p)'
  <2>1. /\ Len(events) \in Nat /\ Len(events) >= 1
        /\ Len(events') = Len(events) - 1
        /\ \A i \in 1..(Len(events) - 1) : events'[i] = events[i + 1]
        /\ Head(events) = events[1]
    BY <1>2, TailFacts DEF OnEvent, TypeOK
  <2>2. CASE p \in pending \/ overflow
    BY <1>2, <2>2, Zenon DEF OnEvent, Noticed
  <2>3. ASSUME NEW i \in 1..Len(events), events[i] \in {p, Overflow}
        PROVE  Noticed(p)'
    <3>1. CASE i = 1
      BY <1>2, <2>1, <2>3, <3>1, Zenon DEF OnEvent, Noticed
    <3>2. CASE i > 1
      <4>1. i - 1 \in 1..Len(events') /\ events'[i - 1] = events[i]
        BY <2>1, <3>2
      <4>. QED BY <2>3, <4>1 DEF Noticed
    <3>. QED BY <3>1, <3>2
  <2>. QED BY <2>2, <2>3, Zenon DEF Noticed
<1>3. CASE Take
  BY <1>3, Zenon DEF Take, Noticed, Flushing, watchVars
<1>4. CASE UNCHANGED <<disk, events, pending, overflow>>
  BY <1>4, Zenon DEF Noticed
<1>. QED BY <1>1, <1>2, <1>3, <1>4, NoticeSteps, Zenon

\* A change is noticed as it happens.
LEMMA ChangeIsNoticed ==
    ASSUME TypeOK, NEW p \in Path, NEW v \in Val, Change(p, v)
    PROVE  Noticed(p)'
<1>1. \/ \E e \in {p, Overflow} : events' = Append(events, e)
      \/ events' = events /\ \E i \in 1..Len(events) : events[i] = Overflow
  BY DEF Change, Enqueue
<1>2. ASSUME NEW e \in {p, Overflow}, events' = Append(events, e) PROVE Noticed(p)'
  <2>1. Len(events) + 1 \in 1..Len(events') /\ events'[Len(events) + 1] = e
    BY <1>2, AppendFacts DEF TypeOK
  <2>. QED BY <1>2, <2>1, Zenon DEF Noticed
<1>3. CASE events' = events /\ \E i \in 1..Len(events) : events[i] = Overflow
  BY <1>3, Zenon DEF Noticed
<1>. QED BY <1>1, <1>2, <1>3, Zenon

LEMMA ChangeNoticed ==
    ASSUME TypeOK, NEW p \in Path, [Next]_vars, Seen(p)' # Seen(p)
    PROVE  Noticed(p)'
<1>1. ASSUME NEW q \in Path, NEW v \in Val, Change(q, v) PROVE Noticed(p)'
  <2>1. q = p
    BY <1>1 DEF Change, Seen, TypeOK
  <2>. QED BY <1>1, <2>1, ChangeIsNoticed
<1>2. disk' # disk
  BY DEF Seen
<1>3. OnEvent \/ Take => disk' = disk
  BY Zenon DEF OnEvent, Take, watchVars
<1>. QED BY <1>1, <1>2, <1>3, NoticeSteps, Zenon

\* What the flusher still holds for p ...
Holds(p, g) == Flushing(p) /\ (flusher = "taken" \/ batchGen > g)

\* ... and a frame that carries what it held.
Carries(p) == /\ Len(chan') = Len(chan) + 1
              /\ Mentions(chan'[Len(chan) + 1], p)
              /\ chan'[Len(chan) + 1].gen = batchGen
              /\ flusher # "taken"

\* The flusher holds on to an operation on p until a frame carries it, and the
\* generation it will carry is above any that existed when it was taken.
LEMMA FlushingKept ==
    ASSUME TypeOK, Control, Special = {}, NEW p \in Path \ Ignored,
           NEW g \in Nat, g <= generation, Flushing(p), [Next]_vars
    PROVE  \/ Flushing(p)' /\ (Holds(p, g) => Holds(p, g)')
           \/ Carries(p)
<1>. DEFINE Still == Flushing(p)' /\ (Holds(p, g) => Holds(p, g)')
<1>. SUFFICES Still \/ Carries(p)
  OBVIOUS
<1>1. ASSUME Take PROVE FALSE
  BY <1>1 DEF Take, Control, Flushing, NoOps
<1>2. ASSUME AssignGeneration PROVE Still
  BY <1>2 DEF AssignGeneration, Flushing, Holds, TypeOK
<1>3. ASSUME NEW q \in Path, Resolve(q) PROVE Still
  <2>1. Flushing(p)'
    BY <1>3, ValueAssumption DEF Resolve, Flushing, TypeOK, Ops
  <2>. QED BY <1>3, <2>1, Zenon DEF Resolve, Holds
<1>4. ASSUME NEW over \in BOOLEAN, EndResolve(over) PROVE Still
  BY <1>4, Zenon DEF EndResolve, Flushing, Holds
<1>5. ASSUME NEW S \in SUBSET Path, NEW r \in BOOLEAN, Broadcast(S, r),
             Grown(BatchFrame(batchGen, Only(batch, S), r))
      PROVE  Still \/ Carries(p)
  <2>1. /\ flusher = "send" /\ planned = {} /\ planned' = planned
        /\ S \subseteq Touched(batch)
        /\ batch'[p] = IF p \in S THEN NoOp ELSE batch[p]
        /\ rescanOp' = (rescanOp /\ ~r)
        /\ batchGen' = batchGen
    BY <1>5 DEF Broadcast, Control, Only
  <2>2. CASE p \in S \/ r
    <3>1. Mentions(BatchFrame(batchGen, Only(batch, S), r), p)
      BY <2>1, <2>2, BatchFrameFacts, OnlyFacts DEF Mentions, Touched
    <3>2. BatchFrame(batchGen, Only(batch, S), r).gen = batchGen
      BY BatchFrameFacts
    <3>3. flusher # "taken"
      BY <1>5 DEF Broadcast
    <3>. QED BY <1>5, <3>1, <3>2, <3>3, Zenon DEF Carries, Grown
  <2>3. CASE p \notin S /\ ~r
    BY <2>1, <2>3, Zenon DEF Flushing, Holds
  <2>. QED BY <2>2, <2>3
<1>6. ASSUME UNCHANGED flushVars PROVE Still
  BY <1>6, Zenon DEF flushVars, Flushing, Holds
<1>7. ASSUME NEW S \in SUBSET Path, NEW r \in BOOLEAN, Broadcast(S, r)
      PROVE  Grown(BatchFrame(batchGen, Only(batch, S), r))
  BY <1>7, BroadcastGrows
<1>. HIDE DEF Still
<1>. QED BY <1>1, <1>2, <1>3, <1>4, <1>5, <1>6, <1>7, FlushSteps, Zenon DEF Flush

\* Any step but the reader's leaves what the queued frames say alone, and adds
\* at most a frame whose operations come from the batch being sent.
LEMMA ChannelKept ==
    ASSUME TypeOK, NEW p \in Path, ~Pop, [Next]_vars
    PROVE  /\ Len(chan) \in Nat
           /\ Len(chan') \in {Len(chan), Len(chan) + 1}
           /\ \A i \in 1..Len(chan) : /\ chan'[i].gen = chan[i].gen
                                      /\ chan'[i].ops = chan[i].ops
                                      /\ chan'[i].rescan = chan[i].rescan
           /\ Len(chan') = Len(chan) + 1 =>
                 chan'[Len(chan) + 1].ops[p] \in {NoOp, batch[p]}
<1>1. \A S, r : BatchFrame(batchGen, Only(batch, S), r).ops[p] \in {NoOp, batch[p]}
  BY BatchFrameFacts, OnlyFacts
<1>2. \A t \in Fetcher : SnapshotEnd(t).ops[p] \in {NoOp, batch[p]}
  BY SnapshotEndFacts, Zenon DEF NoOps
<1>3. Relabelled \/ \E f : Grown(f) /\ f.ops[p] \in {NoOp, batch[p]}
  BY <1>1, <1>2, ChannelStep, Zenon
<1>. QED BY <1>3 DEF Grown, Relabelled

\* A batch operation is kept, sent, or read off the disk just now.
LEMMA BatchKept ==
    ASSUME TypeOK, Special = {}, NEW p \in Path \ Ignored, [Next]_vars
    PROVE  batch'[p] \in {NoOp, batch[p], Seen(p)}
<1>1. ASSUME NEW q \in Path, Resolve(q) PROVE batch'[p] \in {NoOp, batch[p], Seen(p)}
  BY <1>1 DEF Resolve, Seen, TypeOK, Ops
<1>2. ASSUME NEW S \in SUBSET Path, NEW r \in BOOLEAN, Broadcast(S, r)
      PROVE  batch'[p] \in {NoOp, batch[p]}
  BY <1>2 DEF Broadcast, Only
<1>3. CASE Take \/ AssignGeneration \/ (\E over \in BOOLEAN : EndResolve(over))
            \/ UNCHANGED flushVars
  BY <1>3, Zenon DEF Take, AssignGeneration, EndResolve, flushVars
<1>. QED BY <1>1, <1>2, <1>3, FlushSteps, Zenon DEF Flush

\* Whatever follows the frame at position i keeps following it ...
LEMMA PursuedKept ==
    ASSUME TypeOK, Control, Special = {}, NEW p \in Path \ Ignored, NEW i \in Nat,
           i <= Len(chan), ~Pop, Pursued(p, i), [Next]_vars
    PROVE  Pursued(p, i)'
<1>1. CASE Noticed(p)
  BY <1>1, NoticedKept DEF Pursued
<1>2. CASE Flushing(p)
  <2>1. 0 \in Nat /\ 0 <= generation
    BY DEF TypeOK
  <2>2. Flushing(p)' \/ Carries(p)
    BY <1>2, <2>1, FlushingKept
  <2>3. ASSUME Carries(p) PROVE Queued(p, i)'
    <3>1. Len(chan) + 1 \in (i + 1)..Len(chan')
      BY <2>3, QueueTypes DEF Carries
    <3>. QED BY <2>3, <3>1 DEF Queued, Carries
  <2>. QED BY <2>2, <2>3, Zenon DEF Pursued
<1>3. ASSUME NEW j \in (i + 1)..Len(chan), Mentions(chan[j], p) PROVE Pursued(p, i)'
  <2>1. /\ j \in (i + 1)..Len(chan') /\ j \in 1..Len(chan)
        /\ chan'[j].ops = chan[j].ops /\ chan'[j].rescan = chan[j].rescan
    BY ChannelKept
  <2>. QED BY <1>3, <2>1 DEF Pursued, Queued, Mentions
<1>. QED BY <1>1, <1>2, <1>3 DEF Pursued, Queued

\* A reader's step leaves the agent alone.
LEMMA PopFrame ==
    ASSUME Pop
    PROVE  UNCHANGED <<disk, events, pending, overflow, flushVars>>
BY Zenon DEF Pop, ReceiveInvalidation, ApplyBatch, ReceiveLate, ReceiveSnapshot,
             agentVars, watchVars, coalVars

\* ... also when the reader shifts the channel.
LEMMA PursuedPopped ==
    ASSUME TypeOK, NEW p \in Path, NEW i \in Nat, Pop, Pursued(p, i + 1)
    PROVE  Pursued(p, i)'
<1>1. CASE Noticed(p) \/ Flushing(p)
  BY <1>1, PopFrame, Zenon DEF Pursued, Noticed, Flushing, flushVars
<1>2. ASSUME NEW j \in ((i + 1) + 1)..Len(chan), Mentions(chan[j], p)
      PROVE  Pursued(p, i)'
  <2>1. /\ j - 1 \in (i + 1)..Len(chan') /\ j - 1 \in 1..Len(chan')
        /\ chan'[j - 1] = chan[j]
    BY ChannelShifts DEF Shifted
  <2>. QED BY <1>2, <2>1 DEF Pursued, Queued
<1>. QED BY <1>1, <1>2, Zenon DEF Pursued, Queued

\* What will be broadcast above an existing generation g stays so ...
LEMMA AheadKept ==
    ASSUME TypeOK, Control, Special = {}, NEW p \in Path \ Ignored, NEW g \in Nat,
           g <= generation, ~Pop, Ahead(p, g), [Next]_vars
    PROVE  Ahead(p, g)'
<1>1. CASE Noticed(p)
  BY <1>1, NoticedKept DEF Ahead
<1>2. CASE Holds(p, g)
  <2>1. CASE Holds(p, g)'
    BY <2>1 DEF Ahead, Holds
  <2>2. CASE Carries(p)
    <3>1. Len(chan) + 1 \in 1..Len(chan') /\ chan'[Len(chan) + 1].gen > g
      BY <1>2, <2>2, QueueTypes DEF Carries, Holds
    <3>. QED BY <2>2, <3>1 DEF Ahead, Carries
  <2>. QED BY <1>2, <2>1, <2>2, FlushingKept DEF Holds
<1>3. ASSUME NEW j \in 1..Len(chan), chan[j].gen > g, Mentions(chan[j], p)
      PROVE  Ahead(p, g)'
  <2>1. /\ j \in 1..Len(chan')
        /\ chan'[j].gen = chan[j].gen
        /\ chan'[j].ops = chan[j].ops /\ chan'[j].rescan = chan[j].rescan
    BY ChannelKept
  <2>. QED BY <1>3, <2>1 DEF Ahead, Mentions
<1>. QED BY <1>1, <1>2, <1>3, Zenon DEF Ahead, Holds

\* ... until the reader takes the frame that carries it.
LEMMA AheadPopped ==
    ASSUME TypeOK, NEW p \in Path, NEW g \in Nat, Pop, Ahead(p, g)
    PROVE  Ahead(p, g)' \/ (chan[1].gen > g /\ Mentions(chan[1], p))
<1>1. CASE Noticed(p) \/ (Flushing(p) /\ (flusher = "taken" \/ batchGen > g))
  BY <1>1, PopFrame, Zenon DEF Ahead, Noticed, Flushing, flushVars
<1>2. ASSUME NEW j \in 1..Len(chan), chan[j].gen > g, Mentions(chan[j], p), j # 1
      PROVE  Ahead(p, g)'
  <2>1. j - 1 \in 1..Len(chan') /\ chan'[j - 1] = chan[j]
    BY <1>2, ChannelShifts DEF Shifted
  <2>. QED BY <1>2, <2>1 DEF Ahead
<1>. QED BY <1>1, <1>2, Zenon DEF Ahead

-----------------------------------------------------------------------------
(* Out-of-date operations *)

LEMMA StaleOpsInit == Init => StaleOpsFollowed
<1>. SUFFICES ASSUME Init PROVE StaleOpsFollowed
  OBVIOUS
<1>1. \A p \in Path : batch[p] = NoOp
  BY Zenon DEF Init, NoOps
<1>2. 1..Len(chan) = {}
  BY DEF Init
<1>. QED BY <1>1, <1>2, Zenon DEF StaleOpsFollowed

LEMMA StaleBatchStep ==
    ASSUME TypeOK, Control', Special = {}, StaleOpsFollowed, [Next]_vars,
           NEW p \in Path \ Ignored, batch'[p] \notin {NoOp, Seen(p)}
    PROVE  Noticed(p)'
<1>1. Noticed(p)
  BY BatchKept DEF StaleOpsFollowed
<1>2. flusher' # "taken"
  BY DEF Control, NoOps
<1>. QED BY <1>1, <1>2, NoticedKept

LEMMA StaleFrameStep ==
    ASSUME TypeOK, Control, Special = {}, StaleOpsFollowed, [Next]_vars,
           NEW p \in Path \ Ignored, NEW i \in 1..Len(chan'),
           chan'[i].ops[p] \notin {NoOp, Seen(p)}
    PROVE  Pursued(p, i)'
<1>1. CASE Pop
  <2>1. i \in Nat /\ i + 1 \in 1..Len(chan) /\ chan'[i] = chan[i + 1]
    BY <1>1, ChannelShifts DEF Shifted
  <2>2. Pursued(p, i + 1)
    BY <2>1, Zenon DEF StaleOpsFollowed
  <2>. QED BY <1>1, <2>1, <2>2, PursuedPopped
<1>2. CASE ~Pop /\ i \in 1..Len(chan)
  <2>1. chan'[i].ops = chan[i].ops /\ i \in Nat /\ i <= Len(chan)
    BY <1>2, ChannelKept
  <2>2. Pursued(p, i)
    BY <1>2, <2>1, Zenon DEF StaleOpsFollowed
  <2>. QED BY <1>2, <2>1, <2>2, PursuedKept
<1>3. CASE ~Pop /\ i \notin 1..Len(chan)
  <2>1. i = Len(chan) + 1 /\ Len(chan') = Len(chan) + 1
    BY <1>3, ChannelKept
  <2>2. batch[p] \notin {NoOp, Seen(p)}
    BY <1>3, <2>1, ChannelKept
  <2>3. Noticed(p)
    BY <2>2, Zenon DEF StaleOpsFollowed
  <2>. QED BY <2>3, NoticedKept DEF Pursued
<1>. QED BY <1>1, <1>2, <1>3

\* An out-of-date operation was read before a change that the watcher reports,
\* so a newer operation on the path follows it (flush_loop re-stats after it
\* has taken the notices).
LEMMA StaleOpsStep ==
    ASSUME TypeOK, Control, Control', Special = {}, IgnoredNeverShown',
           StaleOpsFollowed, [Next]_vars
    PROVE  StaleOpsFollowed'
<1>. SUFFICES ASSUME NEW p \in Path
     PROVE  /\ batch'[p] \notin {NoOp, Seen(p)'} => Noticed(p)'
            /\ \A i \in 1..Len(chan') :
                  chan'[i].ops[p] \notin {NoOp, Seen(p)'} => Pursued(p, i)'
  BY Zenon DEF StaleOpsFollowed
<1>1. CASE p \in Ignored
  BY <1>1, Zenon DEF IgnoredNeverShown
<1>2. CASE Seen(p)' # Seen(p)
  BY <1>2, ChangeNoticed DEF Pursued
<1>3. CASE p \notin Ignored /\ Seen(p)' = Seen(p)
  BY <1>3, StaleBatchStep, StaleFrameStep
<1>. QED BY <1>1, <1>2, <1>3

=============================================================================
