-------------------------- MODULE CoalescerProofs ---------------------------
(***************************************************************************)
(* The timing of Coalescer for every quiet period, latency bound and cap.  *)
(***************************************************************************)
EXTENDS Coalescer, TLAPS

\* The inductive invariant holds in an initial state.
LEMMA SleepInit == ASSUME Init PROVE Sleep
<1>1. overflow \in BOOLEAN
  BY DEF Init
<1>2. /\ now \in Nat /\ first \in Nat /\ last \in Nat
      /\ first <= now /\ last <= now
  BY DEF Init
<1>3. flusher # "idle" /\ flusher # "sleep"
  BY DEF Init
<1>. QED BY <1>1, <1>2, <1>3 DEF Sleep

\* It is preserved by every step: only Look puts the flusher to sleep, every
\* push wakes it, and the clock does not pass its alarm.
LEMMA SleepStep == ASSUME Sleep, [Next]_vars PROVE Sleep'
<1>. USE CoalescerAssumption
<1>. USE DEF diskVars, windowVars, flushVars
<1>same. ASSUME UNCHANGED <<windowVars, now, flusher, alarm>> PROVE Sleep'
  BY <1>same DEF Sleep, Empty, Full, Deadline, Earlier
<1>1. CASE Tree
  <2>1. UNCHANGED <<windowVars, now, flusher, alarm>>
    BY <1>1 DEF Tree, CreatePath, Modify, RemovePath, Move, LoseEvents, Raise
  <2>. QED BY <2>1, <1>same
<1>2. CASE Push
  <2>1. /\ first' \in Nat /\ first' <= now'
        /\ last' = now /\ now' = now
        /\ overflow' \in BOOLEAN
    BY <1>2 DEF Push, Window, Sleep
  <2>2. flusher' \notin {"idle", "sleep"}
    BY <1>2 DEF Push
  <2>. QED BY <2>1, <2>2 DEF Sleep
<1>3. CASE Look
  <2>1. CASE Empty /\ flusher' = "idle" /\ UNCHANGED <<windowVars, alarm, plan>>
    BY <1>3, <2>1 DEF Look, Sleep, Empty
  <2>2. CASE /\ ~Empty /\ ~Ready
             /\ flusher' = "sleep" /\ alarm' = Deadline
             /\ UNCHANGED <<windowVars, plan>>
    <3>1. UNCHANGED <<windowVars, now>>
      BY <1>3, <2>2 DEF Look
    <3>2. /\ ~overflow /\ ~Full
          /\ now - last < QuietPeriod /\ now - first < MaxLatency
      BY <2>2 DEF Ready, Sleep
    <3>3. now <= Deadline
      BY <3>2 DEF Deadline, Earlier, Sleep
    <3>4. ~Empty' /\ ~Full' /\ Deadline' = Deadline
      BY <2>2, <3>1, <3>2 DEF Empty, Full, Deadline, Earlier
    <3>. QED BY <2>2, <3>1, <3>2, <3>3, <3>4 DEF Sleep
  <2>3. CASE /\ flusher' = "busy"
             /\ overflow' = FALSE
             /\ UNCHANGED <<seq, first, last, alarm>>
    BY <1>3, <2>3 DEF Look, Sleep
  <2>. QED BY <1>3, <2>1, <2>2, <2>3 DEF Look
<1>4. CASE AlarmRings
  BY <1>4 DEF AlarmRings, Sleep
<1>5. CASE Resolve
  BY <1>5, <1>same DEF Resolve
<1>6. CASE Complete
  BY <1>6 DEF Complete, Sleep
<1>7. CASE Send
  BY <1>7 DEF Send, Sleep
<1>8. CASE Tick
  <2>1. now' = now + 1 /\ UNCHANGED <<windowVars, flusher, alarm>>
    BY <1>8 DEF Tick
  <2>2. flusher = "sleep" => now < alarm
    BY <1>8, CoalescerAssumption DEF Tick, Sleep, Deadline, Earlier
  <2>3. Empty' = Empty /\ Full' = Full /\ Deadline' = Deadline
    BY <2>1 DEF Empty, Full, Deadline, Earlier
  <2>4. alarm \in Nat \/ flusher # "sleep"
    BY DEF Sleep, Deadline, Earlier
  <2>. QED BY <2>1, <2>2, <2>3, <2>4 DEF Sleep
<1>9. CASE UNCHANGED vars
  BY <1>9, <1>same DEF vars
<1>. QED
  BY <1>1, <1>2, <1>3, <1>4, <1>5, <1>6, <1>7, <1>8, <1>9 DEF Next

\* The flusher's sleep is sound in every reachable state.
THEOREM SleepInvariant == Spec => []Sleep
<1>1. Init => Sleep
  BY SleepInit
<1>2. Sleep /\ [Next]_vars => Sleep'
  BY SleepStep
<1>. QED BY <1>1, <1>2, PTL DEF Spec

\* flush_loop never sleeps on a batch that is due: whatever the watcher pushes
\* and whenever, the quiet period, the latency bound, the cap and an overflow
\* all find it awake.
THEOREM FlushIsTimely == Spec => []NeverSleepsOnDueBatch
<1>1. Sleep => NeverSleepsOnDueBatch
  <2>. SUFFICES ASSUME Sleep PROVE NeverSleepsOnDueBatch
    OBVIOUS
  <2>1. flusher = "idle" => Empty
    BY DEF Sleep
  <2>2. flusher = "sleep" =>
            now <= last + QuietPeriod /\ now <= first + MaxLatency
    BY CoalescerAssumption DEF Sleep, Deadline, Earlier
  <2>3. flusher = "sleep" => ~Empty /\ ~overflow /\ ~Full
    BY DEF Sleep
  <2>. QED BY <2>1, <2>2, <2>3 DEF NeverSleepsOnDueBatch
<1>. QED BY <1>1, SleepInvariant, PTL

\* ready() turns true exactly when deadline() is reached.
THEOREM ReadyMeetsDeadline == Spec => []ReadyAtDeadline
<1>1. Sleep => ReadyAtDeadline
  <2>. SUFFICES ASSUME Sleep, ~Empty PROVE Ready <=> now >= Deadline
    BY DEF ReadyAtDeadline
  <2>1. CASE overflow \/ Full
    BY <2>1 DEF Ready, Deadline, Sleep
  <2>2. CASE ~(overflow \/ Full)
    BY <2>2, CoalescerAssumption DEF Ready, Deadline, Earlier, Sleep
  <2>. QED BY <2>1, <2>2
<1>. QED BY <1>1, SleepInvariant, PTL
=============================================================================
