----------------------------- MODULE Coalescer ------------------------------
(***************************************************************************)
(* Coalescer (coalescer.cpp) between the watcher, which pushes events, and *)
(* flush_loop (server.cpp), which sleeps until a batch is due, takes it,   *)
(* re-stats every path and sends the batch.  Time is the clock             *)
(* that push and ready are given.                                          *)
(*                                                                         *)
(* A path is its rank in the byte order of the path strings, so that the   *)
(* sorting of take is the order of numbers; Below holds the pairs          *)
(* <<child, parent>> of path_is_under.                                     *)
(***************************************************************************)
EXTENDS Integers, Sequences, FiniteSets

CONSTANTS
    Path,        \* the paths, numbered in byte order
    Below,       \* <<p, q>> : p lies strictly below q
    MaxPending,  \* Options::max_pending
    QuietPeriod, \* Options::quiet_period
    MaxLatency,  \* Options::max_latency
    MaxOps,      \* bound: operations on the file system
    MaxNow       \* bound: the clock

ASSUME CoalescerAssumption ==
    /\ Path \subseteq Nat
    /\ Below \subseteq Path \X Path
    /\ MaxPending \in Nat \ {0}
    /\ QuietPeriod \in Nat /\ MaxLatency \in Nat
    /\ MaxOps \in Nat /\ MaxNow \in Nat

VARIABLES
    exists,   \* the paths that exist on the disk
    ops,      \* operations so far; also the cookie of the latest move
    queue,    \* events the watcher has not delivered yet
    pending,  \* pending_: path -> Entry, on the paths that have one
    overflow, \* overflow_
    seq,      \* seq_
    first,    \* first_
    last,     \* last_
    now,      \* the clock
    flusher,  \* where flush_loop is
    alarm,    \* the time its wait_until ends
    plan,     \* planned: operations taken and not resolved yet
    batch     \* batch.ops

diskVars == <<exists, ops, queue>>
windowVars == <<pending, overflow, seq, first, last>>
flushVars == <<flusher, alarm, plan, batch>>
vars == <<diskVars, windowVars, now, flushVars>>

Event(kind, p, c) == [kind |-> kind, path |-> p, cookie |-> c]
NoPath == 0

Init ==
    /\ exists \in SUBSET Path
    /\ \A d \in Below : d[1] \in exists => d[2] \in exists
    /\ ops = 0 /\ queue = <<>>
    /\ pending = <<>> /\ overflow = FALSE
    /\ seq = 0 /\ first = 0 /\ last = 0 /\ now = 0
    /\ flusher = "look" /\ alarm = 0
    /\ plan = {} /\ batch = {}

-----------------------------------------------------------------------------
(* The disk, and the events it raises *)

Raise(evs) ==
    /\ ops < MaxOps
    /\ ops' = ops + 1
    /\ queue' = queue \o evs
    /\ UNCHANGED <<windowVars, now, flushVars>>

Under(p) == {q \in Path : <<q, p>> \in Below}
Reachable(p) == \A q \in Path : <<p, q>> \in Below => q \in exists

CreatePath(p) ==
    /\ p \notin exists /\ Reachable(p)
    /\ exists' = exists \cup {p}
    /\ Raise(<<Event("Created", p, 0)>>)

Modify(p) ==
    /\ p \in exists
    /\ Raise(<<Event("Modified", p, 0)>>)
    /\ UNCHANGED exists

RemovePath(p) ==
    /\ p \in exists /\ Under(p) \cap exists = {}
    /\ exists' = exists \ {p}
    /\ Raise(<<Event("Removed", p, 0)>>)

\* A move takes what is below the path along, without a word about it.
Move(p, q) ==
    /\ p \in exists /\ p # q /\ <<q, p>> \notin Below
    /\ Reachable(q) /\ Under(q) \cap exists = {}
    /\ exists' = (exists \ ({p} \cup Under(p))) \cup {q}
    /\ Raise(<<Event("RenamedFrom", p, ops + 1), Event("RenamedTo", q, ops + 1)>>)

LoseEvents ==
    /\ Raise(<<Event("Overflow", NoPath, 0)>>)
    /\ UNCHANGED exists

Tree == \/ \E p \in Path : CreatePath(p) \/ Modify(p) \/ RemovePath(p)
        \/ \E p, q \in Path : Move(p, q)
        \/ LoseEvents

-----------------------------------------------------------------------------
(* Coalescer *)

Empty == pending = <<>> /\ ~overflow

Appears(kind) == kind \in {"Created", "RenamedTo"}
OpOf(kind) == IF kind \in {"Removed", "RenamedFrom"} THEN "Remove" ELSE "Upsert"
ChangeOf(kind) == CASE kind = "RenamedFrom" -> "MovedFrom"
                    [] kind = "RenamedTo" -> "MovedTo"
                    [] OTHER -> kind

\* The entry an event leaves for a path whose entry so far is in olds (at most
\* one).  A write does not turn a path that is new in this window into a
\* modified one.
EntryFor(ev, olds) ==
    LET kept == {e \in olds : /\ ev.kind = "Modified"
                              /\ e.change \in {"Created", "MovedTo"}}
    IN  [kind |-> OpOf(ev.kind), path |-> ev.path, seq |-> seq + 1,
         appeared |-> /\ OpOf(ev.kind) = "Upsert"
                      /\ Appears(ev.kind) \/ \E e \in olds : e.appeared,
         change |-> IF kept = {} THEN ChangeOf(ev.kind)
                    ELSE (CHOOSE e \in kept : TRUE).change,
         cookie |-> IF kept = {} THEN ev.cookie
                    ELSE (CHOOSE e \in kept : TRUE).cookie]

Put(f, p, e) == [q \in DOMAIN f \cup {p} |-> IF q = p THEN e ELSE f[q]]

\* What push does to the window.
Window(ev) ==
    /\ first' = IF Empty THEN now ELSE first
    /\ last' = now
    /\ overflow' = (overflow \/ ev.kind = "Overflow")
    /\ IF overflow'
       THEN pending' = <<>> /\ UNCHANGED seq
       ELSE /\ pending' = Put(pending, ev.path,
                              EntryFor(ev, {pending[p] : p \in DOMAIN pending
                                                              \cap {ev.path}}))
            /\ seq' = seq + 1

\* Mutant of Push: the flusher is only notified of the first event.
PushQuietly ==
    /\ queue # <<>>
    /\ queue' = Tail(queue)
    /\ Window(Head(queue))
    /\ flusher' = IF flusher = "idle" THEN "look" ELSE flusher
    /\ UNCHANGED <<exists, ops, now, alarm, plan, batch>>

\* on_event: push under the lock, then wake the flusher.
Push ==
    /\ queue # <<>>
    /\ queue' = Tail(queue)
    /\ Window(Head(queue))
    /\ flusher' = IF flusher \in {"idle", "sleep"} THEN "look" ELSE flusher
    /\ UNCHANGED <<exists, ops, now, alarm, plan, batch>>

Full == Cardinality(DOMAIN pending) >= MaxPending

\* Mutant of Ready: the quiet period must be exceeded.
ReadyLate == \/ overflow
             \/ /\ ~Empty
                /\ \/ Full \/ now - last > QuietPeriod
                   \/ now - first >= MaxLatency

Ready == \/ overflow
         \/ /\ ~Empty
            /\ \/ Full \/ now - last >= QuietPeriod
               \/ now - first >= MaxLatency

Earlier(s, t) == IF s <= t THEN s ELSE t
Deadline == IF overflow \/ Full THEN last
            ELSE Earlier(last + QuietPeriod, first + MaxLatency)

Before(p) == {q \in DOMAIN pending : q < p}
LastBefore(p) == CHOOSE q \in Before(p) : \A r \in Before(p) : r <= q

\* Mutant of GroupHead: any entry heads the run of its descendants.
GroupHeadAny ==
    LET head[p \in DOMAIN pending] ==
          IF Before(p) = {} THEN p
          ELSE LET h == head[LastBefore(p)] IN
               IF <<p, h>> \in Below THEN h ELSE p
    IN  head

\* take walks the entries in byte order: GroupHead[p] is the removed path whose
\* run of descendants p belongs to, or p itself.  A run ends at the first entry
\* that is not a descendant.
GroupHead ==
    LET head[p \in DOMAIN pending] ==
          IF Before(p) = {} THEN p
          ELSE LET h == head[LastBefore(p)] IN
               IF pending[h].kind = "Remove" /\ <<p, h>> \in Below THEN h ELSE p
    IN  head

\* Descendants whose last event predates the removal are dropped.
Kept == {p \in DOMAIN pending : \/ GroupHead[p] = p
                                \/ pending[p].seq > pending[GroupHead[p]].seq}

IsMove(o) == o.change \in {"MovedFrom", "MovedTo"}
Paired(o, S) == \E a, b \in S : /\ a.change = "MovedFrom" /\ b.change = "MovedTo"
                                /\ a.cookie = o.cookie /\ b.cookie = o.cookie

\* repair_move_pairs: a half without its partner becomes a plain change.
Repair(S) == {IF ~IsMove(o) \/ Paired(o, S) THEN o
              ELSE [o EXCEPT !.change = IF @ = "MovedFrom" THEN "Removed"
                                        ELSE "Created",
                             !.cookie = 0] : o \in S}

\* Coalescer::take; the order of the result is that of seq.
Taken == IF overflow
         THEN {[kind |-> "Rescan", path |-> NoPath, seq |-> 0, appeared |-> FALSE,
                change |-> "Unknown", cookie |-> 0]}
         ELSE Repair({pending[p] : p \in Kept})

-----------------------------------------------------------------------------
(* flush_loop *)

\* One turn of the loop under the lock: wait, sleep or take.
Look ==
    /\ flusher = "look"
    /\ \/ /\ Empty
          /\ flusher' = "idle"
          /\ UNCHANGED <<windowVars, alarm, plan>>
       \/ /\ ~Empty /\ ~Ready
          /\ flusher' = "sleep" /\ alarm' = Deadline
          /\ UNCHANGED <<windowVars, plan>>
       \/ /\ ~Empty /\ Ready
          /\ flusher' = "busy" /\ plan' = Taken
          /\ pending' = <<>> /\ overflow' = FALSE
          /\ UNCHANGED <<seq, first, last, alarm>>
    /\ UNCHANGED <<diskVars, now, batch>>

\* wait_until returns.
AlarmRings ==
    /\ flusher = "sleep" /\ now >= alarm
    /\ flusher' = "look"
    /\ UNCHANGED <<diskVars, windowVars, now, alarm, plan, batch>>

\* The disk overrules the event, for the operation and for the change.
Resolved(o) ==
    IF o.kind = "Rescan" THEN o
    ELSE IF o.path \notin exists
    THEN IF o.change = "MovedFrom" THEN [o EXCEPT !.kind = "Remove"]
         ELSE [o EXCEPT !.kind = "Remove", !.change = "Removed", !.cookie = 0]
    ELSE IF o.change \in {"Removed", "MovedFrom"}
         THEN [o EXCEPT !.kind = "Upsert", !.change = "Modified", !.cookie = 0]
         ELSE [o EXCEPT !.kind = "Upsert"]

\* The next planned operation is re-stated; the lock is not held.  One on an
\* ignored path or on what is now a special file is skipped.
Resolve ==
    /\ flusher = "busy" /\ plan # {}
    /\ LET o == CHOOSE a \in plan : \A b \in plan : a.seq <= b.seq IN
       /\ plan' = plan \ {o}
       /\ \/ batch' = batch \cup {Resolved(o)}
          \/ o.kind # "Rescan" /\ batch' = batch
    /\ UNCHANGED <<diskVars, windowVars, now, flusher, alarm>>

\* Mutant of Complete: the second repair is left out.
CompleteUnrepaired ==
    /\ flusher = "busy" /\ plan = {}
    /\ flusher' = "send"
    /\ UNCHANGED <<batch, diskVars, windowVars, now, alarm, plan>>

\* Every path is resolved: move halves that lost their partner are repaired.
\* What append_subtrees adds first, plain upserts or a Rescan, is left out.
Complete ==
    /\ flusher = "busy" /\ plan = {}
    /\ flusher' = "send"
    /\ batch' = Repair(batch)
    /\ UNCHANGED <<diskVars, windowVars, now, alarm, plan>>

\* The batch is broadcast.
Send ==
    /\ flusher = "send"
    /\ flusher' = "look"
    /\ batch' = {}
    /\ UNCHANGED <<diskVars, windowVars, now, alarm, plan>>

-----------------------------------------------------------------------------
\* The clock advances while the flusher is asleep or at work outside the lock;
\* a flusher that is due to run runs first.
Tick ==
    /\ now < MaxNow
    /\ flusher # "look" /\ ~(flusher = "sleep" /\ now >= alarm)
    /\ now' = now + 1
    /\ UNCHANGED <<diskVars, windowVars, flushVars>>

Next == \/ Tree \/ Push \/ Look \/ AlarmRings \/ Resolve \/ Complete \/ Send
        \/ Tick

Spec == Init /\ [][Next]_vars

-----------------------------------------------------------------------------
(* Properties *)

TypeOK ==
    /\ exists \in SUBSET Path
    /\ ops \in 0..MaxOps
    /\ DOMAIN pending \subseteq Path
    /\ \A p \in DOMAIN pending : pending[p].path = p /\ pending[p].seq \in 1..seq
    /\ overflow \in BOOLEAN /\ overflow => pending = <<>>
    /\ seq \in Nat /\ now \in 0..MaxNow
    /\ first \in 0..now /\ last \in first..now
    /\ flusher \in {"look", "idle", "sleep", "busy", "send"}

\* The flusher's sleep matches the window it was computed from, and the clock.
Sleep ==
    /\ overflow \in BOOLEAN
    /\ now \in Nat /\ first \in Nat /\ last \in Nat
    /\ first <= now /\ last <= now
    /\ flusher = "idle" => Empty
    /\ flusher = "sleep" => /\ ~Empty /\ ~overflow /\ ~Full
                            /\ alarm = Deadline /\ now <= alarm

\* The flusher never sleeps on a batch that is due: parked without a deadline
\* it has nothing pending, and sleeping it is within the quiet period, within
\* the latency bound, below the cap and without an overflow.  Concerns the
\* notify_one of on_event, deadline() and the waits of flush_loop.
NeverSleepsOnDueBatch ==
    /\ flusher = "idle" => Empty
    /\ flusher = "sleep" =>
          /\ ~Empty /\ ~overflow /\ ~Full
          /\ now <= last + QuietPeriod /\ now <= first + MaxLatency

\* coalescer.hpp:116 "When `ready` would flip to true if no further events
\* arrive": ready and deadline agree at every instant, so that flush_loop
\* neither spins on a deadline that has passed nor oversleeps.
ReadyAtDeadline == ~Empty => (Ready <=> now >= Deadline)

\* take loses no path: each pending one is planned, or lies below a planned
\* removal that is newer than its last event.
PlanCovers ==
    [][flusher = "look" /\ flusher' = "busy" =>
         \A p \in DOMAIN pending : \E o \in plan' :
            \/ o.path = p
            \/ /\ <<p, o.path>> \in Below /\ o.kind = "Remove"
               /\ o.seq > pending[p].seq]_vars

\* coalescer.hpp:66 "a move that reaches them is always matched": every move
\* half in a batch about to be sent has its partner in the batch, whatever
\* happened to the paths between the events, the take and the re-stats.
MovesMatched == flusher = "send" =>
                    \A o \in batch : IsMove(o) => Paired(o, batch)
=============================================================================
