---------------------------- MODULE WriteThrough ----------------------------
(***************************************************************************)
(* The client's own mutations on top of MirrorSync.                        *)
(*                                                                         *)
(* A caller sends a mutation; the agent's session thread, which answers    *)
(* requests in order and is also the one that scans, performs it and       *)
(* acknowledges it with the generation it reads afterwards                 *)
(* (handle_mutation).  The caller then updates the mirror itself and notes *)
(* the generation in local_mutations_, by which the reader discards        *)
(* operations of batches that are not newer.  The mutation also raises a   *)
(* watcher event like any other change of the disk.                        *)
(*                                                                         *)
(* Guess stands for attributes the client makes up (a bumped mtime): write,*)
(* truncate and mkdir do not return the real ones.                         *)
(***************************************************************************)
EXTENDS MirrorSync

CONSTANTS
    Guess,        \* attributes made up by the client
    None,         \* no mutation, no reply
    Own,          \* paths that only this client changes
    Kinds,        \* the mutations the caller uses
    MaxMutations, \* bound: mutations sent
    MaxLost       \* bound: calls that fail although the disk was changed

\* What a stat on the agent's side can return.
Stat == Val \ {Guess}
Files == Stat \ ({Absent} \cup Special \cup Dir)

ASSUME MutationAssumption ==
    /\ Guess \in Val \ ({Absent} \cup Special \cup Dir)
    /\ Own \subseteq Path
    /\ Kinds \subseteq {"create", "write", "truncate", "mkdir", "unlink",
                        "rmdir", "rename"}
    /\ MaxMutations \in Nat /\ MaxLost \in Nat

VARIABLES
    requests, \* requests on their way to the session thread, oldest first
    working,  \* the outcome so far of the mutation at the head, or None
    mutation, \* the mutation the caller waits for, or None
    reply,    \* the reply the reader has handed to the caller, or None
    localMut, \* local_mutations_: path -> generation, 0 for no entry
    sent,     \* mutations sent so far
    lost      \* calls that failed although the disk was changed

writeVars == <<requests, working, mutation, reply, localMut, sent, lost>>
wvars == <<vars, writeVars>>

InitW ==
    /\ Init /\ disk \in [Path -> Stat]
    /\ requests = <<>> /\ working = None
    /\ mutation = None /\ reply = None
    /\ localMut = [p \in Path |-> 0]
    /\ sent = 0 /\ lost = 0

Answering(k) == requests # <<>> /\ Head(requests).kind = k

-----------------------------------------------------------------------------
(* The snapshot requests, in line with the mutations *)

RequestSnapshot(t) ==
    /\ FetchBegin(t)
    /\ requests' = Append(requests, [kind |-> t])
    /\ UNCHANGED <<working, mutation, reply, localMut, sent, lost>>

BeginSnapshot(t) == Answering(t) /\ StampSnapshot(t) /\ UNCHANGED writeVars

EndSnapshot(t) ==
    /\ SendSnapshot(t)
    /\ requests' = Tail(requests)
    /\ UNCHANGED <<working, mutation, reply, localMut, sent, lost>>

FailSnapshot(t) ==
    /\ FetchFail(t)
    /\ requests' = SelectSeq(requests, LAMBDA r : r.kind # t)
    /\ UNCHANGED <<working, mutation, reply, localMut, sent, lost>>

-----------------------------------------------------------------------------
(* The caller sends a mutation; the session thread performs it *)

SendMutation(k, p, q) ==
    /\ mutation = None
    /\ pc["main"] = "done" /\ loaded
    /\ sent < MaxMutations
    /\ (k = "rename") <=> (p # q)
    /\ LET m == [kind |-> k, from |-> p, to |-> q, live |-> TRUE] IN
       mutation' = m /\ requests' = Append(requests, m)
    /\ sent' = sent + 1
    /\ UNCHANGED <<vars, working, reply, localMut, lost>>

\* The conditions under which the file system accepts the operation.
Accepted(m) ==
    CASE m.kind \in {"create", "write"} -> disk[m.from] \notin Dir
      [] m.kind = "truncate" -> disk[m.from] \notin Dir \cup {Absent}
      [] m.kind = "mkdir"    -> disk[m.from] = Absent
      [] m.kind = "unlink"   -> disk[m.from] \notin Dir \cup {Absent}
      [] m.kind = "rmdir"    -> disk[m.from] \in Dir
      [] m.kind = "rename"   -> /\ disk[m.from] # Absent
                                /\ disk[m.to] = Absent
                                   \/ (disk[m.from] \in Dir <=> disk[m.to] \in Dir)

\* What the operation leaves at a path it changes.
Results(m) ==
    CASE m.kind \in {"create", "write", "truncate"} -> Files
      [] m.kind = "mkdir" -> Dir
      [] OTHER -> {Absent}

\* handle_mutation up to the change of the disk, which raises watcher events.
Perform(v) ==
    /\ requests # <<>> /\ Head(requests).kind \in Kinds
    /\ working = None
    /\ LET m == Head(requests) IN
       \/ /\ Accepted(m)
          /\ v \in Results(m)
          /\ disk' = IF m.kind = "rename"
                     THEN [disk EXCEPT ![m.to] = disk[m.from], ![m.from] = Absent]
                     ELSE [disk EXCEPT ![m.from] = v]
          /\ events' = IF m.kind = "rename"
                       THEN Enqueue(Enqueue(events, m.from), m.to)
                       ELSE Enqueue(events, m.from)
          /\ working' = [ok |-> TRUE, attr |-> NoOp]
       \/ /\ ~Accepted(m)
          /\ v = Absent
          /\ working' = [ok |-> FALSE, attr |-> NoOp]
          /\ UNCHANGED <<disk, events>>
    /\ UNCHANGED <<changes, coalVars, flushVars, snapVars, chan, mirrorVars,
                   fetchVars, requests, mutation, reply, localMut, sent, lost>>

\* create reads the attributes back; the file may be gone again by then.
ReadBack ==
    /\ working # None /\ Answering("create")
    /\ working.ok /\ working.attr = NoOp
    /\ LET now == disk[Head(requests).from] IN
       working' = [ok |-> now # Absent, attr |-> now]
    /\ UNCHANGED <<vars, requests, mutation, reply, localMut, sent, lost>>

\* A write that comes out short, or whose stat fails, is reported as an error.
FailAfterChange ==
    /\ working # None /\ working.ok
    /\ Head(requests).kind \in {"create", "write"}
    /\ lost < MaxLost
    /\ lost' = lost + 1
    /\ working' = [working EXCEPT !.ok = FALSE]
    /\ UNCHANGED <<vars, requests, mutation, reply, localMut, sent>>

Ready == /\ working # None
         /\ Answering("create") /\ working.ok => working.attr # NoOp

\* A reply, with the generation it carries.
ReplyFrame(g) ==
    [kind |-> IF Head(requests).live THEN "ack" ELSE "late", gen |-> g,
     ops |-> NoOps, rescan |-> FALSE, ok |-> working.ok, attr |-> working.attr]

\* Mutant of Acknowledge: the generation is one too old, as if read before a
\* flush that overlapped the mutation.
AcknowledgeEarly ==
    /\ Ready
    /\ chan' = Append(chan, ReplyFrame(generation - 1))
    /\ requests' = Tail(requests)
    /\ working' = None
    /\ UNCHANGED <<agentVars, snapVars, mirrorVars, fetchVars, mutation, reply,
                   localMut, sent, lost>>

\* The reply carries the generation as it is after the change.
Acknowledge ==
    /\ Ready
    /\ chan' = Append(chan, ReplyFrame(generation))
    /\ requests' = Tail(requests)
    /\ working' = None
    /\ UNCHANGED <<agentVars, snapVars, mirrorVars, fetchVars, mutation, reply,
                   localMut, sent, lost>>

-----------------------------------------------------------------------------
(* The client: the reader hands over the reply, the caller applies it *)

ReceiveReply ==
    /\ ~readerRescan
    /\ chan # <<>> /\ Head(chan).kind = "ack"
    /\ reply' = Head(chan)
    /\ chan' = Tail(chan)
    /\ UNCHANGED <<agentVars, snapVars, mirrorVars, fetchVars, requests,
                   working, mutation, localMut, sent, lost>>

\* The caller's update of the mirror.
Optimistic(m, attr) ==
    CASE m.kind = "create" -> [mirror EXCEPT ![m.from] = attr]
      [] m.kind \in {"write", "mkdir"} -> [mirror EXCEPT ![m.from] = Guess]
      [] m.kind = "truncate" ->
            [mirror EXCEPT ![m.from] = IF @ = Absent THEN Absent ELSE Guess]
      [] m.kind \in {"unlink", "rmdir"} -> [mirror EXCEPT ![m.from] = Absent]
      [] m.kind = "rename" ->
            [mirror EXCEPT ![m.to] = mirror[m.from], ![m.from] = Absent]

\* Under tree_mu_: the mirror is updated and the mutation noted.
FinishMutation ==
    /\ reply # None
    /\ IF reply.ok
       THEN /\ mirror' = Optimistic(mutation, reply.attr)
            /\ localMut' = [p \in Path |-> IF p \in {mutation.from, mutation.to}
                                           THEN reply.gen ELSE localMut[p]]
       ELSE UNCHANGED <<mirror, localMut>>
    /\ mutation' = None /\ reply' = None
    /\ UNCHANGED <<agentVars, snapVars, chan, loaded, inFlight, replay,
                   replayOver, fetchVars, requests, working, sent, lost>>

\* The call times out.  The agent may still perform the mutation; its reply
\* will match no pending request.
GiveUp ==
    /\ mutation # None /\ reply = None
    /\ lost < MaxLost
    /\ lost' = lost + 1
    /\ mutation' = None
    /\ requests' = [i \in 1..Len(requests) |->
                      IF requests[i].kind \in Fetcher THEN requests[i]
                      ELSE [requests[i] EXCEPT !.live = FALSE]]
    /\ chan' = [i \in 1..Len(chan) |->
                  [chan[i] EXCEPT !.kind = IF @ = "ack" THEN "late" ELSE @]]
    /\ UNCHANGED <<agentVars, snapVars, mirrorVars, fetchVars, working, reply,
                   localMut, sent>>

\* The operations of a batch that are not newer than a noted mutation.
Stale(b) == {p \in Path : b.gen <= localMut[p]}

\* Mutant of ReceiveBatch: a discarded operation retires the note as well.
ReceiveBatchForgets ==
    /\ ApplyBatch(Stale(Head(chan)))
    /\ localMut' = [p \in Path |-> IF Head(chan).ops[p] # NoOp
                                   THEN 0 ELSE localMut[p]]
    /\ UNCHANGED <<requests, working, mutation, reply, sent, lost>>

\* apply_invalidation with the filter; a newer operation retires the note.
ReceiveBatch ==
    /\ ApplyBatch(Stale(Head(chan)))
    /\ localMut' = [p \in Path |->
                      IF Head(chan).ops[p] # NoOp /\ p \notin Stale(Head(chan))
                      THEN 0 ELSE localMut[p]]
    /\ UNCHANGED <<requests, working, mutation, reply, sent, lost>>

-----------------------------------------------------------------------------
Snapshots == \E t \in Fetcher : \/ RequestSnapshot(t) \/ BeginSnapshot(t)
                                \/ EndSnapshot(t) \/ FailSnapshot(t)
Mutate ==
    \/ \E k \in Kinds, p, q \in Path : SendMutation(k, p, q)
    \/ \E v \in Stat : Perform(v)
    \/ ReadBack \/ FailAfterChange \/ Acknowledge
    \/ ReceiveReply \/ FinishMutation \/ GiveUp
Inherited ==
    \/ \E p \in Path \ Own, v \in Stat : Change(p, v)
    \/ OnEvent \/ Flush \/ SignalRescan \/ ReceiveLate \/ RescanWake
    \/ \E t \in Fetcher :
          \/ ReceiveSnapshot(t) \/ LoadSnapshot(t) \/ SignalIncomplete(t)
          \/ \E p \in Path : ScanEntry(t, p)

NextW == \/ Snapshots \/ Mutate \/ ReceiveBatch
         \/ Inherited /\ UNCHANGED writeVars

SpecW == InitW /\ [][NextW]_wvars
-----------------------------------------------------------------------------
(* Properties *)

TypeOKW ==
    /\ disk \in [Path -> Stat]
    /\ mirror \in [Path -> Val]
    /\ localMut \in [Path -> 0..generation]
    /\ sent \in 0..MaxMutations /\ lost \in 0..MaxLost
    /\ mutation # None => mutation.kind \in Kinds /\ mutation.live
    /\ reply # None => /\ mutation # None
                       /\ mutation.kind = "create" /\ reply.ok => reply.attr \in Stat
    /\ working # None => requests # <<>> /\ Head(requests).kind \in Kinds

\* The agent has begun to answer a re-fetch, whose snapshot may be loaded.
Refetched == snapGen["rescan"] # 0

\* client.hpp:157 "so an immediate stat/read is consistent": while no call is
\* outstanding, a path that only this client changes shows what its last
\* mutation left there, or made-up attributes of something that does exist.
\* An operation resolved before the mutation and delivered after it never
\* undoes it (apply_invalidation's filter against handle_mutation's ack).
\* A re-fetch, which may load an older snapshot, and a call that fails although
\* the disk was changed end this promise; rename is outside it.
ReadYourWrites ==
    loaded /\ lost = 0 /\ ~Refetched /\ mutation = None =>
        \A p \in Own : \/ mirror[p] = Seen(p)
                       \/ mirror[p] = Guess /\ disk[p] # Absent

\* The price of the filter is confined: the mirror loses track of the disk only
\* on a path whose noted mutation no newer batch has retired.  Everywhere else
\* NoLostChange still holds, with mutations, timeouts and re-fetches going on
\* (apply_invalidation retires a note only when it applies the operation).
DriftOnlyWhereNoted ==
    loaded /\ failures = 0 =>
        \A p \in Path : localMut[p] = 0 => mirror[p] = Seen(p) \/ Underway(p)

\* client.hpp:282 "the mutation's own watcher events follow in a newer batch":
\* when the reader is about to discard an operation as stale, something newer
\* for the path is still on its way.
OwnEventsFollow ==
    chan # <<>> /\ Head(chan).kind = "batch" =>
        \A p \in Stale(Head(chan)) : Head(chan).ops[p] # NoOp => Pursued(p, 1)

\* No mutation is on its way and nothing is left for the mirror to apply.
Settled == Quiet /\ requests = <<>> /\ mutation = None

\* client.hpp:159 "the server's watcher also pushes an invalidation that
\* reconciles any drift": a settled mirror shows the disk.
Reconciled == loaded /\ Settled => \A p \in Path : mirror[p] = Seen(p)
=============================================================================
