------------------------------ MODULE Requests -------------------------------
(***************************************************************************)
(* RemoteRoot's request table (client.cpp): threads that call request(),   *)
(* the reader thread that matches replies to pending requests, the loss of *)
(* the connection, and close().  Workers are the threads close() joins:    *)
(* prefetch_loop and rescan_loop.                                          *)
(*                                                                         *)
(* A request is its id.  The agent answers with one frame, or streams a    *)
(* snapshot over several.                                                  *)
(***************************************************************************)
EXTENDS Integers, Sequences, FiniteSets

CONSTANTS
    Caller,      \* threads that call request()
    Worker,      \* ... those that close() joins
    MaxRequests, \* bound: requests made
    MaxFrames    \* bound: frames on their way to the client

ASSUME RequestAssumption ==
    /\ Worker \subseteq Caller /\ IsFiniteSet(Caller)
    /\ MaxRequests \in Nat /\ MaxFrames \in Nat \ {0}

VARIABLES
    closed,  \* closed_
    sock,    \* "open", "eof" once the agent is gone, "shut" by close()
    nextId,  \* next_request_
    pc,      \* where each caller is in request()
    id,      \* the id of its current request
    pending, \* the ids in pending_
    done,    \* the ids whose Pending is done
    asked,   \* requests the agent has not finished answering
    frames,  \* frames on their way to the client
    reader,  \* where reader_loop is
    held,    \* the frame it is delivering
    failing, \* ids swapped out of pending_ by fail_all_pending, per thread
    closer   \* where close() is

callVars == <<nextId, pc, id>>
linkVars == <<sock, asked, frames>>
readVars == <<reader, held>>
vars == <<closed, callVars, pending, done, linkVars, readVars, failing, closer>>

Failer == {"reader", "closer"}
Frame == [id : Nat, stream : BOOLEAN, more : BOOLEAN]
NoFrame == [id |-> 0, stream |-> FALSE, more |-> FALSE]

Init ==
    /\ closed = FALSE /\ sock = "open"
    /\ nextId = 1
    /\ pc = [c \in Caller |-> "idle"] /\ id = [c \in Caller |-> 0]
    /\ pending = {} /\ done = {}
    /\ asked = <<>> /\ frames = <<>>
    /\ reader = "receive" /\ held = NoFrame
    /\ failing = [f \in Failer |-> {}]
    /\ closer = "open"

-----------------------------------------------------------------------------
(* request() *)

\* The check of closed_ at the top.
Check(c) ==
    /\ pc[c] = "idle" /\ ~closed
    /\ nextId + Cardinality({d \in Caller : pc[d] = "checked"}) <= MaxRequests
    /\ pc' = [pc EXCEPT ![c] = "checked"]
    /\ UNCHANGED <<closed, nextId, id, pending, done, linkVars, readVars,
                   failing, closer>>

Register(c) ==
    /\ pc[c] = "checked"
    /\ pc' = [pc EXCEPT ![c] = "registered"]
    /\ id' = [id EXCEPT ![c] = nextId]
    /\ nextId' = nextId + 1
    /\ pending' = pending \cup {nextId}
    /\ UNCHANGED <<closed, done, linkVars, readVars, failing, closer>>

\* A send after the agent is gone may still succeed; nobody will answer it.
Send(c) ==
    /\ pc[c] = "registered"
    /\ sock # "shut"
    /\ pc' = [pc EXCEPT ![c] = "waiting"]
    /\ asked' = IF sock = "open" THEN Append(asked, id[c]) ELSE asked
    /\ UNCHANGED <<closed, nextId, id, pending, done, sock, frames, readVars,
                   failing, closer>>

\* Mutant of SendFails: the request stays registered.
SendFailsKept(c) ==
    /\ pc[c] = "registered"
    /\ pc' = [pc EXCEPT ![c] = "idle"]
    /\ UNCHANGED <<closed, nextId, id, pending, done, linkVars, readVars,
                   failing, closer>>

SendFails(c) ==
    /\ pc[c] = "registered"
    /\ pending' = pending \ {id[c]}
    /\ pc' = [pc EXCEPT ![c] = "idle"]
    /\ UNCHANGED <<closed, nextId, id, done, linkVars, readVars, failing,
                   closer>>

Return(c) ==
    /\ pc[c] = "waiting" /\ id[c] \in done
    /\ pc' = [pc EXCEPT ![c] = "idle"]
    /\ UNCHANGED <<closed, nextId, id, pending, done, linkVars, readVars,
                   failing, closer>>

\* Mutant of TimeOut: a lost connection is left to fail_all_pending.
TimeOutConnected(c) ==
    /\ pc[c] = "waiting" /\ id[c] \notin done /\ ~closed
    /\ pending' = pending \ {id[c]}
    /\ pc' = [pc EXCEPT ![c] = "idle"]
    /\ UNCHANGED <<closed, nextId, id, done, linkVars, readVars, failing,
                   closer>>

TimeOut(c) ==
    /\ pc[c] = "waiting" /\ id[c] \notin done
    /\ pending' = pending \ {id[c]}
    /\ pc' = [pc EXCEPT ![c] = "idle"]
    /\ UNCHANGED <<closed, nextId, id, done, linkVars, readVars, failing,
                   closer>>

\* A worker between two requests sees pf_stop_ or rs_stop_ and returns.
WorkerExits(c) ==
    /\ c \in Worker /\ pc[c] = "idle" /\ closer # "open"
    /\ pc' = [pc EXCEPT ![c] = "gone"]
    /\ UNCHANGED <<closed, nextId, id, pending, done, linkVars, readVars,
                   failing, closer>>

-----------------------------------------------------------------------------
(* The agent and the connection *)

Answer(stream, more) ==
    /\ sock = "open" /\ asked # <<>>
    /\ Len(frames) < MaxFrames
    /\ more => stream
    /\ frames' = Append(frames, [id |-> Head(asked), stream |-> stream,
                                 more |-> more])
    /\ asked' = IF more THEN asked ELSE Tail(asked)
    /\ UNCHANGED <<closed, callVars, pending, done, sock, readVars, failing,
                   closer>>

Disconnect ==
    /\ sock = "open"
    /\ sock' = "eof" /\ asked' = <<>>
    /\ UNCHANGED <<closed, callVars, pending, done, frames, readVars, failing,
                   closer>>

-----------------------------------------------------------------------------
(* reader_loop *)

\* Mutant of Receive: every frame takes its request out of the table.
ReceiveErasing ==
    /\ reader = "receive" /\ frames # <<>>
    /\ frames' = Tail(frames)
    /\ LET f == Head(frames) IN
       IF f.id \in pending
       THEN /\ reader' = "deliver" /\ held' = f
            /\ pending' = pending \ {f.id}
       ELSE UNCHANGED <<reader, held, pending>>
    /\ UNCHANGED <<closed, callVars, done, sock, asked, failing, closer>>

\* A frame is received (a buffered one also while closing) and looked up under
\* pending_mu_.  A reply to a request that is no longer pending is dropped; a
\* streamed chunk leaves its request registered, any other reply takes it out.
Receive ==
    /\ reader = "receive" /\ frames # <<>>
    /\ frames' = Tail(frames)
    /\ LET f == Head(frames) IN
       IF f.id \in pending
       THEN /\ reader' = "deliver" /\ held' = f
            /\ pending' = IF f.stream THEN pending ELSE pending \ {f.id}
       ELSE UNCHANGED <<reader, held, pending>>
    /\ UNCHANGED <<closed, callVars, done, sock, asked, failing, closer>>

\* The Pending is filled in under its own lock and its waiter notified.
Deliver ==
    /\ reader = "deliver"
    /\ done' = IF held.more THEN done ELSE done \cup {held.id}
    /\ reader' = IF held.stream /\ ~held.more THEN "erase" ELSE "receive"
    /\ UNCHANGED <<closed, callVars, pending, linkVars, held, failing, closer>>

\* A stream that is complete is taken out of the table last.
Erase ==
    /\ reader = "erase"
    /\ pending' = pending \ {held.id}
    /\ reader' = "receive"
    /\ UNCHANGED <<closed, callVars, done, linkVars, held, failing, closer>>

Leave ==
    /\ reader = "receive"
    /\ closed' = TRUE
    /\ reader' = "swap"
    /\ UNCHANGED <<callVars, pending, done, linkVars, held, failing, closer>>

\* closed_ is seen set, or receive() meets the end of the stream.
ReaderEnds ==
    /\ closed \/ sock = "shut" \/ (sock = "eof" /\ frames = <<>>)
    /\ Leave

\* receive() fails on the frame at the head: malformed, too large, cut short.
BadFrame == frames # <<>> /\ Leave

-----------------------------------------------------------------------------
(* fail_all_pending, called by the reader as it ends and by close() *)

Swap(f) ==
    /\ failing' = [failing EXCEPT ![f] = pending]
    /\ pending' = {}

ReaderSwaps ==
    /\ reader = "swap" /\ reader' = "fail"
    /\ Swap("reader")
    /\ UNCHANGED <<closed, callVars, done, linkVars, held, closer>>

FailOne(f) ==
    /\ \E i \in failing[f] : /\ done' = done \cup {i}
                             /\ failing' = [failing EXCEPT ![f] = @ \ {i}]
    /\ UNCHANGED <<closed, callVars, pending, linkVars, readVars, closer>>

ReaderGone ==
    /\ reader = "fail" /\ failing["reader"] = {}
    /\ reader' = "gone"
    /\ UNCHANGED <<closed, callVars, pending, done, linkVars, held, failing,
                   closer>>

-----------------------------------------------------------------------------
(* close() *)

CloseBegins ==
    /\ closer = "open" /\ closer' = "shutdown"
    /\ closed' = TRUE
    /\ UNCHANGED <<callVars, pending, done, linkVars, readVars, failing>>

CloseShutsDown ==
    /\ closer = "shutdown" /\ closer' = "join"
    /\ sock' = "shut"
    /\ UNCHANGED <<closed, callVars, pending, done, asked, frames, readVars,
                   failing>>

\* Mutant of CloseSwaps: the reader's own fail_all_pending is relied upon.
CloseSwapsNot ==
    /\ closer = "join" /\ reader = "gone"
    /\ closer' = "fail"
    /\ UNCHANGED <<closed, callVars, pending, done, linkVars, readVars, failing>>

\* The reader is joined, then what is left in the table is failed.
CloseSwaps ==
    /\ closer = "join" /\ reader = "gone"
    /\ closer' = "fail"
    /\ Swap("closer")
    /\ UNCHANGED <<closed, callVars, done, linkVars, readVars>>

CloseFailed ==
    /\ closer = "fail" /\ failing["closer"] = {}
    /\ closer' = "joinWorkers"
    /\ UNCHANGED <<closed, callVars, pending, done, linkVars, readVars, failing>>

CloseReturned ==
    /\ closer = "joinWorkers"
    /\ \A w \in Worker : pc[w] = "gone"
    /\ closer' = "done"
    /\ UNCHANGED <<closed, callVars, pending, done, linkVars, readVars, failing>>

-----------------------------------------------------------------------------
Call(c) == \/ Register(c) \/ Send(c) \/ SendFails(c) \/ Return(c)
           \/ WorkerExits(c)
Read == \/ Receive \/ Deliver \/ Erase \/ ReaderEnds \/ ReaderSwaps
        \/ FailOne("reader") \/ ReaderGone
Close == \/ CloseShutsDown \/ CloseSwaps \/ FailOne("closer") \/ CloseFailed
         \/ CloseReturned

Next == \/ \E c \in Caller : Check(c) \/ Call(c) \/ TimeOut(c)
        \/ \E s, m \in BOOLEAN : Answer(s, m)
        \/ Disconnect \/ BadFrame \/ CloseBegins \/ Read \/ Close

Spec == Init /\ [][Next]_vars

\* Every thread of the client keeps running.  Nothing is assumed of the agent,
\* of timeouts, or of anybody calling close().
FairSpec == /\ Spec /\ WF_vars(Read) /\ WF_vars(Close)
            /\ \A c \in Caller : WF_vars(Call(c))

\* The timeouts of wait_for elapse.
TimeoutsElapse == \A c \in Caller : WF_vars(TimeOut(c))

-----------------------------------------------------------------------------
(* Properties *)

TypeOK ==
    /\ closed \in BOOLEAN /\ sock \in {"open", "eof", "shut"}
    /\ nextId \in Nat \ {0}
    /\ pc \in [Caller -> {"idle", "checked", "registered", "waiting", "gone"}]
    /\ id \in [Caller -> Nat]
    /\ pending \in SUBSET (1 .. nextId - 1) /\ done \in SUBSET Nat
    /\ asked \in Seq(Nat) /\ frames \in Seq(Frame)
    /\ reader \in {"receive", "deliver", "erase", "swap", "fail", "gone"}
    /\ held \in Frame
    /\ failing \in [Failer -> SUBSET Nat]
    /\ closer \in {"open", "shutdown", "join", "fail", "joinWorkers", "done"}

InCall(c) == pc[c] \in {"registered", "waiting"}

\* No wake-up is lost: a caller that waits and is not done is in the table,
\* is the one the reader is delivering to, or is being failed.  Concerns the
\* gap between the table's lock and the Pending's own lock in reader_loop,
\* fail_all_pending and request.
WaitersAreOwed ==
    \A c \in Caller : pc[c] = "waiting" /\ id[c] \notin done =>
        \/ id[c] \in pending
        \/ reader = "deliver" /\ held.id = id[c]
        \/ \E f \in Failer : id[c] \in failing[f]

\* The table does not leak: what is in it belongs to a call in progress, or is
\* a completed stream the reader is about to take out.  Concerns the erases on
\* a failed send, on a timeout and on each kind of reply.
TableIsLive ==
    \A i \in pending : \/ \E c \in Caller : InCall(c) /\ id[c] = i
                       \/ reader = "erase" /\ held.id = i

\* client.cpp:39 "releases any in-flight prefetch read_many or rescan snapshot
\* request": once close() is past its fail_all_pending no caller is left
\* waiting, not even one that registered after the reader had cleared the table.
ClosedReleasesAll ==
    closer \in {"joinWorkers", "done"} =>
        \A c \in Caller : pc[c] = "waiting" => id[c] \in done

\* close() returns, with no timeout having to elapse: its joins of the reader
\* and of the workers are never held up by a request nobody will answer.
CloseReturns == closer = "shutdown" ~> closer = "done"

\* Every call ends once timeouts elapse, also one made while the connection was
\* being lost, which nobody else will end.
EveryCallEnds == TimeoutsElapse => \A c \in Caller : InCall(c) ~> ~InCall(c)
-----------------------------------------------------------------------------
(* The inductive strengthening *)

Issued == 1 .. nextId - 1

\* Ids are given out once.
IdsUnique ==
    /\ done \subseteq Issued
    /\ \A c \in Caller : InCall(c) => id[c] \in Issued
    /\ \A c, d \in Caller : InCall(c) /\ InCall(d) /\ id[c] = id[d] => c = d

\* What the reader holds, and what it has done with it.
ReaderHolds ==
    /\ \A i \in 1..Len(frames) : frames[i].more => frames[i].stream
    /\ held.more => held.stream
    /\ reader = "deliver" => held.id \in Issued
    /\ reader = "deliver" /\ ~held.stream => held.id \notin pending
    /\ reader = "erase" => held.id \in done
    /\ \A i \in pending \cap done : reader = "erase" /\ held.id = i

\* The two runs of fail_all_pending, and the order of close().
Failing ==
    /\ \A f \in Failer : failing[f] \subseteq Issued \ pending
    /\ reader # "fail" => failing["reader"] = {}
    /\ closer # "fail" => failing["closer"] = {}
    /\ closer \notin {"open", "shutdown"} => sock = "shut"
    /\ closer \in {"fail", "joinWorkers", "done"} => reader = "gone"

\* A call in progress that is not done will be: by a frame or by a failure.
Owed(c) == \/ id[c] \in pending
           \/ reader = "deliver" /\ ~held.more /\ held.id = id[c]
           \/ \E f \in Failer : id[c] \in failing[f]
CallsOwed == \A c \in Caller : InCall(c) /\ id[c] \notin done => Owed(c)

\* After the second fail_all_pending every waiting caller is done or its turn
\* to be failed is coming.
Released ==
    closer \in {"fail", "joinWorkers", "done"} =>
        \A c \in Caller : pc[c] = "waiting" => id[c] \in done \cup failing["closer"]

\* The inductive invariant behind WaitersAreOwed, TableIsLive and
\* ClosedReleasesAll.
IInv == /\ TypeOK /\ IdsUnique /\ ReaderHolds /\ Failing
        /\ CallsOwed /\ TableIsLive /\ Released
=============================================================================
