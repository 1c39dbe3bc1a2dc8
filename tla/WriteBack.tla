------------------------------ MODULE WriteBack ------------------------------
(***************************************************************************)
(* Writing a file through the mount.  Without --writeback every write goes *)
(* to the agent at once; with it each open file has a buffer that holds    *)
(* one contiguous run of writes until something flushes it.  The FUSE loop *)
(* serves one request at a time, so a handler is one step; what varies is  *)
(* the order of requests of several open files and which flushes fail.     *)
(*                                                                         *)
(* posix is what the file would hold if every accepted request had been    *)
(* carried out at once; remote is what the agent's file holds.             *)
(* Source: src/src/mount/fuse_mount.cpp                                    *)
(***************************************************************************)
EXTENDS Integers, Sequences, SequencesExt

CONSTANTS Handle,        \* open files
          Datum, Zero,   \* bytes, and the one a hole reads as
          MaxSize,       \* largest file
          WriteBackCap,  \* kWriteBackCap
          MaxRequests,   \* bound on the requests that change something
          MaxFailed      \* bound on failed writes to the agent

ASSUME WriteBackConstants ==
    /\ Zero \notin Datum /\ MaxSize \in Nat /\ WriteBackCap \in Nat \ {0}
    /\ MaxRequests \in Nat /\ MaxFailed \in Nat

VARIABLES writeback,  \* the mount's mode
          handle,     \* WriteHandle of each open file, or NoHandle
          remote, posix,
          crossed,    \* a request met bytes another one's buffer still held
          broken,     \* the caller was told that a write or a close failed
          readOK,     \* every read returned what posix holds
          sent, failed

wbVars == <<writeback, handle, remote, posix, crossed, broken, readOK, sent, failed>>

NoHandle == [open |-> FALSE, start |-> 0, buf |-> <<>>]
Opened == {h \in Handle : handle[h].open}
Buffered == {h \in Handle : handle[h].buf # <<>>}

\* The file after data is written at off, and after it is cut or extended.
Put(f, off, data) ==
    [i \in 1..(IF off + Len(data) > Len(f) THEN off + Len(data) ELSE Len(f)) |->
        CASE i > off /\ i <= off + Len(data) -> data[i - off]
          [] i <= off /\ i > Len(f) -> Zero
          [] OTHER -> f[i]]
Cut(f, n) == [i \in 1..n |-> IF i <= Len(f) THEN f[i] ELSE Zero]

WBInit ==
    /\ writeback \in BOOLEAN
    /\ handle = [h \in Handle |-> NoHandle]
    /\ remote = <<>> /\ posix = <<>>
    /\ crossed = FALSE /\ broken = FALSE /\ readOK = TRUE /\ sent = 0 /\ failed = 0

-----------------------------------------------------------------------------
\* flush_handle: nothing to do, or the run is written and the buffer restarts
\* behind it; when the write fails the buffer stays.
FlushOk(h, f) == IF handle[h].buf = <<>> THEN f ELSE Put(f, handle[h].start, handle[h].buf)
Flushed(h) == [open |-> TRUE, start |-> handle[h].start + Len(handle[h].buf), buf |-> <<>>]
Fails(h) == handle[h].buf # <<>> /\ failed < MaxFailed /\ failed' = failed + 1
Works(h) == UNCHANGED failed

\* op_open; op_create gives the file it makes a handle in the same way.
Open(h) ==
    /\ ~handle[h].open /\ sent < MaxRequests
    /\ handle' = [handle EXCEPT ![h] = [NoHandle EXCEPT !.open = TRUE]]
    /\ UNCHANGED <<writeback, remote, posix, crossed, broken, readOK, sent, failed>>

\* A request that works on the file while another open file still buffers
\* bytes of it (or, for truncate, while any does).
Crosses(others) == crossed' = (crossed \/ others \cap Buffered # {})

\* Mutant of Extend: any write is appended to the buffer, contiguous or not.
ExtendAnywhere(h, off, data) == TRUE

\* Only a write contiguous with the buffer extends it.
Extend(h, off, data) ==
    handle[h].buf = <<>> \/ off = handle[h].start + Len(handle[h].buf)

\* op_write in write-back mode: flush a run that does not continue, buffer,
\* flush again at the cap.  A failed first flush refuses the bytes; a failed
\* second one reports an error for bytes that stay buffered.
WriteBuffered(h, off, data) ==
    LET restart == ~Extend(h, off, data)
        base == IF restart THEN Flushed(h) ELSE handle[h]
        run == [open |-> TRUE, start |-> IF base.buf = <<>> THEN off ELSE base.start,
                buf |-> base.buf \o data]
        file == IF restart THEN FlushOk(h, remote) ELSE remote
        full == Len(run.buf) >= WriteBackCap
    IN  \/ /\ restart /\ Fails(h) /\ broken' = TRUE
           /\ UNCHANGED <<handle, remote, posix>>
        \/ /\ posix' = Put(posix, off, data)
           /\ \/ /\ Works(h) /\ UNCHANGED broken
                 /\ handle' = [handle EXCEPT ![h] =
                       IF full THEN [run EXCEPT !.start = run.start + Len(run.buf), !.buf = <<>>]
                               ELSE run]
                 /\ remote' = IF full THEN Put(file, run.start, run.buf) ELSE file
              \/ /\ full /\ failed < MaxFailed /\ failed' = failed + 1 /\ broken' = TRUE
                 /\ handle' = [handle EXCEPT ![h] = run] /\ remote' = file

\* A request the agent refuses has no effect, and the caller is told.
Refused ==
    /\ failed < MaxFailed /\ failed' = failed + 1 /\ broken' = TRUE
    /\ UNCHANGED <<remote, posix>>

\* ... and without it: straight to the agent.
WriteThroughNow(off, data) ==
    /\ \/ /\ remote' = Put(remote, off, data) /\ posix' = Put(posix, off, data)
          /\ UNCHANGED <<broken, failed>>
       \/ Refused
    /\ UNCHANGED handle

Write(h, off, data) ==
    /\ handle[h].open /\ sent < MaxRequests /\ sent' = sent + 1
    /\ off + Len(data) <= MaxSize
    /\ IF writeback THEN WriteBuffered(h, off, data) ELSE WriteThroughNow(off, data)
    /\ Crosses(Handle \ {h})
    /\ UNCHANGED <<writeback, readOK>>

\* op_flush and op_fsync
Flush(h) ==
    /\ handle[h].open
    /\ \/ /\ Works(h) /\ remote' = FlushOk(h, remote) /\ UNCHANGED broken
          /\ handle' = [handle EXCEPT ![h] = Flushed(h)]
       \/ Fails(h) /\ broken' = TRUE /\ UNCHANGED <<remote, handle>>
    /\ UNCHANGED <<writeback, posix, crossed, readOK, sent>>

\* op_release: the handle goes, and with it what a failed flush left in it.
Release(h) ==
    /\ handle[h].open
    /\ \/ Works(h) /\ remote' = FlushOk(h, remote) /\ UNCHANGED broken
       \/ Fails(h) /\ broken' = TRUE /\ UNCHANGED remote
    /\ handle' = [handle EXCEPT ![h] = NoHandle]
    /\ UNCHANGED <<writeback, posix, crossed, readOK, sent>>

\* op_truncate: to the agent at once; the buffers are left as they are.
Truncate(n) ==
    /\ sent < MaxRequests /\ sent' = sent + 1
    /\ \/ /\ remote' = Cut(remote, n) /\ posix' = Cut(posix, n)
          /\ UNCHANGED <<broken, failed>>
       \/ Refused
    /\ Crosses(Handle)
    /\ UNCHANGED <<writeback, handle, readOK>>

\* op_read: the open file's own buffer goes out first, then the agent's file
\* is read.  Reading what another open file buffers is the crossed case.
Read(h) ==
    /\ handle[h].open
    /\ \/ /\ Works(h) /\ remote' = FlushOk(h, remote)
          /\ handle' = [handle EXCEPT ![h] = Flushed(h)]
          /\ Crosses(Handle \ {h})
          /\ readOK' = (readOK /\ (crossed' \/ broken \/ remote' = posix))
          /\ UNCHANGED broken
       \/ Fails(h) /\ broken' = TRUE /\ UNCHANGED <<remote, handle, crossed, readOK>>
    /\ UNCHANGED <<writeback, posix, sent>>

Data == {<<d>> : d \in Datum} \cup {<<d, d>> : d \in Datum}

WBNext ==
    \/ \E h \in Handle : Open(h) \/ Flush(h) \/ Release(h) \/ Read(h)
    \/ \E h \in Handle, off \in 0..(MaxSize - 1), data \in Data : Write(h, off, data)
    \/ \E n \in 0..MaxSize : Truncate(n)

WBSpec == WBInit /\ [][WBNext]_wbVars

-----------------------------------------------------------------------------
\* Putting off a write changes when it reaches the agent and nothing else, as
\* long as no request meets another open file's buffered bytes: the agent's
\* file with the buffers laid over it is the file an unbuffered mount would
\* have, flushes that failed included; reads return it.
BufferingIsTransparent ==
    ~crossed =>
        /\ readOK
        /\ ~broken => \/ Buffered = {} /\ remote = posix
                      \/ \E h \in Buffered : FlushOk(h, remote) = posix

\* fuse_mount.hpp:33 "fewer round-trips, at the cost of durability only at
\* flush/close": once everything is flushed and nothing has failed, the file
\* is the one the requests describe.
DurabilityIsTheOnlyCost == Buffered = {} /\ ~broken => remote = posix
=============================================================================
