------------------------------ MODULE ReadCache ------------------------------
(***************************************************************************)
(* The client's caches of file contents and link targets, kept by path.    *)
(* A file's entry is used only while the (mtime, size) it was fetched      *)
(* under is still the mirror's; a link's has no version.  Three threads    *)
(* touch them: the caller (the mount serves one request at a time), the    *)
(* prefetcher, and the reader that applies the agent's invalidations.  The *)
(* agent answers one connection's requests in order.                       *)
(*                                                                         *)
(* The served tree is one directory of files and links.  A content is a    *)
(* number that grows with every change, so that "older" can be said of     *)
(* two contents of one path.                                               *)
(* Source: src/src/agent/client.cpp, src/src/agent/server.cpp              *)
(***************************************************************************)
EXTENDS Integers, Sequences, SequencesExt, FiniteSets, FiniteSetsExt, Functions

CONSTANTS File, Link,   \* the names in the directory
          Target,       \* the files that are read and changed by name
          Cap,          \* rcache_cap_
          BatchCap,     \* the 256 files of one read-ahead batch
          MaxChanges,   \* bound on the far side's changes
          MaxCalls      \* bound on the caller's operations

ASSUME CacheConstants ==
    /\ File \cap Link = {} /\ Target \subseteq File /\ Cap \in Nat /\ BatchCap \in Nat \ {0}
    /\ MaxChanges \in Nat /\ MaxCalls \in Nat

VARIABLES
    disk,     \* the served files: content number, and whether it is there
    clock,    \* the newest content number
    dirty,    \* paths with a watcher event not yet in a batch
    gen,      \* generation_
    flush,    \* the batch the agent is resolving
    inbox,    \* requests the agent has not answered
    chan,     \* frames on their way to the client's reader
    erasing,  \* the path whose cached data the reader is about to drop
    tree,     \* the mirror: mtime per path, or NoFile
    noted,    \* local_mutations_
    known,    \* the content the mirror describes
    cache, lru, bytes,  \* rcache_, lru_, rcache_bytes_
    links,    \* link_cache_
    call,     \* the caller and the prefetcher: what each is doing
    queued,   \* how often pf_queue_ holds the directory
    seen,     \* pf_seen_ holds the directory
    pending,  \* pf_pending_
    warmed,   \* warm_cache ran
    stale,    \* paths the caller has read something outdated of
    farSide, calls

agentVars == <<disk, clock, dirty, gen, flush>>
cacheVars == <<cache, lru, bytes>>
prefetchVars == <<queued, seen, pending, warmed>>
vars == <<agentVars, inbox, chan, erasing, tree, noted, known, cacheVars, links, call,
          prefetchVars, stale, farSide, calls>>

Name == File \cup Link
NoFile == 0
None == "None"
Thread == {"caller", "prefetch"}
NoBatch == [path |-> None, gen |-> 0]
Idle == [at |-> "idle", op |-> None, path |-> None, meta |-> <<>>, floor |-> 0, got |-> <<>>]

\* A content's mtime on the agent's clock, and the client's clock when it
\* learns of the content; the client's is ahead (README, "Clocks").
Mtime(v) == v
Ahead == 100
Now(v) == Ahead + v
BumpMtime(previous, v) == Max({Now(v), previous + 1})

\* Contents come in two sizes.
Size(v) == 1 + (v % 2)

-----------------------------------------------------------------------------
(* The cache: operations on [entries, lru, bytes] *)

Cached(c, p) == p \in DOMAIN c.entries

CacheErase(c, p) ==
    IF ~Cached(c, p) THEN c
    ELSE [entries |-> Restrict(c.entries, DOMAIN c.entries \ {p}),
          lru |-> SelectSeq(c.lru, LAMBDA q : q # p),
          bytes |-> c.bytes - Size(c.entries[p].data)]

\* Drop from the cold end until the budget is met; the last entry stays.
EvictLocked(c) ==
    LET fits(k) == FoldSet(LAMBDA p, n : n - Size(c.entries[p].data), c.bytes,
                           {c.lru[i] : i \in (Len(c.lru) - k + 1)..Len(c.lru)}) <= Cap
        k == Min({n \in 0..Max({0, Len(c.lru) - 1}) : fits(n)}
                 \cup {Max({0, Len(c.lru) - 1})})
        victims == {c.lru[i] : i \in (Len(c.lru) - k + 1)..Len(c.lru)}
    IN  FoldSet(LAMBDA p, d : CacheErase(d, p), c, victims)

\* Mutant of CachePut: the entry it replaces is not erased first.
CachePutOver(c, p, mtime, v) ==
    EvictLocked([entries |-> (p :> [mtime |-> mtime, data |-> v]) @@ c.entries,
                 lru |-> <<p>> \o SelectSeq(c.lru, LAMBDA q : q # p),
                 bytes |-> c.bytes + Size(v)])

CachePut(c, p, mtime, v) ==
    LET d == CacheErase(c, p) IN
    EvictLocked([entries |-> (p :> [mtime |-> mtime, data |-> v]) @@ d.entries,
                 lru |-> <<p>> \o d.lru, bytes |-> d.bytes + Size(v)])

Cache == [entries |-> cache, lru |-> lru, bytes |-> bytes]
Becomes(c) == cache' = c.entries /\ lru' = c.lru /\ bytes' = c.bytes

\* An entry is good for a read that found this mtime in the mirror.  (The
\* code compares the size as well, which can only make it fetch more often.)
Valid(p, mtime) == p \in DOMAIN cache /\ cache[p].mtime = mtime

-----------------------------------------------------------------------------
Init ==
    /\ disk = [p \in Name |-> [data |-> 1, here |-> TRUE]] /\ clock = 1
    /\ dirty = {} /\ gen = 1 /\ flush = NoBatch /\ inbox = <<>> /\ chan = <<>>
    /\ erasing = None /\ tree = [p \in Name |-> Mtime(1)]
    /\ noted = [p \in Name |-> 0] /\ known = [p \in Name |-> 1]
    /\ cache = <<>> /\ lru = <<>> /\ bytes = 0 /\ links = <<>>
    /\ call = [t \in Thread |-> Idle]
    /\ queued = 0 /\ seen = FALSE /\ pending = 0 /\ warmed = FALSE
    /\ stale = {} /\ farSide = 0 /\ calls = 0

(* The agent *)
ClientFrame == UNCHANGED <<erasing, tree, noted, known, cacheVars, links, call, prefetchVars,
                           stale, calls>>

FarChange(p) == \E here \in BOOLEAN :
    /\ farSide < MaxChanges /\ farSide' = farSide + 1
    /\ here \/ disk[p].here
    /\ clock' = clock + 1 /\ disk' = [disk EXCEPT ![p] = [data |-> clock + 1, here |-> here]]
    /\ dirty' = dirty \cup {p}
    /\ UNCHANGED <<gen, flush, inbox, chan>> /\ ClientFrame

\* flush_loop: the batch gets its generation, then every path is resolved.
StampBatch(p) ==
    /\ flush = NoBatch /\ p \in dirty
    /\ dirty' = dirty \ {p} /\ gen' = gen + 1 /\ flush' = [path |-> p, gen |-> gen + 1]
    /\ UNCHANGED <<disk, clock, inbox, chan, farSide>> /\ ClientFrame

Broadcast ==
    /\ flush # NoBatch /\ flush' = NoBatch
    /\ chan' = Append(chan, [kind |-> "event", path |-> flush.path, gen |-> flush.gen,
                             is |-> disk[flush.path]])
    /\ UNCHANGED <<disk, clock, dirty, gen, inbox, farSide>> /\ ClientFrame

\* send_read, send_read_many, send_readlink: the contents as they are now.
ServeRead ==
    /\ inbox # <<>> /\ Head(inbox).op \in {"read", "readlink"}
    /\ LET q == Head(inbox)
           found == {p \in DOMAIN q.meta : disk[p].here}
       IN  chan' = Append(chan, [kind |-> "reply", to |-> q.from, gen |-> 0,
                                 got |-> [p \in found |-> disk[p].data]])
    /\ inbox' = Tail(inbox)
    /\ UNCHANGED <<agentVars, farSide>> /\ ClientFrame

\* handle_mutation: write makes a file that is not there, create replaces one;
\* unlink of what is gone fails.
ServeMutation ==
    /\ inbox # <<>> /\ Head(inbox).op \in {"write", "create", "unlink"}
    /\ LET q == Head(inbox)
           p == q.path
           ok == q.op = "unlink" => disk[p].here
       IN  /\ IF ok
              THEN /\ clock' = clock + 1 /\ dirty' = dirty \cup {p}
                   /\ disk' = [disk EXCEPT ![p] = [data |-> clock + 1, here |-> q.op # "unlink"]]
              ELSE UNCHANGED <<clock, dirty, disk>>
           /\ chan' = Append(chan, [kind |-> "reply", to |-> q.from, gen |-> gen,
                                    got |-> IF ok THEN p :> (clock + 1) ELSE <<>>])
    /\ inbox' = Tail(inbox)
    /\ UNCHANGED <<gen, flush, farSide>> /\ ClientFrame

-----------------------------------------------------------------------------
(* The client's reader thread *)
ReaderFrame == UNCHANGED <<agentVars, inbox, farSide, calls, stale, queued, pending, warmed>>

Deliver ==
    /\ erasing = None /\ chan # <<>> /\ Head(chan).kind = "reply"
    /\ LET m == Head(chan) IN
       call' = [call EXCEPT ![m.to].at = "got", ![m.to].got = m]
    /\ chan' = Tail(chan)
    /\ UNCHANGED <<erasing, tree, noted, known, cacheVars, links, seen>> /\ ReaderFrame

\* apply_invalidation under the tree lock: an operation resolved before this
\* client's own change of the path leaves the tree alone.
ApplyTree ==
    /\ erasing = None /\ chan # <<>> /\ Head(chan).kind = "event"
    /\ LET m == Head(chan)
           p == m.path
           fresh == m.gen > noted[p]
       IN  /\ tree' = IF fresh THEN [tree EXCEPT ![p] = IF m.is.here THEN Mtime(m.is.data)
                                                                     ELSE NoFile]
                               ELSE tree
           /\ noted' = IF fresh THEN [noted EXCEPT ![p] = 0] ELSE noted
           /\ known' = IF fresh THEN [known EXCEPT ![p] = m.is.data] ELSE known
           /\ erasing' = p
    /\ chan' = Tail(chan)
    /\ UNCHANGED <<cacheVars, links, call, seen>> /\ ReaderFrame

\* ... and then under the cache's: whatever is cached for the path goes.
EraseCached ==
    /\ erasing # None /\ erasing' = None
    /\ Becomes(CacheErase(Cache, erasing))
    /\ links' = Restrict(links, DOMAIN links \ {erasing})
    /\ seen' = FALSE
    /\ UNCHANGED <<chan, tree, noted, known, call>> /\ ReaderFrame

-----------------------------------------------------------------------------
(* The caller: read, readlink and the mutations *)
CallFrame == UNCHANGED <<agentVars, chan, erasing, farSide>>

Send(t, op, p, meta) ==
    /\ inbox' = Append(inbox, [from |-> t, op |-> op, path |-> p, meta |-> meta])
    /\ call' = [call EXCEPT ![t].at = "wait", ![t].op = op, ![t].path = p, ![t].meta = meta]

Return(p, v) ==
    /\ call' = [call EXCEPT !["caller"] = Idle]
    /\ stale' = IF v < call["caller"].floor THEN stale \cup {p} ELSE stale

Start(op, p) ==
    /\ call["caller"] = Idle /\ calls < MaxCalls /\ calls' = calls + 1
    /\ UNCHANGED <<known, links, cacheVars, noted, tree, prefetchVars, stale>> /\ CallFrame

\* resolve_for_read: the version and the kind come from the mirror.
BeginRead(p) ==
    /\ Start("read", p)
    /\ IF tree[p] = NoFile
       THEN Send("caller", "read", p, <<>>)
       ELSE /\ call' = [call EXCEPT !["caller"] =
                           [@ EXCEPT !.at = "look", !.op = "read", !.path = p,
                                     !.meta = p :> tree[p], !.floor = known[p]]]
            /\ UNCHANGED inbox

\* enqueue_prefetch
EnqueuePrefetch ==
    IF seen THEN UNCHANGED <<queued, seen, pending>>
    ELSE queued' = queued + 1 /\ seen' = TRUE /\ pending' = pending + 1

\* Mutant of ReadHit: the entry is used whatever version it was fetched under.
ReadHitAnyVersion ==
    LET c == call["caller"] IN
    /\ c.at = "look" /\ c.path \in DOMAIN cache
    /\ lru' = <<c.path>> \o SelectSeq(lru, LAMBDA q : q # c.path)
    /\ Return(c.path, cache[c.path].data)
    /\ UNCHANGED <<inbox, tree, noted, known, cache, bytes, links, prefetchVars, calls>>
    /\ CallFrame

ReadHit ==
    LET c == call["caller"] IN
    /\ c.at = "look" /\ Valid(c.path, c.meta[c.path])
    /\ lru' = <<c.path>> \o SelectSeq(lru, LAMBDA q : q # c.path)
    /\ Return(c.path, cache[c.path].data)
    /\ UNCHANGED <<inbox, tree, noted, known, cache, bytes, links, prefetchVars, calls>>
    /\ CallFrame

\* A miss asks for the file and its siblings in the mirror, up to the batch.
ReadMiss ==
    LET c == call["caller"]
        siblings == {p \in File \ {c.path} : tree[p] # NoFile}
    IN  /\ c.at = "look" /\ ~Valid(c.path, c.meta[c.path])
        /\ \E more \in SUBSET siblings :
              /\ Cardinality(more) = Min({Cardinality(siblings), BatchCap - 1})
              /\ Send("caller", "read", c.path, c.meta @@ [p \in more |-> tree[p]])
        /\ UNCHANGED <<tree, noted, known, cacheVars, links, prefetchVars, stale, calls>>
        /\ CallFrame

\* cache_put for every file that came back, each under the version sampled
\* before the request.
PutAll(meta, got) ==
    FoldSet(LAMBDA p, c : CachePut(c, p, meta[p], got[p]), Cache, DOMAIN got \cap DOMAIN meta)

\* The batch came back without the file that was asked for: nothing of it is
\* cached, and the file is read by itself.
ReadDirect ==
    LET c == call["caller"]
        p == c.path
    IN  /\ c.at = "got" /\ c.op = "read" /\ p \in DOMAIN c.meta \ DOMAIN c.got.got
        /\ inbox' = Append(inbox, [from |-> "caller", op |-> "read", path |-> p,
                                   meta |-> p :> c.meta[p]])
        /\ call' = [call EXCEPT !["caller"].at = "wait", !["caller"].op = "direct"]
        /\ UNCHANGED <<tree, noted, known, cacheVars, links, prefetchVars, stale, calls>>
        /\ CallFrame

ReadDone ==
    LET c == call["caller"]
        p == c.path
        found == p \in DOMAIN c.got.got
    IN  /\ c.at = "got" /\ c.op \in {"read", "direct"}
        /\ c.op = "direct" \/ found \/ DOMAIN c.meta = {}
        /\ Becomes(PutAll(c.meta, c.got.got))
        /\ IF found
           THEN Return(p, c.got.got[p])
           ELSE call' = [call EXCEPT !["caller"] = Idle] /\ UNCHANGED stale
        /\ IF Cardinality(DOMAIN c.meta) >= BatchCap /\ found
           THEN EnqueuePrefetch ELSE UNCHANGED <<queued, seen, pending>>
        /\ UNCHANGED <<warmed, inbox, tree, noted, known, links, calls>> /\ CallFrame

\* readlink: a cached target is returned as it is.
ReadLink(p) ==
    /\ call["caller"] = Idle /\ calls < MaxCalls /\ calls' = calls + 1
    /\ IF p \in DOMAIN links
       THEN /\ stale' = IF links[p] < known[p] THEN stale \cup {p} ELSE stale
            /\ UNCHANGED <<inbox, call>>
       ELSE Send("caller", "readlink", p, p :> 0) /\ UNCHANGED stale
    /\ UNCHANGED <<known, links, cacheVars, noted, tree, prefetchVars>> /\ CallFrame

ReadLinkDone ==
    LET c == call["caller"] IN
    /\ c.at = "got" /\ c.op = "readlink"
    /\ links' = IF c.path \in DOMAIN c.got.got
                THEN (c.path :> c.got.got[c.path]) @@ links ELSE links
    /\ call' = [call EXCEPT !["caller"] = Idle]
    /\ UNCHANGED <<inbox, tree, noted, known, cacheVars, prefetchVars, stale, calls>>
    /\ CallFrame

Mutate(op, p) ==
    /\ Start(op, p)
    /\ Send("caller", op, p, <<>>)

\* The acknowledged change: write, truncate and unlink drop the cached data ...
MutateDrop ==
    LET c == call["caller"] IN
    /\ c.at = "got" /\ c.op \in {"write", "create", "unlink"}
    /\ IF DOMAIN c.got.got = {}
       THEN call' = [call EXCEPT !["caller"] = Idle] /\ UNCHANGED <<cacheVars, links>>
       ELSE /\ call' = [call EXCEPT !["caller"].at = "note"]
            /\ IF c.op = "create" THEN UNCHANGED <<cacheVars, links>>
               ELSE /\ Becomes(CacheErase(Cache, c.path))
                    /\ links' = Restrict(links, DOMAIN links \ {c.path})
    /\ UNCHANGED <<inbox, tree, noted, known, prefetchVars, stale, calls>> /\ CallFrame

\* ... and move the mirror's version on: to the one the agent read back, to a
\* local one, or to nothing.
NewMtime(op, p, v) ==
    CASE op = "write" -> BumpMtime(tree[p], v)
      [] op = "create" -> Mtime(v)
      [] OTHER -> NoFile

MutateNote ==
    LET c == call["caller"]
        p == c.path
    IN  /\ c.at = "note"
        /\ tree' = [tree EXCEPT ![p] = NewMtime(c.op, p, c.got.got[p])]
        /\ noted' = [noted EXCEPT ![p] = c.got.gen]
        /\ known' = [known EXCEPT ![p] = c.got.got[p]]
        /\ call' = [call EXCEPT !["caller"] = Idle]
        /\ UNCHANGED <<inbox, cacheVars, links, prefetchVars, stale, calls>> /\ CallFrame

-----------------------------------------------------------------------------
(* The prefetcher *)
PrefetchFrame == UNCHANGED <<tree, noted, known, links, stale, calls>> /\ CallFrame

\* warm_cache after the mount: the directory fits the budget.
WarmCache ==
    /\ ~warmed /\ warmed' = TRUE
    /\ FoldSet(LAMBDA p, n : n + Size(disk[p].data), 0, {p \in File : tree[p] # NoFile}) <= Cap
    /\ EnqueuePrefetch
    /\ UNCHANGED <<inbox, cacheVars, call>> /\ PrefetchFrame

\* The directory's files that are not cached at their present version.
PrefetchTake ==
    LET want == {p \in File : tree[p] # NoFile /\ ~Valid(p, tree[p])} IN
    /\ queued > 0 /\ call["prefetch"] = Idle
    /\ queued' = queued - 1
    /\ IF want = {}
       THEN pending' = pending - 1 /\ UNCHANGED <<inbox, call>>
       ELSE Send("prefetch", "read", None, [p \in want |-> tree[p]]) /\ UNCHANGED pending
    /\ UNCHANGED <<cacheVars, seen, warmed>> /\ PrefetchFrame

PrefetchDone ==
    LET c == call["prefetch"] IN
    /\ c.at = "got"
    /\ Becomes(PutAll(c.meta, c.got.got))
    /\ call' = [call EXCEPT !["prefetch"] = Idle]
    /\ pending' = pending - 1
    /\ UNCHANGED <<inbox, queued, seen, warmed>> /\ PrefetchFrame

AgentNext == \/ \E p \in Target \cup Link : FarChange(p) \/ StampBatch(p)
             \/ Broadcast \/ ServeRead \/ ServeMutation
ReaderNext == Deliver \/ ApplyTree \/ EraseCached
CallerNext == \/ \E p \in Target : BeginRead(p)
              \/ \E p \in Target, op \in {"write", "create", "unlink"} : Mutate(op, p)
              \/ \E p \in Link : ReadLink(p)
              \/ ReadHit \/ ReadMiss \/ ReadDirect \/ ReadDone
              \/ ReadLinkDone \/ MutateDrop \/ MutateNote
PrefetchNext == WarmCache \/ PrefetchTake \/ PrefetchDone

Next == AgentNext \/ ReaderNext \/ CallerNext \/ PrefetchNext
Spec == Init /\ [][Next]_vars

-----------------------------------------------------------------------------
\* What a read of a file returns is never older than the content the mirror
\* described when the read began: not an entry a slow prefetch or read-ahead put
\* back after the change, and not the bytes from before the caller's own write.
ReadsAreCurrent == stale \cap File = {}

\* The same of a link's target, which is cached "until an invalidation touches
\* it" and dropped "by the same invalidation path as file contents".
LinksAreCurrent == stale \cap Link = {}

\* The eviction list names every cached file once, the byte count is the sum of
\* what is cached, and the budget is met (or one file alone exceeds it).
\* pf_pending_ counts the directories queued and being fetched, so that
\* wait_prefetch_idle returns neither early nor never.
CacheIsAccounted ==
    /\ Range(lru) = DOMAIN cache /\ Len(lru) = Cardinality(DOMAIN cache)
    /\ bytes = FoldSet(LAMBDA p, n : n + Size(cache[p].data), 0, DOMAIN cache)
    /\ bytes <= Cap \/ Len(lru) = 1
    /\ pending = queued + (IF call["prefetch"] = Idle THEN 0 ELSE 1)
=============================================================================
