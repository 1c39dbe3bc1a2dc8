--------------------------- MODULE FsNotifyBridge ---------------------------
(***************************************************************************)
(* The notification bridge of a Linux mount.  A change the far side made   *)
(* is already in the mirror when the mount hears of it, so the kernel of   *)
(* this side has nothing to report to inotify.  The bridge replays each    *)
(* change as a system call of its own on the mount (a "poke"), lies to its *)
(* own thread about the path so that the kernel goes through with it, and  *)
(* answers the resulting FUSE request locally.                             *)
(*                                                                         *)
(* Actors: the client's reader and rescan threads, which run the hook the  *)
(* mount installed; the poke thread; the thread that drops the kernel's    *)
(* cached entries; the FUSE loop, which serves one request at a time; any  *)
(* user of the mount; and the thread that unmounts.                        *)
(* Source: src/src/mount/fsnotify_bridge.cpp, src/src/mount/fuse_mount.cpp *)
(***************************************************************************)
EXTENDS Integers, Sequences, SequencesExt, FiniteSets

CONSTANTS Path,        \* mount-relative paths
          Kind,        \* node kinds: contains "File" and "Directory"
          QueueCap,    \* kQueueCap
          InvalCap,    \* kInvalQueueCap
          MaxChanges,  \* bound on the changes, of the far side and of users
          FirstTree    \* the mirror when the mount comes up

ASSUME BridgeConstants ==
    /\ "File" \in Kind
    /\ QueueCap \in Nat \ {0} /\ InvalCap \in Nat \ {0}
    /\ MaxChanges \in Nat
    /\ FirstTree \in [Path -> Kind \cup {"Absent"}]

VARIABLES mirror,     \* the client's tree: Path -> Kind or Absent
          dcache,     \* the kernel's entry cache: "none", "real" or "ghost"
          mounted,    \* the kernel still has the FUSE mount
          hooked,     \* paths_hook_ is set
          hook,       \* a hook call in progress, per calling thread
          queue,      \* queue_ of the bridge
          active,     \* active_: the poke in flight
          running,    \* running_
          stop,       \* stop_
          poker,      \* the poke thread: where it is, its job, the result
          punches,    \* inval_queue_
          punchStop,  \* inval_stop_
          puncher,    \* the inval thread: where it is and the path it took
          unmount,    \* how far FuseMount::unmount has come
          crossed,    \* who had a change request forwarded to the agent
          swallowed,  \* who had one answered here instead
          missed,     \* paths no punch will come for: inval_queue_ was full,
                      \* or a user renamed the entry the punch was meant for
          changes

bridgeVars == <<queue, active, running, stop, poker>>
punchVars == <<punches, punchStop, puncher, missed>>
kernelVars == <<dcache, mounted>>
requestVars == <<crossed, swallowed>>
vars == <<mirror, kernelVars, hooked, hook, bridgeVars, punchVars, unmount,
          requestVars, changes>>

Absent == "Absent"
Nothing == "Nothing"
NoPath == "NoPath"
Caller == {"reader", "rescan"}
Change == [change : {"Created", "Modified", "Removed", "MovedFrom", "MovedTo", "Unknown"},
           path : Path \cup {NoPath}, cookie : 0..1, kind : Kind, rescan : BOOLEAN]
Job == [change : {"Created", "Modified", "Removed", "MovedFrom", "Unknown"},
        path : Path \cup {NoPath}, path2 : Path \cup {NoPath}, kind : Kind, rescan : BOOLEAN]
NoJob == [change |-> "Unknown", path |-> NoPath, path2 |-> NoPath, kind |-> "File",
          rescan |-> FALSE]
NoActive == [what |-> "None", path |-> NoPath, path2 |-> NoPath, pretend |-> Nothing]
Idle == [step |-> "idle", changes |-> <<>>]

(***************************************************************************)
(* The bridge's answers to the FUSE handlers.  Self is its poke thread.    *)
(***************************************************************************)
Self == "self"
IsSelf(caller) == caller = Self

Pretend(caller, p) ==
    IF IsSelf(caller) /\ active.path = p THEN active.pretend ELSE Nothing

Matches(caller, what, p, p2) ==
    /\ IsSelf(caller)
    /\ active.what = what /\ active.path = p /\ active.path2 = p2

\* claim_poke without the refusal of what the poke thread asks unexpectedly
VerdictNoRefusal(caller, what, p, p2) ==
    IF Matches(caller, what, p, p2) THEN "Claimed" ELSE "NotOurs"

ClaimPoke(caller, what, p, p2) ==
    CASE Matches(caller, what, p, p2) -> "Claimed"
      [] ~Matches(caller, what, p, p2) /\ IsSelf(caller) -> "Refuse"
      [] OTHER -> "NotOurs"

\* op_getattr: is there an entry, and is it the fiction or the mirror's?
GetAttr(caller, p) ==
    CASE Pretend(caller, p) = "Absent" -> "none"
      [] Pretend(caller, p) = "Present" -> "ghost"
      [] OTHER -> IF mirror[p] = Absent THEN "none" ELSE "real"

\* The kernel's lookup: a cached entry is used, otherwise getattr is asked.
Lookup(caller, p) == IF dcache[p] # "none" THEN dcache[p] ELSE GetAttr(caller, p)

(***************************************************************************)
(* post(): the changes of one hook call as whole jobs.                     *)
(***************************************************************************)
JobOf(c) == [change |-> c.change, path |-> c.path, path2 |-> NoPath, kind |-> c.kind,
             rescan |-> c.rescan]

IsFrom(c) == c.change = "MovedFrom" /\ c.cookie # 0
IsTo(c) == c.change = "MovedTo" /\ c.cookie # 0

\* The source a destination at position i completes, if one came before it.
Sources(cs, i) == {j \in 1..(i - 1) : IsFrom(cs[j]) /\ cs[j].cookie = cs[i].cookie}
Targets(cs, j) == {i \in (j + 1)..Len(cs) : IsTo(cs[i]) /\ cs[i].cookie = cs[j].cookie}

JobAt(cs, i) ==
    LET c == cs[i] IN
    CASE IsFrom(c) /\ Targets(cs, i) # {} ->
           [JobOf(c) EXCEPT !.path2 = cs[CHOOSE t \in Targets(cs, i) : TRUE].path]
      [] IsFrom(c) /\ Targets(cs, i) = {} -> [JobOf(c) EXCEPT !.change = "Removed"]
      [] IsTo(c) -> [JobOf(c) EXCEPT !.change = "Created"]
      [] OTHER -> JobOf(c)

Jobs(cs) ==
    LET own == SelectSeq([i \in 1..Len(cs) |-> i],
                         LAMBDA i : ~(IsTo(cs[i]) /\ Sources(cs, i) # {}))
    IN  [k \in 1..Len(own) |-> JobAt(cs, own[k])]

\* The queue keeps the newest jobs: past the cap the oldest goes.
Enqueue(q, js) ==
    LET all == q \o js IN
    IF Len(all) <= QueueCap THEN all ELSE SubSeq(all, Len(all) - QueueCap + 1, Len(all))

(***************************************************************************)
(* What a job asks of the kernel.                                          *)
(***************************************************************************)
PokeOf(j) ==
    CASE j.rescan -> "Utimens"
      [] ~j.rescan /\ j.path2 # NoPath -> "Rename"
      [] j.path2 = NoPath /\ j.change = "Created" ->
           IF j.kind = "Directory" THEN "Mkdir" ELSE "Mknod"
      [] j.path2 = NoPath /\ j.change \in {"Removed", "MovedFrom"} ->
           IF j.kind = "Directory" THEN "Rmdir" ELSE "Unlink"
      [] j.path2 = NoPath /\ j.change = "Modified" -> "Utimens"
      [] OTHER -> "None"

Creates == {"Mknod", "Mkdir"}
Removes == {"Unlink", "Rmdir"}

ActiveOf(j) ==
    [what |-> PokeOf(j), path |-> j.path, path2 |-> j.path2,
     pretend |-> IF PokeOf(j) \in Creates THEN "Absent" ELSE "Present"]

-----------------------------------------------------------------------------
Init ==
    /\ mirror = FirstTree
    /\ dcache = [p \in Path |-> "none"] /\ mounted = TRUE
    /\ hooked = TRUE /\ hook = [c \in Caller |-> Idle]
    /\ queue = <<>> /\ active = NoActive /\ running = TRUE /\ stop = FALSE
    /\ poker = [at |-> "verify", job |-> NoJob, rc |-> "none", joined |-> FALSE]
    /\ punches = <<>> /\ punchStop = FALSE /\ puncher = [at |-> "wait", path |-> NoPath]
    /\ unmount = "no" /\ crossed = {} /\ swallowed = {} /\ missed = {}
    /\ changes = 0

(***************************************************************************)
(* The client applies a batch under its tree lock, then copies the hook    *)
(* and calls it with no lock held.                                         *)
(***************************************************************************)
Applied(p, what, cookie, k) ==
    [change |-> what, path |-> p, cookie |-> cookie, kind |-> k, rescan |-> FALSE]

Apply(caller, tree, cs) ==
    /\ hook[caller] = Idle /\ changes < MaxChanges
    /\ mirror' = tree /\ changes' = changes + 1
    /\ hook' = [hook EXCEPT ![caller] = IF hooked THEN [step |-> "punch", changes |-> cs]
                                                  ELSE Idle]
    /\ UNCHANGED <<kernelVars, hooked, bridgeVars, punchVars, unmount, requestVars>>

\* A destination whose source is in another frame is a creation, there or not.
ApplyUpsert == \E p \in Path, k \in Kind, what \in {"Created", "Modified"} :
    /\ mirror[p] = Absent => what = "Created"
    /\ Apply("reader", [mirror EXCEPT ![p] = k], <<Applied(p, what, 0, k)>>)

ApplyRemove == \E p \in Path :
    /\ mirror[p] # Absent
    /\ Apply("reader", [mirror EXCEPT ![p] = Absent],
             <<Applied(p, "Removed", 0, mirror[p])>>)

\* The two halves of a move, in the order the agent's batch has them.
ApplyMove == \E p, q \in Path, k \in Kind :
    LET from == Applied(p, "MovedFrom", 1, IF mirror[p] = Absent THEN "File" ELSE mirror[p])
        to == Applied(q, "MovedTo", 1, k)
    IN  /\ p # q
        /\ \E cs \in {<<from, to>>, <<to, from>>} :
              Apply("reader", [mirror EXCEPT ![p] = Absent, ![q] = k], cs)

\* A new snapshot replaced the tree; no path can be named.
ApplyRescan == \E tree \in [Path -> {"File", Absent}] :
    Apply("rescan", tree,
          <<[change |-> "Unknown", path |-> NoPath, cookie |-> 0, kind |-> "File",
             rescan |-> TRUE]>>)

\* The mount's hook, first half: queue a punch for every named path, up to
\* the cap, unless the inval thread was told to stop.
HookPunch(c) ==
    LET named == SelectSeq(hook[c].changes, LAMBDA x : ~x.rescan)
        room == InvalCap - Len(punches)
        n == IF Len(named) <= room THEN Len(named) ELSE room
    IN  /\ hook[c].step = "punch"
        /\ IF punchStop
           THEN hook' = [hook EXCEPT ![c] = Idle] /\ UNCHANGED <<punches, missed>>
           ELSE /\ hook' = [hook EXCEPT ![c].step = "post"]
                /\ punches' = punches \o [i \in 1..n |-> named[i].path]
                /\ missed' = missed \cup {named[i].path : i \in (n + 1)..Len(named)}
        /\ UNCHANGED <<mirror, kernelVars, hooked, bridgeVars, punchStop, puncher, unmount,
                       requestVars, changes>>

\* Second half: hand the changes to the bridge.
HookPost(c) ==
    /\ hook[c].step = "post"
    /\ hook' = [hook EXCEPT ![c] = Idle]
    /\ queue' = IF running THEN Enqueue(queue, Jobs(hook[c].changes)) ELSE queue
    /\ UNCHANGED <<mirror, kernelVars, hooked, active, running, stop, poker, punchVars,
                   unmount, requestVars, changes>>

(***************************************************************************)
(* The poke thread.                                                        *)
(***************************************************************************)
PokerFrame == UNCHANGED <<mirror, mounted, hooked, hook, stop, punchStop, puncher, unmount,
                          changes>>

\* run(): without a FUSE mount under its root the bridge switches itself off.
VerifyRoot ==
    /\ poker.at = "verify"
    /\ \/ mounted /\ poker' = [poker EXCEPT !.at = "wait"] /\ UNCHANGED running
       \/ ~mounted /\ poker' = [poker EXCEPT !.at = "ended"] /\ running' = FALSE
    /\ UNCHANGED <<dcache, queue, active, punches, missed, requestVars>>
    /\ PokerFrame

TakeJob ==
    /\ poker.at = "wait" /\ (stop \/ queue # <<>>)
    /\ IF stop
       THEN poker' = [poker EXCEPT !.at = "ended"] /\ UNCHANGED queue
       ELSE /\ poker' = [poker EXCEPT !.at = "check", !.job = Head(queue)]
            /\ queue' = Tail(queue)
    /\ UNCHANGED <<dcache, active, running, punches, missed, requestVars>>
    /\ PokerFrame

\* deliver(): a job with nothing to say, or one whose parent is not inside
\* the mount, ends here; any other names its poke before its system call.
BeginPoke ==
    /\ poker.at = "check"
    /\ \/ /\ PokeOf(poker.job) = "None" \/ poker.job.path # NoPath
          /\ poker' = [poker EXCEPT !.at = "wait", !.job = NoJob] /\ UNCHANGED active
       \/ /\ PokeOf(poker.job) # "None" /\ (mounted \/ poker.job.path = NoPath)
          /\ poker' = [poker EXCEPT !.at = "lookup"]
          /\ active' = IF PokeOf(poker.job) = "Utimens" THEN active ELSE ActiveOf(poker.job)
    /\ UNCHANGED <<dcache, queue, running, punches, missed, requestVars>>
    /\ PokerFrame

\* The system call, first half: the kernel resolves the paths.
PokeLookup ==
    LET j == poker.job
        seen == Lookup(Self, j.path)
        goes == \/ PokeOf(j) \in Creates /\ seen = "none"
                \/ PokeOf(j) \notin Creates /\ seen # "none"
    IN  /\ poker.at = "lookup" /\ mounted /\ j.path # NoPath
        /\ dcache' = [dcache EXCEPT ![j.path] = seen]
        /\ poker' = IF goes THEN [poker EXCEPT !.at = "ask"]
                            ELSE [poker EXCEPT !.at = "clear", !.rc = "failed"]
        /\ UNCHANGED <<queue, active, running, punches, missed, requestVars>>
        /\ PokerFrame

\* A call that ends without a request: it touches the root, the kernel
\* refuses it, or the mount is gone and the call lands outside it.
PokeEndsEarly ==
    /\ \/ poker.at = "lookup" /\ (poker.job.path = NoPath \/ ~mounted)
       \/ poker.at = "ask"
    /\ \E rc \in {"ok", "failed"} :
          /\ rc = "ok" => poker.at = "lookup"
          /\ poker' = [poker EXCEPT !.at = "clear", !.rc = rc]
    /\ UNCHANGED <<dcache, queue, active, running, punches, missed, requestVars>>
    /\ PokerFrame

\* What the kernel does with a successful answer: a creation is looked up
\* again, a removal drops the entry, a rename walks the source's entry over.
Settled(what, p, p2) ==
    CASE what \in Creates -> [dcache EXCEPT ![p] = IF mirror[p] = Absent THEN "none" ELSE "real"]
      [] what \in Removes -> [dcache EXCEPT ![p] = "none"]
      [] what = "Rename" -> [dcache EXCEPT ![p2] = dcache[p], ![p] = "none"]
      [] OTHER -> dcache

\* Second half: the request reaches its FUSE handler.  The kernel may repeat
\* a request it got an error for, so one refused may come again.
PokeAsk ==
    LET j == poker.job
        what == PokeOf(j)
        v == IF what = "Utimens" THEN "Claimed" ELSE ClaimPoke(Self, what, j.path, j.path2)
    IN  /\ poker.at = "ask" /\ mounted
        /\ active' = IF v = "Claimed" /\ what # "Utimens" THEN NoActive ELSE active
        /\ crossed' = IF v = "NotOurs" THEN crossed \cup {Self} ELSE crossed
        /\ swallowed' = IF v = "Claimed" THEN swallowed \cup {Self} ELSE swallowed
        /\ \/ /\ v = "Claimed" /\ dcache' = Settled(what, j.path, j.path2)
              /\ poker' = [poker EXCEPT !.at = "clear", !.rc =
                    IF what \in Creates /\ mirror[j.path] = Absent THEN "failed" ELSE "ok"]
           \/ /\ v = "Claimed" /\ what \in Creates /\ mirror[j.path] = Absent
              /\ UNCHANGED <<dcache, poker>>
           \/ /\ v # "Claimed" /\ poker' = [poker EXCEPT !.at = "clear", !.rc = "failed"]
              /\ UNCHANGED dcache
        /\ UNCHANGED <<queue, running, punches, missed>>
        /\ PokerFrame

\* invalidate_: queue a punch unless stopping or full.
Invalidate(p) ==
    IF punchStop \/ Len(punches) >= InvalCap
    THEN punches' = punches /\ missed' = missed \cup {p}
    ELSE punches' = Append(punches, p) /\ UNCHANGED missed

\* The poke without its clean-up after a failure
EndPokeKeepsGhost ==
    LET j == poker.job IN
    /\ poker.at = "clear"
    /\ active' = NoActive
    /\ poker' = [poker EXCEPT !.at = "wait", !.job = NoJob, !.rc = "none"]
    /\ IF PokeOf(j) = "Rename" /\ poker.rc = "ok"
       THEN Invalidate(j.path2) ELSE UNCHANGED <<punches, missed>>
    /\ UNCHANGED <<dcache, queue, running, requestVars>>
    /\ PokerFrame

\* The poke without clear_active()
EndPokeKeepsActive ==
    /\ poker.at = "clear"
    /\ poker' = [poker EXCEPT !.at = "wait", !.job = NoJob, !.rc = "none"]
    /\ UNCHANGED <<dcache, queue, active, running, punches, missed, requestVars>>
    /\ PokerFrame

\* clear_active(), then the entry the fiction may have left behind is dropped.
EndPoke ==
    LET j == poker.job IN
    /\ poker.at = "clear"
    /\ active' = IF PokeOf(j) = "Utimens" THEN active ELSE NoActive
    /\ poker' = [poker EXCEPT !.at = "wait", !.job = NoJob, !.rc = "none"]
    /\ CASE PokeOf(j) = "Rename" -> Invalidate(IF poker.rc = "ok" THEN j.path2 ELSE j.path)
         [] PokeOf(j) \in Removes /\ poker.rc # "ok" -> Invalidate(j.path)
         [] OTHER -> UNCHANGED <<punches, missed>>
    /\ UNCHANGED <<dcache, queue, running, requestVars>>
    /\ PokerFrame

(***************************************************************************)
(* Users of the mount and the kernel.                                      *)
(***************************************************************************)
UserFrame == UNCHANGED <<mounted, hooked, hook, queue, running, stop, poker, punches,
                         punchStop, puncher, unmount>>

\* The kernel keeps a directory locked from a change's lookup to its answer.
Unlocked(p) == poker.at = "ask" => p \notin {poker.job.path, poker.job.path2}

UserLooks == \E p \in Path :
    /\ mounted /\ dcache[p] = "none" /\ GetAttr("user", p) # "none"
    /\ dcache' = [dcache EXCEPT ![p] = GetAttr("user", p)]
    /\ UNCHANGED <<mirror, active, missed, requestVars, changes>>
    /\ UserFrame

\* A create, remove or rename of a user reaches its handler; forwarded, the
\* agent does it and the mirror follows.
UserCalls == \E what \in {"Mknod", "Mkdir", "Unlink", "Rmdir", "Rename"}, p \in Path,
                p2 \in Path \cup {NoPath} :
    LET v == ClaimPoke("user", what, p, p2)
        seen == Lookup("user", p)
        k == IF what \in {"Mkdir", "Rmdir"} THEN "Directory" ELSE "File"
    IN  /\ mounted /\ changes < MaxChanges /\ changes' = changes + 1 /\ k \in Kind
        /\ Unlocked(p) /\ (p2 # NoPath => Unlocked(p2))
        /\ p # p2 /\ ((what = "Rename") <=> (p2 # NoPath))
        /\ (what \in Creates) <=> (seen = "none")
        /\ active' = IF v = "Claimed" THEN NoActive ELSE active
        /\ crossed' = IF v = "NotOurs" THEN crossed \cup {"user"} ELSE crossed
        /\ swallowed' = IF v = "Claimed" THEN swallowed \cup {"user"} ELSE swallowed
        /\ \/ /\ v = "NotOurs" /\ what \in Creates
              /\ mirror' = [mirror EXCEPT ![p] = k] /\ dcache' = [dcache EXCEPT ![p] = "real"]
              /\ UNCHANGED missed
           \/ /\ v = "NotOurs" /\ what \in Removes /\ mirror[p] = k
              /\ mirror' = [mirror EXCEPT ![p] = Absent]
              /\ dcache' = [dcache EXCEPT ![p] = "none"]
              /\ UNCHANGED missed
           \/ /\ v = "NotOurs" /\ what = "Rename" /\ mirror[p] # Absent
              /\ mirror' = [mirror EXCEPT ![p] = Absent, ![p2] = mirror[p]]
              /\ dcache' = [dcache EXCEPT ![p2] = seen, ![p] = "none"]
              /\ missed' = IF seen = "ghost" THEN missed \cup {p2} ELSE missed
           \/ v # "NotOurs" /\ UNCHANGED <<mirror, dcache, missed>>
        /\ UserFrame

\* entry_timeout: the kernel forgets an entry.
EntryTimesOut == \E p \in Path :
    /\ dcache[p] # "none" /\ dcache' = [dcache EXCEPT ![p] = "none"]
    /\ UNCHANGED <<mirror, active, missed, requestVars, changes>>
    /\ UserFrame

\* Somebody else unmounts the file system, or it never came up.
MountGoesAway ==
    /\ mounted /\ mounted' = FALSE /\ dcache' = [p \in Path |-> "none"]
    /\ UNCHANGED <<mirror, hooked, hook, bridgeVars, punchVars, unmount, requestVars,
                   changes>>

(***************************************************************************)
(* The thread that drops cached entries, and unmount().                    *)
(***************************************************************************)
InvalTake ==
    /\ puncher.at = "wait" /\ (punchStop \/ punches # <<>>)
    /\ IF punchStop
       THEN puncher' = [puncher EXCEPT !.at = "ended"] /\ UNCHANGED punches
       ELSE /\ puncher' = [at |-> "punch", path |-> Head(punches)]
            /\ punches' = Tail(punches)
    /\ UNCHANGED <<mirror, kernelVars, hooked, hook, bridgeVars, punchStop, missed, unmount,
                   requestVars, changes>>

InvalPunch ==
    /\ puncher.at = "punch"
    /\ puncher' = [at |-> "wait", path |-> NoPath]
    /\ dcache' = [dcache EXCEPT ![puncher.path] = "none"]
    /\ UNCHANGED <<mirror, mounted, hooked, hook, bridgeVars, punches, punchStop, missed,
                   unmount, requestVars, changes>>

UnmountFrame == UNCHANGED <<mirror, dcache, hook, missed, requestVars, changes>>

UnmountBegin ==
    /\ unmount = "no" /\ unmount' = "stop" /\ hooked' = FALSE
    /\ UNCHANGED <<mounted, bridgeVars, punches, punchStop, puncher>>
    /\ UnmountFrame

\* notify_.stop() up to its join; a bridge that is not running is left alone.
BridgeStop ==
    /\ unmount = "stop"
    /\ IF running
       THEN running' = FALSE /\ stop' = TRUE /\ queue' = <<>> /\ unmount' = "join"
       ELSE unmount' = "inval" /\ UNCHANGED <<running, stop, queue>>
    /\ UNCHANGED <<hooked, mounted, active, poker, punches, punchStop, puncher>>
    /\ UnmountFrame

\* unmount() that stops the bridge without waiting for its thread
BridgeJoinSkips ==
    /\ unmount = "join" /\ unmount' = "inval" /\ active' = NoActive
    /\ UNCHANGED <<hooked, mounted, queue, running, stop, poker, punches, punchStop, puncher>>
    /\ UnmountFrame

BridgeJoin ==
    /\ unmount = "join" /\ poker.at = "ended"
    /\ unmount' = "inval" /\ active' = NoActive
    /\ poker' = [poker EXCEPT !.joined = TRUE]
    /\ UNCHANGED <<hooked, mounted, queue, running, stop, punches, punchStop, puncher>>
    /\ UnmountFrame

\* The inval thread never told to stop
InvalStopForgets ==
    /\ unmount = "inval" /\ unmount' = "inval_join" /\ punches' = <<>>
    /\ UNCHANGED <<hooked, mounted, bridgeVars, punchStop, puncher>>
    /\ UnmountFrame

InvalStop ==
    /\ unmount = "inval" /\ unmount' = "inval_join" /\ punchStop' = TRUE /\ punches' = <<>>
    /\ UNCHANGED <<hooked, mounted, bridgeVars, puncher>>
    /\ UnmountFrame

\* The inval thread joined, the FUSE session ends and its handle is destroyed.
UnmountEnd ==
    /\ unmount = "inval_join" /\ puncher.at = "ended"
    /\ unmount' = "gone" /\ mounted' = FALSE
    /\ UNCHANGED <<hooked, bridgeVars, punches, punchStop, puncher>>
    /\ UnmountFrame

HookStep == \E c \in Caller : HookPunch(c) \/ HookPost(c)
PokerStep == VerifyRoot \/ TakeJob \/ BeginPoke \/ PokeLookup \/ PokeEndsEarly
             \/ PokeAsk \/ EndPoke
InvalStep == InvalTake \/ InvalPunch
UnmountStep == BridgeStop \/ BridgeJoin \/ InvalStop \/ UnmountEnd

Next ==
    \/ ApplyUpsert \/ ApplyRemove \/ ApplyMove \/ ApplyRescan
    \/ HookStep \/ PokerStep \/ InvalStep
    \/ UserLooks \/ UserCalls \/ EntryTimesOut \/ MountGoesAway
    \/ UnmountBegin \/ UnmountStep

\* Threads that are runnable run; nobody has to change, look or unmount.
Spec == Init /\ [][Next]_vars
        /\ WF_vars(HookStep) /\ WF_vars(PokerStep) /\ WF_vars(InvalStep)
        /\ WF_vars(UnmountStep)

-----------------------------------------------------------------------------
(***************************************************************************)
(* Properties.                                                             *)
(***************************************************************************)
BridgeTypeOK ==
    /\ mirror \in [Path -> Kind \cup {Absent}]
    /\ dcache \in [Path -> {"none", "real", "ghost"}]
    /\ {mounted, hooked, running, stop, punchStop, poker.joined} \subseteq BOOLEAN
    /\ \A c \in Caller : hook[c].step \in {"idle", "punch", "post"}
                         /\ hook[c].changes \in Seq(Change)
    /\ queue \in Seq(Job) /\ Len(queue) <= QueueCap
    /\ punches \in Seq(Path) /\ Len(punches) <= InvalCap
    /\ poker.at \in {"verify", "wait", "check", "lookup", "ask", "clear", "ended"}
    /\ poker.job \in Job
    /\ puncher.at \in {"wait", "punch", "ended"} /\ puncher.path \in Path \cup {NoPath}
    /\ unmount \in {"no", "stop", "join", "inval", "inval_join", "gone"}

\* A poke is never forwarded to the agent and a user's request is never
\* answered in its stead, whatever the two do to the same path at once
\* (claim and claim_poke: the price of a mistake is a lost file or a delete
\* that does not delete).
PokesStayHere == Self \notin crossed /\ "user" \notin swallowed

\* The record the handlers match requests against belongs to the system call
\* the poke thread is in: it never outlives it.
ActiveIsInFlight ==
    active # NoActive =>
        /\ poker.at \in {"lookup", "ask", "clear"}
        /\ active = ActiveOf(poker.job)

\* An entry made up for the bridge's own thread never stays in the kernel's
\* cache for others to see: while the poke is over, the path is either being
\* punched, queued to be, or its punch was refused by a full queue,
\* or a user renamed the entry meanwhile.
GhostsAreDropped ==
    \A p \in Path : dcache[p] = "ghost" =>
        \/ poker.at \in {"ask", "clear"} /\ p \in {poker.job.path, poker.job.path2}
        \/ p \in Range(punches) \cup {puncher.path} \cup missed
        \/ punchStop

\* Once unmount() has returned, no thread is left that would still make a
\* call on the mount or use the destroyed FUSE handle.
UnmountIsLast ==
    unmount = "gone" => /\ poker.at \notin {"check", "lookup", "ask", "clear"}
                        /\ puncher.at = "ended"

\* unmount() always returns: none of its joins waits for a thread that waits
\* for something else.
UnmountEnds == (unmount # "no") ~> (unmount = "gone")

\* After unmount() the poke thread has been joined, as stop() promises
\* ("Stops delivery and joins").
StopJoins == unmount = "gone" => poker.joined
=============================================================================
