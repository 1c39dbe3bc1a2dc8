---------------------------- MODULE BridgeProofs ----------------------------
(***************************************************************************)
(* Proofs about FsNotifyBridge, for any paths, kinds, queue bounds, first  *)
(* tree and number of changes: a poke stays on this side and a user's      *)
(* request never does, the record handlers match requests against never    *)
(* outlives its system call, and unmount() leaves no thread behind.        *)
(***************************************************************************)
EXTENDS FsNotifyBridge, TLAPS

\* The records of the two threads keep their fields.
Shaped ==
    /\ DOMAIN poker = {"at", "job", "rc", "joined"}
    /\ DOMAIN puncher = {"at", "path"}

\* A record in flight belongs to the thread's job, and that job is not a
\* touch: only then does every way out of deliver() clear the record.
InFlight ==
    active # NoActive =>
        /\ poker.at \in {"lookup", "ask", "clear"}
        /\ active = ActiveOf(poker.job)
        /\ PokeOf(poker.job) # "Utimens"

\* stop() leaves alone a bridge that is not running, so before it the poke
\* thread of such a bridge must have ended by itself; after the joins the
\* threads have ended for good.
Ending ==
    /\ unmount \in {"no", "stop"} /\ ~running => poker.at = "ended"
    /\ unmount \in {"inval", "inval_join", "gone"} => poker.at = "ended"
    /\ unmount = "gone" => puncher.at = "ended"

BridgeInv == Shaped /\ PokesStayHere /\ InFlight /\ Ending

\* The mount comes up with no poke, both threads at their start.
LEMMA InitBridge == Init => BridgeInv
BY SMT DEF Init, BridgeInv, Shaped, PokesStayHere, InFlight, Ending, Self

\* claim_poke never lets a request of the bridge's own thread through ...
LEMMA SelfStays ==
    ASSUME NEW what, NEW p, NEW p2
    PROVE  ClaimPoke(Self, what, p, p2) # "NotOurs"
BY DEF ClaimPoke, Matches, IsSelf

\* ... and lets every request of a user through.
LEMMA UserCrosses ==
    ASSUME NEW what, NEW p, NEW p2
    PROVE  ClaimPoke("user", what, p, p2) = "NotOurs"
BY DEF ClaimPoke, Matches, IsSelf, Self

\* The thread stays where it is with its job; the record stays or goes.
LEMMA InFlightKept ==
    ASSUME InFlight, active' \in {active, NoActive},
           poker'.at = poker.at, poker'.job = poker.job
    PROVE  InFlight'
<1>1. ASSUME active' # NoActive
      PROVE  active' = active /\ active # NoActive
  BY <1>1, Zenon
<1>2. ASSUME active' # NoActive
      PROVE  /\ poker'.at \in {"lookup", "ask", "clear"}
             /\ PokeOf(poker'.job) # "Utimens" /\ active' = ActiveOf(poker'.job)
  BY <1>2, <1>1, Zenon DEF InFlight
<1>3. QED
  BY <1>2, Zenon DEF InFlight, ActiveOf, PokeOf

\* A step of somebody else: threads, record and unmount() stay as they are.
Aside ==
    /\ UNCHANGED <<active, running, poker, puncher, unmount, crossed, swallowed>>

\* Such a step preserves the invariant.
LEMMA AsidePreserves == ASSUME BridgeInv, Aside PROVE BridgeInv'
<1>1. InFlight'
  BY InFlightKept, Zenon DEF BridgeInv, Aside
<1>2. Shaped' /\ PokesStayHere' /\ Ending'
  BY Zenon DEF BridgeInv, Shaped, PokesStayHere, Ending, Aside
<1>3. QED
  BY <1>1, <1>2 DEF BridgeInv

\* The hook's two callers touch the mirror and the two queues only.
LEMMA HookSteps ==
    ApplyUpsert \/ ApplyRemove \/ ApplyMove \/ ApplyRescan \/ HookStep => Aside
<1>1. ASSUME NEW c, NEW tree, NEW cs, Apply(c, tree, cs) PROVE Aside
  BY <1>1, Zenon DEF Apply, Aside, bridgeVars, punchVars, requestVars
<1>2. ASSUME NEW c \in Caller, HookPunch(c) PROVE Aside
  BY <1>2, Zenon DEF HookPunch, Aside, bridgeVars, requestVars
<1>3. ASSUME NEW c \in Caller, HookPost(c) PROVE Aside
  BY <1>3, Zenon DEF HookPost, Aside, punchVars, requestVars
<1>4. QED
  BY <1>1, <1>2, <1>3, Zenon
     DEF ApplyUpsert, ApplyRemove, ApplyMove, ApplyRescan, HookStep

\* Users, the kernel and their lookups: a user's change always crosses.
LEMMA UserSteps ==
    ASSUME BridgeInv, UserLooks \/ UserCalls \/ EntryTimesOut \/ MountGoesAway
    PROVE  BridgeInv'
<1>1. CASE UserLooks \/ EntryTimesOut \/ MountGoesAway
  <2>1. Aside
    BY <1>1, Zenon DEF UserLooks, EntryTimesOut, MountGoesAway, UserFrame, Aside,
                       bridgeVars, punchVars, requestVars
  <2>2. QED
    BY <2>1, AsidePreserves
<1>2. CASE UserCalls
  <2>1. /\ UNCHANGED <<active, running, poker, puncher, unmount, swallowed>>
        /\ crossed' = crossed \cup {"user"}
    <3>1. UserFrame
      BY <1>2, SMTT(20) DEF UserCalls
    <3>2. active' = active /\ swallowed' = swallowed /\ crossed' = crossed \cup {"user"}
      BY <1>2, UserCrosses, SMTT(20) DEF UserCalls
    <3>3. QED
      BY <3>1, <3>2, Zenon DEF UserFrame
  <2>2. InFlight'
    BY <2>1, InFlightKept DEF BridgeInv
  <2>3. Shaped' /\ Ending'
    BY <2>1, Zenon DEF BridgeInv, Shaped, Ending
  <2>4. PokesStayHere'
    BY <2>1, SMT DEF BridgeInv, PokesStayHere, Self
  <2>5. QED
    BY <2>2, <2>3, <2>4 DEF BridgeInv
<1>3. QED
  BY <1>1, <1>2

\* TakeJob changes the place of the thread, and perhaps its job.
LEMMA JobTaken ==
    ASSUME Shaped, TakeJob
    PROVE  /\ UNCHANGED <<puncher, unmount, crossed, swallowed>> /\ poker.at = "wait"
           /\ DOMAIN poker' = {"at", "job", "rc", "joined"}
<1>1. UNCHANGED <<puncher, unmount, crossed, swallowed>> /\ poker.at = "wait"
  BY Zenon DEF TakeJob, PokerFrame, requestVars
<1>2. \/ poker' = [poker EXCEPT !.at = "ended"]
      \/ poker' = [poker EXCEPT !.at = "check", !.job = Head(queue)]
  BY Zenon DEF TakeJob
<1>3. DOMAIN poker' = {"at", "job", "rc", "joined"}
  <2>1. CASE poker' = [poker EXCEPT !.at = "ended"]
    BY <2>1, SMT DEF Shaped
  <2>2. CASE poker' = [poker EXCEPT !.at = "check", !.job = Head(queue)]
    BY <2>2, SMT DEF Shaped
  <2>3. QED
    BY <1>2, <2>1, <2>2, Zenon
<1>4. QED
  BY <1>1, <1>3, Zenon

\* BeginPoke changes the place of the thread, and perhaps its job.
LEMMA PokeBegun ==
    ASSUME Shaped, BeginPoke
    PROVE  /\ UNCHANGED <<puncher, unmount, crossed, swallowed>> /\ poker.at = "check"
           /\ DOMAIN poker' = {"at", "job", "rc", "joined"}
<1>1. UNCHANGED <<puncher, unmount, crossed, swallowed>> /\ poker.at = "check"
  BY Zenon DEF BeginPoke, PokerFrame, requestVars
<1>2. \/ poker' = [poker EXCEPT !.at = "wait", !.job = NoJob]
      \/ poker' = [poker EXCEPT !.at = "lookup"]
  BY Zenon DEF BeginPoke
<1>3. DOMAIN poker' = {"at", "job", "rc", "joined"}
  <2>1. CASE poker' = [poker EXCEPT !.at = "wait", !.job = NoJob]
    BY <2>1, SMT DEF Shaped
  <2>2. CASE poker' = [poker EXCEPT !.at = "lookup"]
    BY <2>2, SMT DEF Shaped
  <2>3. QED
    BY <1>2, <2>1, <2>2, Zenon
<1>4. QED
  BY <1>1, <1>3, Zenon

\* PokeAsk keeps the job, and the thread asks again or is done.
LEMMA PokeAsked ==
    ASSUME Shaped, PokeAsk
    PROVE  /\ UNCHANGED <<puncher, unmount, running>> /\ poker.at = "ask"
           /\ poker'.at \in {"ask", "clear"} /\ poker'.job = poker.job
           /\ DOMAIN poker' = {"at", "job", "rc", "joined"}
<1>1. UNCHANGED <<puncher, unmount, running>> /\ poker.at = "ask"
  BY Zenon DEF PokeAsk, PokerFrame
<1>2. \/ poker' = [poker EXCEPT !.at = "clear", !.rc = "ok"]
      \/ poker' = [poker EXCEPT !.at = "clear", !.rc = "failed"]
      \/ poker' = poker
  BY Zenon DEF PokeAsk
<1>3. /\ poker'.at \in {"ask", "clear"} /\ poker'.job = poker.job
      /\ DOMAIN poker' = {"at", "job", "rc", "joined"}
  <2>1. CASE poker' = [poker EXCEPT !.at = "clear", !.rc = "ok"]
    BY <2>1, <1>1, SMT DEF Shaped
  <2>2. CASE poker' = [poker EXCEPT !.at = "clear", !.rc = "failed"]
    BY <2>2, <1>1, SMT DEF Shaped
  <2>3. CASE poker' = poker
    BY <2>3, <1>1, SMT DEF Shaped
  <2>4. QED
    BY <1>2, <2>1, <2>2, <2>3, Zenon
<1>4. QED
  BY <1>1, <1>3, Zenon

\* The poke thread starts, takes a job, and names its poke.
LEMMA PokerTakes ==
    ASSUME BridgeInv, VerifyRoot \/ TakeJob \/ BeginPoke
    PROVE  BridgeInv'
<1> USE DEF BridgeInv, Shaped
<1>1. /\ UNCHANGED <<puncher, unmount, crossed, swallowed>>
      /\ poker.at \in {"verify", "wait", "check"}
      /\ DOMAIN poker' = {"at", "job", "rc", "joined"}
  <2>1. CASE VerifyRoot
    BY <2>1, SMT DEF VerifyRoot, PokerFrame, requestVars
  <2>2. CASE TakeJob
    BY <2>2, JobTaken
  <2>3. CASE BeginPoke
    BY <2>3, PokeBegun
  <2>4. QED
    BY <2>1, <2>2, <2>3
<1>2. Shaped' /\ PokesStayHere'
  BY <1>1, Zenon DEF PokesStayHere
<1>3. active = NoActive
  BY <1>1, SMT DEF InFlight
<1>4. InFlight'
  <2>1. CASE VerifyRoot \/ TakeJob
    BY <2>1, <1>3, Zenon DEF VerifyRoot, TakeJob, InFlight
  <2>2. CASE BeginPoke
    <3>1. CASE active' = NoActive
      BY <3>1, Zenon DEF InFlight
    <3>2. CASE active' # NoActive
      <4>1. /\ PokeOf(poker.job) # "Utimens" /\ active' = ActiveOf(poker.job)
            /\ poker' = [poker EXCEPT !.at = "lookup"]
        BY <2>2, <3>2, <1>3, Zenon DEF BeginPoke
      <4>2. poker'.at = "lookup" /\ poker'.job = poker.job
        BY <4>1, SMT
      <4>3. PokeOf(poker'.job) # "Utimens" /\ active' = ActiveOf(poker'.job)
        BY <4>1, <4>2, Zenon
      <4>4. QED
        BY <4>2, <4>3, Zenon DEF InFlight, ActiveOf, PokeOf
    <3>3. QED
      BY <3>1, <3>2
  <2>3. QED
    BY <2>1, <2>2
<1>5. Ending'
  BY <1>1, SMT DEF VerifyRoot, TakeJob, BeginPoke, Ending
<1>6. QED
  BY <1>2, <1>4, <1>5 DEF BridgeInv

\* The system call runs to its end: the record is the job's or gone.
LEMMA PokerCalls ==
    ASSUME BridgeInv, PokeLookup \/ PokeEndsEarly \/ PokeAsk
    PROVE  BridgeInv'
<1> USE DEF BridgeInv, Shaped, PokerFrame
<1>1. /\ UNCHANGED <<puncher, unmount, running>>
      /\ poker.at \in {"lookup", "ask"}
      /\ poker'.at \in {"ask", "clear"} /\ poker'.job = poker.job
      /\ DOMAIN poker' = {"at", "job", "rc", "joined"}
  <2>1. CASE PokeLookup
    BY <2>1, SMT DEF PokeLookup
  <2>2. CASE PokeEndsEarly
    BY <2>2, SMT DEF PokeEndsEarly
  <2>3. CASE PokeAsk
    BY <2>3, PokeAsked
  <2>4. QED
    BY <2>1, <2>2, <2>3
<1>2. active' \in {active, NoActive}
  BY Zenon DEF PokeLookup, PokeEndsEarly, PokeAsk
<1>3. crossed' = crossed /\ swallowed' \in {swallowed, swallowed \cup {Self}}
  <2>1. CASE PokeLookup \/ PokeEndsEarly
    BY <2>1, Zenon DEF PokeLookup, PokeEndsEarly, requestVars
  <2>2. CASE PokeAsk
    BY <2>2, SelfStays, Zenon DEF PokeAsk
  <2>3. QED
    BY <2>1, <2>2
<1>4. PokesStayHere'
  BY <1>3, SMT DEF PokesStayHere, Self
<1>5. InFlight'
  <2>1. ASSUME active' # NoActive
        PROVE  active' = active /\ active # NoActive
    BY <2>1, <1>2, Zenon
  <2>2. ASSUME active' # NoActive
        PROVE  PokeOf(poker'.job) # "Utimens" /\ active' = ActiveOf(poker'.job)
    BY <2>2, <2>1, <1>1, Zenon DEF InFlight
  <2>3. QED
    BY <2>2, <1>1, Zenon DEF InFlight, ActiveOf, PokeOf
<1>6. Ending'
  BY <1>1, SMT DEF Ending
<1>7. QED
  BY <1>1, <1>4, <1>5, <1>6 DEF BridgeInv

\* clear_active() leaves nothing; a touch had nothing to leave.
LEMMA PokerEnds == ASSUME BridgeInv, EndPoke PROVE BridgeInv'
<1> USE DEF BridgeInv, Shaped, PokerFrame
<1>1. /\ UNCHANGED <<puncher, unmount, running, crossed, swallowed>>
      /\ poker.at = "clear" /\ poker' = [poker EXCEPT !.at = "wait", !.job = NoJob,
                                                      !.rc = "none"]
  BY Zenon DEF EndPoke, requestVars
<1>2. active' = NoActive
  BY Zenon DEF EndPoke, InFlight
<1>3. DOMAIN poker' = {"at", "job", "rc", "joined"}
  BY <1>1, SMT
<1>4. Ending'
  BY <1>1, SMT DEF Ending
<1>5. QED
  BY <1>1, <1>2, <1>3, <1>4, Zenon DEF InFlight, PokesStayHere

\* The inval thread never comes back from its end.
LEMMA InvalSteps == ASSUME BridgeInv, InvalStep PROVE BridgeInv'
<1>1. /\ UNCHANGED <<active, running, poker, unmount, crossed, swallowed>>
      /\ puncher.at # "ended"
  BY SMT DEF InvalStep, InvalTake, InvalPunch, bridgeVars, requestVars
<1>2. DOMAIN puncher' = {"at", "path"}
  BY SMT DEF InvalStep, InvalTake, InvalPunch, BridgeInv, Shaped
<1>3. Ending'
  BY <1>1, Zenon DEF BridgeInv, Ending
<1>4. InFlight'
  BY <1>1, InFlightKept DEF BridgeInv
<1>5. QED
  BY <1>1, <1>2, <1>3, <1>4, Zenon DEF BridgeInv, Shaped, PokesStayHere

\* unmount() passes each join only when the thread has ended.
LEMMA UnmountSteps == ASSUME BridgeInv, UnmountBegin \/ UnmountStep PROVE BridgeInv'
<1> USE DEF UnmountFrame
<1>1. /\ UNCHANGED <<puncher, crossed, swallowed>>
      /\ active' \in {active, NoActive}
  BY Zenon DEF UnmountBegin, UnmountStep, BridgeStop, BridgeJoin, InvalStop, UnmountEnd,
               bridgeVars, requestVars
<1>2. /\ poker'.at = poker.at /\ poker'.job = poker.job
      /\ DOMAIN poker' = {"at", "job", "rc", "joined"}
  BY SMT DEF UnmountBegin, UnmountStep, BridgeStop, BridgeJoin, InvalStop, UnmountEnd,
             bridgeVars, BridgeInv, Shaped
<1>3. Ending'
  BY <1>1, <1>2, SMT DEF UnmountBegin, UnmountStep, BridgeStop, BridgeJoin, InvalStop,
                         UnmountEnd, bridgeVars, BridgeInv, Ending
<1>4. InFlight'
  BY <1>1, <1>2, InFlightKept DEF BridgeInv
<1>5. QED
  BY <1>1, <1>2, <1>3, <1>4, Zenon DEF BridgeInv, Shaped, PokesStayHere

\* Every step of every actor preserves the invariant.
LEMMA NextBridge == BridgeInv /\ [Next]_vars => BridgeInv'
<1> SUFFICES ASSUME BridgeInv, [Next]_vars PROVE BridgeInv'
  OBVIOUS
<1>1. CASE UNCHANGED vars
  <2>1. Aside
    BY <1>1, Zenon DEF vars, Aside, bridgeVars, punchVars, requestVars
  <2>2. QED
    BY <2>1, AsidePreserves
<1>2. CASE Next
  BY <1>2, HookSteps, AsidePreserves, UserSteps, PokerTakes, PokerCalls, PokerEnds,
     InvalSteps, UnmountSteps, Zenon DEF Next, PokerStep
<1>3. QED
  BY <1>1, <1>2

\* The inductive invariant of the bridge and its mount.
THEOREM BridgeInvariant == Spec => []BridgeInv
<1>1. QED
  BY InitBridge, NextBridge, PTL DEF Spec

\* Whatever the bridge and the users of the mount do to the same path at
\* once, no poke is forwarded to the agent and no user's request is answered
\* in its stead (claim_poke in every changing FUSE handler).
THEOREM PokesNeverCross == Spec => []PokesStayHere
<1>1. BridgeInv => PokesStayHere
  BY DEF BridgeInv
<1>2. QED
  BY <1>1, BridgeInvariant, PTL

\* The record of a poke never outlives the system call it was made for
\* (deliver sets it, every way out of deliver clears it).
THEOREM RecordIsInFlight == Spec => []ActiveIsInFlight
<1>1. BridgeInv => ActiveIsInFlight
  BY Zenon DEF BridgeInv, InFlight, ActiveIsInFlight
<1>2. QED
  BY <1>1, BridgeInvariant, PTL

\* When unmount() has returned, the poke thread makes no more calls on the
\* mount and the inval thread has ended (FuseMount::unmount).
THEOREM UnmountLeavesNone == Spec => []UnmountIsLast
<1>1. BridgeInv => UnmountIsLast
  BY SMT DEF BridgeInv, Ending, UnmountIsLast
<1>2. QED
  BY <1>1, BridgeInvariant, PTL
=============================================================================
