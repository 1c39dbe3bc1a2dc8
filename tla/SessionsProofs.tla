--------------------------- MODULE SessionsProofs ---------------------------
(***************************************************************************)
(* The invariants of Sessions, for every set of connections, every way to  *)
(* start agent and clients, and every limit.                               *)
(***************************************************************************)
EXTENDS Sessions, TLAPS

Typed ==
    /\ phase \in [Session -> {"idle", "joining", "serving", "answering", "leaving", "waiting",
                              "gone"}]
    /\ client \in [Session -> {"idle", "hello", "auth", "connected", "failed", "closed"}]
    /\ frame \in [Session -> {"none", "Hello", "Auth", "Snapshot"}]
    /\ authed \in [Session -> BOOLEAN] /\ open \in [Session -> BOOLEAN]
    /\ snapshot \in [Session -> Int] /\ got \in [Session -> SUBSET Int]
    /\ generation \in Nat /\ inFlight \in Int
    /\ peers \subseteq Session /\ targets \subseteq Session
    /\ flusher \in {"loop", "parking", "asleep", "taken", "sending", "done"}

(* The counter counts the flusher's own broadcast, and only during it are  *)
(* there channels to send on.                                              *)
InBroadcast ==
    /\ inFlight = IF flusher = "sending" THEN 1 ELSE 0
    /\ flusher # "sending" => targets = {}

(* Where the thread of a session can be that broadcasts go to, now or when *)
(* the broadcast under way began; one that serves an open session is in    *)
(* the broadcast set; one that joins it has asked for nothing yet.         *)
Member(s) ==
    /\ s \in peers => authed[s] /\ phase[s] \in {"serving", "answering", "leaving"}
    /\ s \in targets => authed[s] /\ phase[s] \in {"serving", "answering", "leaving", "waiting"}
    /\ authed[s] /\ phase[s] \in {"serving", "answering"} => s \in peers
    /\ phase[s] = "joining" => authed[s] /\ snapshot[s] = -1

Membership == \A s \in Session : Member(s)

(* What both ends know.  A session of an agent without a token is open     *)
(* from its first moment, one that asks for a token is not before the      *)
(* proof has been taken, and one nobody has accepted is as it started.     *)
Agreed(s) ==
    /\ authed[s] /\ secret # NoToken => holds[s] = secret
    /\ client[s] = "connected" => authed[s] /\ holds[s] = secret
    /\ phase[s] \notin {"idle", "gone"} /\ secret = NoToken => authed[s]
    /\ phase[s] = "idle" => client[s] = "idle" /\ frame[s] = "none" /\ ~authed[s]
    /\ secret # NoToken /\ (client[s] = "idle" \/ frame[s] = "Hello") => ~authed[s]
    /\ frame[s] = "Auth" => ~authed[s]
    /\ snapshot[s] # -1 => authed[s] /\ phase[s] # "idle"

Handshake == \A s \in Session : Agreed(s)

(* A session with a snapshot has been sent every generation after it, but  *)
(* for the one the flusher has not come to send yet.                       *)
Sent(s, g) ==
    \/ g \in got[s]
    \/ g = generation /\ flusher = "taken"
    \/ g = generation /\ flusher = "sending" /\ s \in targets

UpToDate(s) ==
    snapshot[s] # -1 /\ open[s] /\ phase[s] \in {"serving", "answering"} =>
        \A g \in 1 .. generation : g > snapshot[s] => Sent(s, g)

Delivered == \A s \in Session : UpToDate(s)

SessInv == Typed /\ InBroadcast /\ Membership /\ Handshake /\ Delivered

-----------------------------------------------------------------------------
(* The agent starts with no session, no peer and no batch. *)
LEMMA InitEstablishes == SessInit => SessInv
BY DEF SessInit, SessInv, Typed, InBroadcast, Membership, Member, Handshake, Agreed,
       Delivered, UpToDate, Sent

(* A step that changes nothing. *)
LEMMA StepNothing ==
    ASSUME SessInv, UNCHANGED sessVars
    PROVE  SessInv'
BY DEF SessInv, Typed, InBroadcast, Membership, Member, Handshake, Agreed, Delivered,
       UpToDate, Sent,
       sessVars, flusherVars, stopVars, threadVars, clientVars

(* What the client's end does is the agent's business only once it is read. *)
LEMMA ClientSteps ==
    ASSUME NEW s \in Session, SessInv,
           SendHello(s) \/ SendRequest(s) \/ Disconnect(s) \/ Stall(s)
    PROVE  SessInv'
<1> USE DEF SessInv, Typed, InBroadcast, Membership, Member, Handshake, Agreed,
            Delivered, UpToDate, Sent,
            flusherVars, stopVars, threadVars, clientVars
<1>1. CASE SendHello(s)
  BY <1>1 DEF SendHello
<1>2. CASE SendRequest(s)
  BY <1>2 DEF SendRequest
<1>3. CASE Disconnect(s)
  BY <1>3 DEF Disconnect
<1>4. CASE Stall(s)
  BY <1>4 DEF Stall
<1> HIDE DEF SessInv
<1> QED
  BY <1>1, <1>2, <1>3, <1>4

(* serve() returns: no broadcast may know the session any more. *)
LEMMA SessionEndsSafely ==
    ASSUME NEW s \in Session, SessInv, SessionEnds(s), s \notin peers, s \notin targets
    PROVE  SessInv'
<1> USE DEF SessInv, SessionEnds, flusherVars, stopVars, threadVars, clientVars
<1>1. Typed' /\ InBroadcast'
  BY DEF Typed, InBroadcast
<1>2. ASSUME NEW t \in Session
      PROVE  Member(t)' /\ Agreed(t)'
  <2>1. CASE t = s
    BY <2>1 DEF Typed, Member, Agreed
  <2>2. CASE t # s
    BY <2>2 DEF Typed, Membership, Member, Handshake, Agreed
  <2> QED
    BY <2>1, <2>2
<1>3. Delivered'
  BY DEF Typed, Delivered, UpToDate, Sent
<1> QED
  BY <1>1, <1>2, <1>3 DEF Membership, Handshake

(* The accept loop takes a connection; without a token it is open at once. *)
LEMMA StepAccept ==
    ASSUME NEW s \in Session, SessInv, Accept(s)
    PROVE  SessInv'
<1>1. s \notin peers /\ s \notin targets
  BY DEF Accept, SessInv, Membership, Member
<1>2. CASE SessionEnds(s)
  BY <1>1, <1>2, SessionEndsSafely
<1>3. CASE ~SessionEnds(s)
  <2>1. /\ authed' = [authed EXCEPT ![s] = (secret = NoToken)]
        /\ phase' = [phase EXCEPT ![s] = IF secret = NoToken THEN "joining" ELSE "serving"]
        /\ UNCHANGED <<secret, stopVars, flusherVars, peers, greeted, snapshot, open,
                       clientVars, got>>
    BY <1>3 DEF Accept
  <2>2. phase[s] = "idle"
    BY DEF Accept
  <2>3. CASE secret = NoToken
    <3>1. /\ authed' = [authed EXCEPT ![s] = TRUE]
          /\ phase' = [phase EXCEPT ![s] = "joining"]
      <4>1. (secret = NoToken) = TRUE
        BY <2>3
      <4> QED
        BY <2>1, <2>3, <4>1, Zenon
    <3>2. Typed' /\ InBroadcast'
      BY <2>1, <3>1 DEF SessInv, Typed, InBroadcast, flusherVars, clientVars
    <3>3. ASSUME NEW t \in Session, t # s
          PROVE  Member(t)' /\ Agreed(t)'
      BY <2>1, <3>1, <3>3 DEF SessInv, Typed, Membership, Member, Handshake, Agreed,
                              flusherVars, clientVars
    <3>4. Member(s)' /\ Agreed(s)'
      BY <1>1, <2>1, <2>2, <2>3, <3>1
      DEF SessInv, Typed, Member, Handshake, Agreed, flusherVars, clientVars
    <3>5. Delivered'
      BY <2>1, <2>2, <3>1
      DEF SessInv, Typed, Handshake, Agreed, Delivered, UpToDate, Sent, flusherVars
    <3> QED
      BY <3>2, <3>3, <3>4, <3>5 DEF SessInv, Membership, Handshake
  <2>4. CASE secret # NoToken
    <3>1. /\ authed' = [authed EXCEPT ![s] = FALSE]
          /\ phase' = [phase EXCEPT ![s] = "serving"]
      <4>1. (secret = NoToken) = FALSE
        BY <2>4
      <4> QED
        BY <2>1, <2>4, <4>1, Zenon
    <3>2. Typed' /\ InBroadcast'
      BY <2>1, <3>1 DEF SessInv, Typed, InBroadcast, flusherVars, clientVars
    <3>3. ASSUME NEW t \in Session, t # s
          PROVE  Member(t)' /\ Agreed(t)'
      BY <2>1, <3>1, <3>3 DEF SessInv, Typed, Membership, Member, Handshake, Agreed,
                              flusherVars, clientVars
    <3>4. Member(s)' /\ Agreed(s)'
      BY <1>1, <2>1, <2>2, <2>4, <3>1
      DEF SessInv, Typed, Member, Handshake, Agreed, flusherVars, clientVars
    <3>5. Delivered'
      BY <2>1, <2>2, <3>1
      DEF SessInv, Typed, Handshake, Agreed, Delivered, UpToDate, Sent, flusherVars
    <3> QED
      BY <3>2, <3>3, <3>4, <3>5 DEF SessInv, Membership, Handshake
  <2> QED
    BY <2>3, <2>4
<1> QED
  BY <1>2, <1>3

(* serve() waits for the broadcasts in flight: then none has a channel to  *)
(* send on.                                                                *)
LEMMA StepReturns ==
    ASSUME NEW s \in Session, SessInv, Returns(s)
    PROVE  SessInv'
<1>1. s \notin peers
  BY DEF Returns, SessInv, Membership, Member
<1>2. s \notin targets
  BY DEF Returns, SessInv, InBroadcast
<1> QED
  BY <1>1, <1>2, SessionEndsSafely DEF Returns

(* The steps of serve() that neither open a session nor join the broadcast *)
(* set.                                                                    *)
LEMMA ServeSteps ==
    ASSUME NEW s \in Session, SessInv,
           HandleHello(s) \/ AnswerFails(s) \/ Hangup(s) \/ PollEnds(s)
    PROVE  SessInv'
<1> USE DEF SessInv, Typed, InBroadcast, Membership, Member, Handshake, Agreed,
            Delivered, UpToDate, Sent,
            flusherVars, stopVars, threadVars, clientVars
<1>1. CASE HandleHello(s)
  BY <1>1 DEF HandleHello, Serving, Refused, OnHelloAck
<1>2. CASE AnswerFails(s)
  BY <1>2 DEF AnswerFails
<1>3. CASE Hangup(s)
  BY <1>3 DEF Hangup
<1>4. CASE PollEnds(s)
  BY <1>4 DEF PollEnds
<1> HIDE DEF SessInv
<1> QED
  BY <1>1, <1>2, <1>3, <1>4

(* The session is in the broadcast set from the moment it is served, unless *)
(* the agent is stopping.                                                  *)
LEMMA StepJoins ==
    ASSUME NEW s \in Session, SessInv, Joins(s)
    PROVE  SessInv'
<1> USE DEF SessInv, Typed, InBroadcast, Membership, Member, Handshake, Agreed,
            Delivered, UpToDate, Sent,
            flusherVars, stopVars, threadVars, clientVars
<1>1. CASE stopping
  <2>1. phase' = [phase EXCEPT ![s] = "leaving"] /\ UNCHANGED peers
    BY <1>1 DEF Joins, AddPeer
  <2> QED
    BY <2>1 DEF Joins
<1>2. CASE ~stopping
  <2>1. phase' = [phase EXCEPT ![s] = "serving"] /\ peers' = peers \cup {s}
    BY <1>2 DEF Joins, AddPeer
  <2> QED
    BY <2>1 DEF Joins
<1> QED
  BY <1>1, <1>2

(* A refused frame sends the session's thread on its way out. *)
LEMMA StepRefuse ==
    ASSUME NEW s \in Session, SessInv, Refuse(s)
    PROVE  SessInv'
<1> USE DEF SessInv, flusherVars, stopVars, threadVars, clientVars
<1>1. Typed'
  BY DEF Refuse, Serving, Refused, Typed
<1>2. InBroadcast'
  BY DEF Refuse, Serving, Refused, InBroadcast
<1>3. ASSUME NEW t \in Session
      PROVE  Member(t)'
  <2>1. CASE t = s
    BY <2>1 DEF Refuse, Serving, Refused, Handshake, Agreed, Membership, Member, Typed,
         InBroadcast
  <2>2. CASE t # s
    BY <2>2 DEF Refuse, Serving, Refused, Handshake, Agreed, Membership, Member, Typed,
         InBroadcast
  <2> QED
    BY <2>1, <2>2
<1>4. ASSUME NEW t \in Session
      PROVE  Agreed(t)'
  <2>1. CASE t = s
    BY <2>1 DEF Refuse, Serving, Refused, Handshake, Agreed, Typed
  <2>2. CASE t # s
    BY <2>2 DEF Refuse, Serving, Refused, Handshake, Agreed, Typed
  <2> QED
    BY <2>1, <2>2
<1>5. ASSUME NEW t \in Session
      PROVE  UpToDate(t)'
  <2>1. CASE t = s
    BY <2>1 DEF Refuse, Serving, Refused, Membership, Member, Handshake, Agreed,
                Delivered,
         UpToDate, Sent, Typed, InBroadcast
  <2>2. CASE t # s
    BY <2>2 DEF Refuse, Serving, Refused, Membership, Member, Handshake, Agreed,
                Delivered,
         UpToDate, Sent, Typed, InBroadcast
  <2> QED
    BY <2>1, <2>2
<1> QED
  BY <1>1, <1>2, <1>3, <1>4, <1>5 DEF Membership, Handshake, Delivered

(* A session that leaves is known to the broadcast under way at most. *)
LEMMA StepDeregister ==
    ASSUME NEW s \in Session, SessInv, Deregister(s)
    PROVE  SessInv'
<1> USE DEF SessInv, flusherVars, stopVars, threadVars, clientVars
<1>1. Typed'
  BY DEF Deregister, Typed
<1>2. InBroadcast'
  BY DEF Deregister, InBroadcast
<1>3. ASSUME NEW t \in Session
      PROVE  Member(t)'
  <2>1. CASE t = s
    BY <2>1 DEF Deregister, Handshake, Agreed, Membership, Member, Typed, InBroadcast
  <2>2. CASE t # s
    BY <2>2 DEF Deregister, Handshake, Agreed, Membership, Member, Typed, InBroadcast
  <2> QED
    BY <2>1, <2>2
<1>4. ASSUME NEW t \in Session
      PROVE  Agreed(t)'
  <2>1. CASE t = s
    BY <2>1 DEF Deregister, Handshake, Agreed, Typed
  <2>2. CASE t # s
    BY <2>2 DEF Deregister, Handshake, Agreed, Typed
  <2> QED
    BY <2>1, <2>2
<1>5. ASSUME NEW t \in Session
      PROVE  UpToDate(t)'
  <2>1. CASE t = s
    BY <2>1 DEF Deregister, Membership, Member, Handshake, Agreed, Delivered,
                UpToDate, Sent,
         Typed, InBroadcast
  <2>2. CASE t # s
    BY <2>2 DEF Deregister, Membership, Member, Handshake, Agreed, Delivered,
                UpToDate, Sent,
         Typed, InBroadcast
  <2> QED
    BY <2>1, <2>2
<1> QED
  BY <1>1, <1>2, <1>3, <1>4, <1>5 DEF Membership, Handshake, Delivered

(* Without randomness for a nonce the session's thread leaves as well. *)
LEMMA StepNoEntropy ==
    ASSUME NEW s \in Session, SessInv, NoEntropy(s)
    PROVE  SessInv'
<1> USE DEF SessInv, flusherVars, stopVars, threadVars, clientVars
<1>1. Typed'
  BY DEF NoEntropy, Serving, Refused, Typed
<1>2. InBroadcast'
  BY DEF NoEntropy, Serving, Refused, InBroadcast
<1>3. ASSUME NEW t \in Session
      PROVE  Member(t)'
  <2>1. CASE t = s
    BY <2>1 DEF NoEntropy, Serving, Refused, Handshake, Agreed, Membership, Member,
                Typed,
         InBroadcast
  <2>2. CASE t # s
    BY <2>2 DEF NoEntropy, Serving, Refused, Handshake, Agreed, Membership, Member,
                Typed,
         InBroadcast
  <2> QED
    BY <2>1, <2>2
<1>4. ASSUME NEW t \in Session
      PROVE  Agreed(t)'
  <2>1. CASE t = s
    BY <2>1 DEF NoEntropy, Serving, Refused, Handshake, Agreed, Typed
  <2>2. CASE t # s
    BY <2>2 DEF NoEntropy, Serving, Refused, Handshake, Agreed, Typed
  <2> QED
    BY <2>1, <2>2
<1>5. ASSUME NEW t \in Session
      PROVE  UpToDate(t)'
  <2>1. CASE t = s
    BY <2>1 DEF NoEntropy, Serving, Refused, Membership, Member, Handshake, Agreed,
                Delivered,
         UpToDate, Sent, Typed, InBroadcast
  <2>2. CASE t # s
    BY <2>2 DEF NoEntropy, Serving, Refused, Membership, Member, Handshake, Agreed,
                Delivered,
         UpToDate, Sent, Typed, InBroadcast
  <2> QED
    BY <2>1, <2>2
<1> QED
  BY <1>1, <1>2, <1>3, <1>4, <1>5 DEF Membership, Handshake, Delivered

(* The proof opens a session that no broadcast knows yet. *)
LEMMA StepHandleAuth ==
    ASSUME NEW s \in Session, SessInv, HandleAuth(s)
    PROVE  SessInv'
<1> USE DEF SessInv, flusherVars, stopVars, threadVars, clientVars
<1>1. Typed'
  BY DEF HandleAuth, Serving, Refused, Typed
<1>2. InBroadcast'
  BY DEF HandleAuth, Serving, Refused, InBroadcast
<1>3. ASSUME NEW t \in Session
      PROVE  Member(t)'
  <2>1. CASE t = s
    BY <2>1 DEF HandleAuth, Serving, Refused, Handshake, Agreed, Membership, Member,
                Typed,
         InBroadcast
  <2>2. CASE t # s
    BY <2>2 DEF HandleAuth, Serving, Refused, Handshake, Agreed, Membership, Member,
                Typed,
         InBroadcast
  <2> QED
    BY <2>1, <2>2
<1>4. ASSUME NEW t \in Session
      PROVE  Agreed(t)'
  <2>1. CASE t = s
    BY <2>1 DEF HandleAuth, Serving, Refused, Handshake, Agreed, Typed
  <2>2. CASE t # s
    BY <2>2 DEF HandleAuth, Serving, Refused, Handshake, Agreed, Typed
  <2> QED
    BY <2>1, <2>2
<1>5. ASSUME NEW t \in Session
      PROVE  UpToDate(t)'
  <2>1. CASE t = s
    BY <2>1 DEF HandleAuth, Serving, Refused, Membership, Member, Handshake, Agreed,
                Delivered,
         UpToDate, Sent, Typed, InBroadcast
  <2>2. CASE t # s
    BY <2>2 DEF HandleAuth, Serving, Refused, Membership, Member, Handshake, Agreed,
                Delivered,
         UpToDate, Sent, Typed, InBroadcast
  <2> QED
    BY <2>1, <2>2
<1> QED
  BY <1>1, <1>2, <1>3, <1>4, <1>5 DEF Membership, Handshake, Delivered

(* A snapshot is stamped by a session that is in the broadcast set. *)
LEMMA StepHandleRequest ==
    ASSUME NEW s \in Session, SessInv, HandleRequest(s)
    PROVE  SessInv'
<1> USE DEF SessInv, flusherVars, stopVars, threadVars, clientVars
<1>1. Typed'
  BY DEF HandleRequest, Serving, Refused, Typed
<1>2. InBroadcast'
  BY DEF HandleRequest, Serving, Refused, InBroadcast
<1>3. ASSUME NEW t \in Session
      PROVE  Member(t)'
  <2>1. CASE t = s
    BY <2>1 DEF HandleRequest, Serving, Refused, Handshake, Agreed, Membership,
                Member, Typed,
         InBroadcast
  <2>2. CASE t # s
    BY <2>2 DEF HandleRequest, Serving, Refused, Handshake, Agreed, Membership,
                Member, Typed,
         InBroadcast
  <2> QED
    BY <2>1, <2>2
<1>4. ASSUME NEW t \in Session
      PROVE  Agreed(t)'
  <2>1. CASE t = s
    BY <2>1 DEF HandleRequest, Serving, Refused, Handshake, Agreed, Typed
  <2>2. CASE t # s
    BY <2>2 DEF HandleRequest, Serving, Refused, Handshake, Agreed, Typed
  <2> QED
    BY <2>1, <2>2
<1>5. ASSUME NEW t \in Session
      PROVE  UpToDate(t)'
  <2>1. CASE t = s
    <3>1. snapshot'[t] = generation' /\ generation' \in Nat
      BY <2>1 DEF HandleRequest, Typed
    <3> QED
      BY <3>1 DEF UpToDate
  <2>2. CASE t # s
    <3>1. snapshot'[t] = snapshot[t] /\ phase'[t] = phase[t]
      BY <2>2 DEF HandleRequest, Typed
    <3>2. UNCHANGED <<open, got, generation, flusher, targets>>
      BY DEF HandleRequest
    <3> QED
      BY <3>1, <3>2 DEF Delivered, UpToDate, Sent
  <2> QED
    BY <2>1, <2>2
<1> QED
  BY <1>1, <1>2, <1>3, <1>4, <1>5 DEF Membership, Handshake, Delivered

(* The steps of the flusher and of stop() that touch no session but to     *)
(* close its socket.                                                       *)
LEMMA QuietSteps ==
    ASSUME SessInv,
           OnEvent \/ Park \/ Wake \/ StopBegins \/ StopNotifies \/ StopShutsDown \/ StopJoins
    PROVE  SessInv'
<1> USE DEF SessInv, Typed, InBroadcast, Membership, Member, Handshake, Agreed,
            Delivered, UpToDate, Sent,
            flusherVars, stopVars, threadVars, clientVars
<1>1. CASE OnEvent
  BY <1>1 DEF OnEvent
<1>2. CASE Park
  BY <1>2 DEF Park
<1>3. CASE Wake
  BY <1>3 DEF Wake
<1>4. CASE StopBegins
  BY <1>4 DEF StopBegins
<1>5. CASE StopNotifies
  BY <1>5 DEF StopNotifies
<1>6. CASE StopShutsDown
  BY <1>6 DEF StopShutsDown
<1>7. CASE StopJoins
  BY <1>7 DEF StopJoins
<1> HIDE DEF SessInv
<1> QED
  BY <1>1, <1>2, <1>3, <1>4, <1>5, <1>6, <1>7

(* The flusher takes a batch: its generation is the one not sent yet. *)
LEMMA StepFlushTurn ==
    ASSUME SessInv, FlushTurn
    PROVE  SessInv'
<1> USE DEF SessInv, flusherVars, stopVars, threadVars, clientVars
<1>1. Typed'
  BY DEF FlushTurn, Typed
<1>2. InBroadcast'
  BY DEF FlushTurn, InBroadcast
<1>3. ASSUME NEW t \in Session
      PROVE  Member(t)'
  BY DEF FlushTurn, Handshake, Agreed, Membership, Member, Typed, InBroadcast
<1>4. ASSUME NEW t \in Session
      PROVE  Agreed(t)'
  BY DEF FlushTurn, Handshake, Agreed, Typed
<1>5. ASSUME NEW t \in Session
      PROVE  UpToDate(t)'
  <2>1. CASE flusher' = "taken"
    <3>1. generation' = generation + 1 /\ generation \in Nat /\ flusher = "loop"
      BY <2>1 DEF FlushTurn, Typed
    <3>2. UNCHANGED <<snapshot, open, phase, got>>
      BY DEF FlushTurn
    <3> QED
      BY <2>1, <3>1, <3>2 DEF Delivered, UpToDate, Sent
  <2>2. CASE flusher' # "taken"
    <3>1. generation' = generation /\ flusher = "loop"
      BY <2>2 DEF FlushTurn
    <3>2. UNCHANGED <<snapshot, open, phase, got>>
      BY DEF FlushTurn
    <3> QED
      BY <3>1, <3>2 DEF Delivered, UpToDate, Sent
  <2> QED
    BY <2>1, <2>2
<1> QED
  BY <1>1, <1>2, <1>3, <1>4, <1>5 DEF Membership, Handshake, Delivered

(* The broadcast begins with every session that is served. *)
LEMMA StepCopyPeers ==
    ASSUME SessInv, CopyPeers
    PROVE  SessInv'
<1> USE DEF SessInv, flusherVars, stopVars, threadVars, clientVars
<1>1. Typed'
  BY DEF CopyPeers, Typed
<1>2. InBroadcast'
  BY DEF CopyPeers, InBroadcast
<1>3. ASSUME NEW t \in Session
      PROVE  Member(t)'
  BY DEF CopyPeers, Handshake, Agreed, Membership, Member, Typed, InBroadcast
<1>4. ASSUME NEW t \in Session
      PROVE  Agreed(t)'
  BY DEF CopyPeers, Handshake, Agreed, Typed
<1>5. ASSUME NEW t \in Session
      PROVE  UpToDate(t)'
  BY DEF CopyPeers, Membership, Member, Handshake, Agreed, Delivered, UpToDate, Sent,
         Typed, InBroadcast
<1> QED
  BY <1>1, <1>2, <1>3, <1>4, <1>5 DEF Membership, Handshake, Delivered

(* broadcast returns when nobody is left to send to. *)
LEMMA StepEndBroadcast ==
    ASSUME SessInv, EndBroadcast
    PROVE  SessInv'
<1> USE DEF SessInv, flusherVars, stopVars, threadVars, clientVars
<1>1. Typed'
  BY DEF EndBroadcast, Typed
<1>2. InBroadcast'
  BY DEF EndBroadcast, InBroadcast
<1>3. ASSUME NEW t \in Session
      PROVE  Member(t)'
  BY DEF EndBroadcast, Handshake, Agreed, Membership, Member, Typed, InBroadcast
<1>4. ASSUME NEW t \in Session
      PROVE  Agreed(t)'
  BY DEF EndBroadcast, Handshake, Agreed, Typed
<1>5. ASSUME NEW t \in Session
      PROVE  UpToDate(t)'
  BY DEF EndBroadcast, Membership, Member, Handshake, Agreed, Delivered, UpToDate, Sent,
         Typed, InBroadcast
<1> QED
  BY <1>1, <1>2, <1>3, <1>4, <1>5 DEF Membership, Handshake, Delivered

(* The send to one session, which gets the batch unless its socket is      *)
(* closed or it does not read.                                             *)
LEMMA StepSendOne ==
    ASSUME NEW s \in Session, SessInv, SendOne(s)
    PROVE  SessInv'
<1> USE DEF SessInv, flusherVars, stopVars, threadVars, clientVars
<1>1. Typed'
  BY DEF SendOne, Typed
<1>2. InBroadcast'
  BY DEF SendOne, InBroadcast
<1>3. ASSUME NEW t \in Session
      PROVE  Member(t)'
  <2>1. CASE t = s
    BY <2>1 DEF SendOne, Handshake, Agreed, Membership, Member, Typed, InBroadcast
  <2>2. CASE t # s
    BY <2>2 DEF SendOne, Handshake, Agreed, Membership, Member, Typed, InBroadcast
  <2> QED
    BY <2>1, <2>2
<1>4. ASSUME NEW t \in Session
      PROVE  Agreed(t)'
  <2>1. UNCHANGED <<secret, holds, authed, client, phase, frame, snapshot>>
    BY Zenon DEF SendOne
  <2>2. Agreed(t)
    BY Zenon DEF Handshake
  <2> QED
    BY <2>1, <2>2, Zenon DEF Agreed
<1>5. ASSUME NEW t \in Session
      PROVE  UpToDate(t)'
  <2>1. CASE stuck' = {s} /\ UNCHANGED <<targets, got>>
    BY <2>1 DEF SendOne, Delivered, UpToDate, Sent
  <2>2. CASE /\ targets' = targets \ {s}
             /\ got' = [got EXCEPT ![s] = IF open[s] THEN @ \cup {generation} ELSE @]
    <3> got \in [Session -> SUBSET Int]
      BY DEF Typed
    <3> HIDE DEF SessInv
    <3>1. open[s] => got'[s] = got[s] \cup {generation}
      BY <2>2
    <3>2. t # s => got'[t] = got[t] /\ (t \in targets' <=> t \in targets)
      BY <2>2
    <3>3. UNCHANGED <<snapshot, open, phase, generation, flusher>>
      BY DEF SendOne
    <3>4. UpToDate(t)
      BY DEF SessInv, Delivered
    <3> QED
      BY <3>1, <3>2, <3>3, <3>4 DEF UpToDate, Sent
  <2> QED
    BY <2>1, <2>2 DEF SendOne
<1> QED
  BY <1>1, <1>2, <1>3, <1>4, <1>5 DEF Membership, Handshake, Delivered

(* A send that blocked ends with the socket closed. *)
LEMMA SendFails ==
    ASSUME NEW s \in Session, SessInv,
           SendEnds(s) \/ SendTimesOut(s)
    PROVE  SessInv'
<1> USE DEF SessInv, Typed, InBroadcast, Membership, Member, Handshake, Agreed,
            Delivered, UpToDate, Sent,
            flusherVars, stopVars, threadVars, clientVars
<1>1. CASE SendEnds(s)
  BY <1>1 DEF SendEnds
<1>2. CASE SendTimesOut(s)
  BY <1>2 DEF SendTimesOut
<1> HIDE DEF SessInv
<1> QED
  BY <1>1, <1>2

(* Every step of every thread preserves the invariant. *)
LEMMA NextPreserves ==
    ASSUME SessInv, [SessNext]_sessVars
    PROVE  SessInv'
<1>1. CASE OnEvent \/ StopBegins \/ Stop
  BY <1>1, QuietSteps DEF Stop
<1>2. CASE Flush
  BY <1>2, StepFlushTurn, QuietSteps, StepCopyPeers, StepEndBroadcast, StepSendOne,
     SendFails DEF Flush
<1>3. ASSUME NEW s \in Session, Peer(s)
      PROVE  SessInv'
  BY <1>3, StepAccept, ClientSteps DEF Peer
<1>4. ASSUME NEW s \in Session, Serve(s)
      PROVE  SessInv'
  BY <1>4, StepJoins, ServeSteps, StepRefuse, StepDeregister, StepNoEntropy,
     StepHandleAuth, StepHandleRequest, StepReturns DEF Serve
<1> QED
  BY <1>1, <1>2, <1>3, <1>4, StepNothing DEF SessNext

(* The inductive invariant holds throughout. *)
THEOREM SessionInvariant == SessSpec => []SessInv
<1>1. SessInv /\ [SessNext]_sessVars => SessInv'
  BY NextPreserves
<1> QED
  BY InitEstablishes, <1>1, PTL DEF SessSpec

(* Only clients with the agent's token are served or broadcast to, and a   *)
(* client that takes itself to be connected has an open session            *)
(* (server.cpp serve, handle; client.cpp connect).                         *)
THEOREM HandshakeSafe == SessSpec => []HandshakeAgrees
<1>1. SessInv => HandshakeAgrees
  BY DEF SessInv, Typed, Membership, Member, Handshake, Agreed, HandshakeAgrees
<1> QED
  BY SessionInvariant, <1>1, PTL

(* No channel is destroyed while a broadcast has still to send on it       *)
(* (server.cpp broadcast, serve).                                          *)
THEOREM ChannelsSafe == SessSpec => []ChannelsOutliveSends
<1>1. SessInv => ChannelsOutliveSends
  BY DEF SessInv, Typed, Membership, Member, ChannelsOutliveSends
<1> QED
  BY SessionInvariant, <1>1, PTL

(* An open session has been sent every batch that its snapshot does not    *)
(* include (server.cpp add_peer, send_snapshot, broadcast).                *)
THEOREM BatchesDelivered == SessSpec => []BatchesReachMirrors
<1>1. SessInv => BatchesReachMirrors
  BY DEF SessInv, Delivered, UpToDate, Sent, BatchesReachMirrors, Broadcast
<1> QED
  BY SessionInvariant, <1>1, PTL
=============================================================================
