------------------------------ MODULE Sessions ------------------------------
(***************************************************************************)
(* The agent's sessions: the accept loop of wsldrived, serve() and its     *)
(* handshake, the broadcast set, the flusher that sends to it, and stop(). *)
(* One thread per session, the flusher and the thread that calls stop()    *)
(* interleave; a step that holds peers_mu_ or coalescer_mu_ throughout is  *)
(* one action.  The far end of every session runs RemoteRoot::connect().   *)
(* What a batch holds is MirrorSync's business: here it is a generation.   *)
(***************************************************************************)
EXTENDS Integers, FiniteSets

CONSTANTS
    Session,        \* connections, each used at most once
    Launch,         \* how agent and clients may be started: their tokens
    MaxSessions,    \* kMaxSessions of the accept loop
    MaxBatch        \* bound: batches the flusher sends

ASSUME SessionAssumption == MaxSessions \in Nat \ {0} /\ MaxBatch \in Nat

NoToken == ""

VARIABLES
    secret,         \* opts_.token: a token, or NoToken for --insecure-no-auth
    stopping,       \* stopping_
    stopper,        \* how far stop() is
    mu,             \* coalescer_mu_ is held by the parking flusher
    flusher,        \* how far flush_loop() is
    wake,           \* a notification the sleeping flusher has not consumed
    events,         \* the coalescer holds something
    generation,     \* generation_, starting at 0 here
    peers,          \* peers_
    targets,        \* broadcast()'s copy of peers_, less those sent to
    stuck,          \* the session, if any, whose send does not return
    inFlight,       \* broadcasts_in_flight_
    phase,          \* phase[s]: how far the thread of session s is
    authed,         \* authed[s], serve()'s local
    greeted,        \* greeted[s], hs.greeted
    open,           \* open[s]: nobody has shut the socket down
    frame,          \* frame[s]: what the client has sent and nobody has read
    client,         \* client[s]: how far connect() is
    holds,          \* holds[s]: the client's token, or NoToken
    reading,        \* reading[s]: the client drains its socket
    snapshot,       \* snapshot[s]: generation of the snapshot served, or -1
    got             \* got[s]: generations sent to the client

flusherVars == <<mu, flusher, wake, events, generation, targets, stuck, inFlight>>
stopVars == <<stopping, stopper>>
threadVars == <<phase, authed, greeted, snapshot>>
clientVars == <<frame, client, holds, reading>>
sessVars == <<secret, stopVars, flusherVars, peers, threadVars, open, clientVars, got>>

Live(s) == phase[s] \notin {"idle", "gone"}

SessInit ==
    /\ \E l \in Launch : secret = l.secret /\ holds = l.holds
    /\ stopping = FALSE /\ stopper = "idle"
    /\ mu = FALSE /\ flusher = "loop" /\ wake = FALSE /\ events = FALSE
    /\ generation = 0 /\ peers = {} /\ targets = {} /\ stuck = {} /\ inFlight = 0
    /\ phase = [s \in Session |-> "idle"]
    /\ authed = [s \in Session |-> FALSE]
    /\ greeted = [s \in Session |-> FALSE]
    /\ open = [s \in Session |-> TRUE]
    /\ frame = [s \in Session |-> "none"]
    /\ client = [s \in Session |-> "idle"]
    /\ reading = [s \in Session |-> TRUE]
    /\ snapshot = [s \in Session |-> -1]
    /\ got = [s \in Session |-> {}]

-----------------------------------------------------------------------------
(* The client's end: connect(), then requests, then closing the socket.    *)

SendHello(s) ==
    /\ client[s] = "idle" /\ phase[s] # "idle" /\ open[s]
    /\ client' = [client EXCEPT ![s] = "hello"]
    /\ frame' = [frame EXCEPT ![s] = "Hello"]
    /\ UNCHANGED <<secret, stopVars, flusherVars, peers, threadVars, open, holds, reading, got>>

(* A connected client asks for a snapshot: its first, or a rescan's.       *)
SendRequest(s) ==
    /\ client[s] = "connected" /\ frame[s] = "none" /\ open[s]
    /\ frame' = [frame EXCEPT ![s] = "Snapshot"]
    /\ UNCHANGED <<secret, stopVars, flusherVars, peers, threadVars, open, client, holds, reading, got>>

(* The client goes away, or stops draining its socket for longer than a    *)
(* send may take.                                                          *)
Disconnect(s) ==
    /\ phase[s] # "idle" /\ open[s]
    /\ open' = [open EXCEPT ![s] = FALSE]
    /\ client' = [client EXCEPT ![s] = "closed"]
    /\ reading' = [reading EXCEPT ![s] = TRUE]
    /\ UNCHANGED <<secret, stopVars, flusherVars, peers, threadVars, frame, holds, got>>

Stall(s) ==
    /\ client[s] = "connected" /\ reading[s] /\ open[s]
    /\ reading' = [reading EXCEPT ![s] = FALSE]
    /\ UNCHANGED <<secret, stopVars, flusherVars, peers, threadVars, open, frame, client, holds, got>>

(* What connect() does with a HelloAck: without a token it is done; with   *)
(* one it checks the agent's proof before it proves anything itself.  Two  *)
(* proofs over the same nonces agree exactly when the tokens do.           *)
OnHelloAck(s) ==
    CASE holds[s] = NoToken -> "connected"
      [] holds[s] # NoToken /\ holds[s] = secret -> "auth"
      [] OTHER -> "failed"

-----------------------------------------------------------------------------
(* serve().                                                                *)

(* add_peer(): the send timeout it also sets is what lets SendTimesOut     *)
(* happen.                                                                 *)
AddPeer(s) ==
    IF stopping
      THEN phase' = [phase EXCEPT ![s] = "leaving"] /\ UNCHANGED peers
      ELSE phase' = [phase EXCEPT ![s] = "serving"] /\ peers' = peers \cup {s}

(* serve() returns: its locals, the channel and what was unread are gone.  *)
SessionEnds(s) ==
    /\ phase' = [phase EXCEPT ![s] = "gone"]
    /\ authed' = [authed EXCEPT ![s] = FALSE] /\ greeted' = [greeted EXCEPT ![s] = FALSE]
    /\ snapshot' = [snapshot EXCEPT ![s] = -1] /\ got' = [got EXCEPT ![s] = {}]
    /\ open' = [open EXCEPT ![s] = FALSE] /\ reading' = [reading EXCEPT ![s] = TRUE]
    /\ frame' = [frame EXCEPT ![s] = "none"] /\ client' = [client EXCEPT ![s] = "closed"]
    /\ UNCHANGED <<secret, stopVars, flusherVars, peers, holds>>

(* The accept loop starts a thread for serve(), unless too many sessions   *)
(* are left once the finished ones are reaped; serve() looks at stopping_  *)
(* before anything else and returns without deregistering.                 *)
Accept(s) ==
    /\ phase[s] = "idle"
    /\ IF stopping \/ Cardinality({t \in Session : Live(t)}) >= MaxSessions
         THEN SessionEnds(s)
         ELSE /\ authed' = [authed EXCEPT ![s] = secret = NoToken]
              /\ phase' = [phase EXCEPT ![s] = IF secret = NoToken THEN "joining" ELSE "serving"]
              /\ UNCHANGED <<secret, stopVars, flusherVars, peers, greeted, snapshot, open, clientVars, got>>

Joins(s) ==
    /\ phase[s] = "joining"
    /\ AddPeer(s)
    /\ UNCHANGED <<secret, stopVars, flusherVars, authed, greeted, snapshot, open, clientVars, got>>

(* The state in which the session's thread can take the frame waiting for  *)
(* it and answer: nobody else holds the channel's send_mu_.                *)
Serving(s) == phase[s] = "serving" /\ s \notin stuck

RefusedNoNonce(s) ==
    CASE frame[s] = "Hello" -> FALSE
      [] frame[s] = "Auth" -> ~greeted[s] \/ holds[s] # secret
      [] OTHER -> ~authed[s]

(* The frames handle() refuses, and with which it ends the session: a      *)
(* request before authentication, a Hello without a nonce, an Auth before  *)
(* the Hello or with the wrong proof.                                      *)
Refused(s) ==
    CASE frame[s] = "Hello" -> secret # NoToken /\ holds[s] = NoToken
      [] frame[s] = "Auth" -> ~greeted[s] \/ holds[s] # secret
      [] OTHER -> ~authed[s]

Refuse(s) ==
    /\ Serving(s) /\ frame[s] # "none" /\ Refused(s)
    /\ frame' = [frame EXCEPT ![s] = "none"]
    /\ client' = [client EXCEPT ![s] = "failed"]
    /\ phase' = [phase EXCEPT ![s] = "leaving"]
    /\ UNCHANGED <<secret, stopVars, flusherVars, peers, authed, greeted, snapshot, open, holds, reading, got>>

(* A Hello the agent answers: the session is open when there is no token.  *)
HandleHello(s) ==
    /\ Serving(s) /\ frame[s] = "Hello" /\ ~Refused(s)
    /\ greeted' = [greeted EXCEPT ![s] = secret # NoToken]
    /\ authed' = [authed EXCEPT ![s] = @ \/ secret = NoToken]
    /\ client' = [client EXCEPT ![s] = OnHelloAck(s)]
    /\ frame' = [frame EXCEPT ![s] = IF OnHelloAck(s) = "auth" THEN "Auth" ELSE "none"]
    /\ UNCHANGED <<secret, stopVars, flusherVars, peers, phase, snapshot, open, holds, reading, got>>

(* No entropy source for the nonce: the agent refuses rather than          *)
(* authenticate weakly.                                                    *)
NoEntropy(s) ==
    /\ Serving(s) /\ frame[s] = "Hello" /\ ~Refused(s) /\ secret # NoToken
    /\ frame' = [frame EXCEPT ![s] = "none"]
    /\ client' = [client EXCEPT ![s] = "failed"]
    /\ phase' = [phase EXCEPT ![s] = "leaving"]
    /\ UNCHANGED <<secret, stopVars, flusherVars, peers, authed, greeted, snapshot, open, holds, reading, got>>

(* The proof that opens the session.  The thread joins the broadcast set   *)
(* before it takes another frame.                                          *)
HandleAuthLate(s) ==
    /\ Serving(s) /\ frame[s] = "Auth" /\ ~Refused(s)
    /\ authed' = [authed EXCEPT ![s] = TRUE]
    /\ client' = [client EXCEPT ![s] = "connected"]
    /\ frame' = [frame EXCEPT ![s] = "none"]
    /\ UNCHANGED <<secret, stopVars, flusherVars, peers, phase, greeted, snapshot, open, holds, reading, got>>

HandleAuth(s) ==
    /\ Serving(s) /\ frame[s] = "Auth" /\ ~Refused(s)
    /\ authed' = [authed EXCEPT ![s] = TRUE]
    /\ client' = [client EXCEPT ![s] = "connected"]
    /\ frame' = [frame EXCEPT ![s] = "none"]
    /\ phase' = [phase EXCEPT ![s] = "joining"]
    /\ UNCHANGED <<secret, stopVars, flusherVars, peers, greeted, snapshot, open, holds, reading, got>>

(* A request: a snapshot is stamped with the generation of the moment.     *)
(* The answer to a client that does not drain its socket does not return.  *)
HandleRequest(s) ==
    /\ Serving(s) /\ frame[s] = "Snapshot" /\ ~Refused(s)
    /\ frame' = [frame EXCEPT ![s] = "none"]
    /\ snapshot' = [snapshot EXCEPT ![s] = generation]
    /\ phase' = [phase EXCEPT ![s] = IF reading[s] THEN "serving" ELSE "answering"]
    /\ UNCHANGED <<secret, stopVars, flusherVars, peers, authed, greeted, open, client, holds, reading, got>>

(* The answer fails: the socket was shut down, or SO_SNDTIMEO ran out.     *)
AnswerFails(s) ==
    /\ phase[s] = "answering"
    /\ phase' = [phase EXCEPT ![s] = "leaving"]
    /\ UNCHANGED <<secret, stopVars, flusherVars, peers, authed, greeted, snapshot, open, clientVars, got>>

(* receive() fails: the socket is closed.                                  *)
Hangup(s) ==
    /\ phase[s] = "serving" /\ ~open[s]
    /\ phase' = [phase EXCEPT ![s] = "leaving"]
    /\ UNCHANGED <<secret, stopVars, flusherVars, peers, authed, greeted, snapshot, open, clientVars, got>>

(* receive() times out: 200 ms without a frame.  The session ends when the *)
(* agent is stopping, or when it had to authenticate by now and has not.   *)
PollEnds(s) ==
    /\ phase[s] = "serving" /\ frame[s] = "none" /\ (stopping \/ ~authed[s])
    /\ phase' = [phase EXCEPT ![s] = "leaving"]
    /\ client' = [client EXCEPT ![s] = IF stopping THEN @ ELSE "failed"]
    /\ UNCHANGED <<secret, stopVars, flusherVars, peers, authed, greeted, snapshot, open, frame, holds, reading, got>>

(* Deregister; then wait for the broadcasts in flight.  The caller         *)
(* destroys the channel when serve() returns.                              *)
Deregister(s) ==
    /\ phase[s] = "leaving"
    /\ peers' = peers \ {s}
    /\ phase' = [phase EXCEPT ![s] = "waiting"]
    /\ UNCHANGED <<secret, stopVars, flusherVars, authed, greeted, snapshot, open, clientVars, got>>

ReturnsAtOnce(s) == phase[s] = "waiting" /\ SessionEnds(s)

Returns(s) == phase[s] = "waiting" /\ inFlight = 0 /\ SessionEnds(s)

-----------------------------------------------------------------------------
(* on_event(), flush_loop() and broadcast().                               *)

OnEvent ==
    /\ ~mu /\ ~events /\ ~stopping /\ generation < MaxBatch
    /\ events' = TRUE
    /\ wake' = (flusher = "asleep")
    /\ UNCHANGED <<secret, stopVars, mu, flusher, generation, targets, stuck, inFlight, peers,
                   threadVars, open, clientVars, got>>

(* One turn of the loop under coalescer_mu_: leave, park on the condition  *)
(* variable, or take what the coalescer holds (its debounce elapsed).      *)
FlushTurn ==
    /\ flusher = "loop"
    /\ flusher' = CASE stopping -> "done"
                    [] ~stopping /\ ~events -> "parking"
                    [] OTHER -> "taken"
    /\ mu' = (flusher' = "parking")
    /\ events' = (events /\ flusher' # "taken")
    /\ generation' = IF flusher' = "taken" THEN generation + 1 ELSE generation
    /\ UNCHANGED <<secret, stopVars, wake, targets, stuck, inFlight, peers, threadVars, open, clientVars, got>>

(* wait() releases the mutex and sleeps in one step; a notification sent   *)
(* before that finds nobody.                                               *)
Park ==
    /\ flusher = "parking"
    /\ flusher' = "asleep" /\ mu' = FALSE /\ wake' = FALSE
    /\ UNCHANGED <<secret, stopVars, events, generation, targets, stuck, inFlight, peers,
                   threadVars, open, clientVars, got>>

Wake ==
    /\ flusher = "asleep" /\ wake
    /\ flusher' = "loop" /\ wake' = FALSE
    /\ UNCHANGED <<secret, stopVars, mu, events, generation, targets, stuck, inFlight, peers,
                   threadVars, open, clientVars, got>>

CopyPeers ==
    /\ flusher = "taken"
    /\ flusher' = "sending" /\ targets' = peers /\ inFlight' = inFlight + 1
    /\ UNCHANGED <<secret, stopVars, mu, wake, events, generation, stuck, peers,
                   threadVars, open, clientVars, got>>

(* One send_raw().  It fails at once on a closed socket, returns when the  *)
(* client drains, and blocks otherwise.  (peers_ is a vector; which of its *)
(* members comes first is left open.)                                      *)
SendOne(s) ==
    /\ flusher = "sending" /\ stuck = {} /\ s \in targets
    /\ phase[s] # "answering"
    /\ IF open[s] /\ ~reading[s]
         THEN stuck' = {s} /\ UNCHANGED <<targets, got>>
         ELSE /\ targets' = targets \ {s}
              /\ got' = [got EXCEPT ![s] = IF open[s] THEN @ \cup {generation} ELSE @]
              /\ UNCHANGED stuck
    /\ UNCHANGED <<secret, stopVars, mu, flusher, wake, events, generation, inFlight, peers,
                   threadVars, open, clientVars>>

(* The blocked send ends: somebody has shut the socket down.               *)
SendEnds(s) ==
    /\ s \in stuck /\ ~open[s]
    /\ stuck' = {} /\ targets' = targets \ {s}
    /\ UNCHANGED <<secret, stopVars, mu, flusher, wake, events, generation, inFlight, peers,
                   threadVars, open, clientVars, got>>

(* Or SO_SNDTIMEO runs out, and broadcast() shuts the socket down.         *)
SendTimesOut(s) ==
    /\ s \in stuck /\ open[s]
    /\ stuck' = {} /\ targets' = targets \ {s}
    /\ open' = [open EXCEPT ![s] = FALSE]
    /\ UNCHANGED <<secret, stopVars, mu, flusher, wake, events, generation, inFlight, peers,
                   threadVars, clientVars, got>>

EndBroadcast ==
    /\ flusher = "sending" /\ targets = {}
    /\ flusher' = "loop" /\ inFlight' = inFlight - 1
    /\ UNCHANGED <<secret, stopVars, mu, wake, events, generation, targets, stuck, peers,
                   threadVars, open, clientVars, got>>

-----------------------------------------------------------------------------
(* stop().                                                                 *)

StopBegins ==
    /\ stopper = "idle"
    /\ stopper' = "notifying" /\ stopping' = TRUE
    /\ UNCHANGED <<secret, flusherVars, peers, threadVars, open, clientVars, got>>

StopNotifiesUnlocked ==
    /\ stopper = "notifying"
    /\ stopper' = "shutting" /\ wake' = (flusher = "asleep")
    /\ UNCHANGED <<secret, stopping, mu, flusher, events, generation, targets, stuck, inFlight, peers,
                   threadVars, open, clientVars, got>>

StopNotifies ==
    /\ stopper = "notifying" /\ ~mu
    /\ stopper' = "shutting" /\ wake' = (flusher = "asleep")
    /\ UNCHANGED <<secret, stopping, mu, flusher, events, generation, targets, stuck, inFlight, peers,
                   threadVars, open, clientVars, got>>

StopShutsDown ==
    /\ stopper = "shutting"
    /\ stopper' = "joining"
    /\ open' = [s \in Session |-> open[s] /\ s \notin peers]
    /\ UNCHANGED <<secret, stopping, flusherVars, peers, threadVars, clientVars, got>>

StopJoins ==
    /\ stopper = "joining" /\ flusher = "done"
    /\ stopper' = "stopped"
    /\ UNCHANGED <<secret, stopping, flusherVars, peers, threadVars, open, clientVars, got>>

-----------------------------------------------------------------------------
Serve(s) ==
    \/ Joins(s) \/ Refuse(s) \/ HandleHello(s) \/ NoEntropy(s)
    \/ HandleAuth(s) \/ HandleRequest(s) \/ AnswerFails(s)
    \/ Hangup(s) \/ PollEnds(s) \/ Deregister(s) \/ Returns(s)

Peer(s) ==
    \/ Accept(s) \/ SendHello(s) \/ SendRequest(s)
    \/ Disconnect(s) \/ Stall(s)

Flush ==
    \/ FlushTurn \/ Park \/ Wake \/ CopyPeers \/ EndBroadcast
    \/ \E s \in Session : SendOne(s) \/ SendEnds(s) \/ SendTimesOut(s)

Stop == StopNotifies \/ StopShutsDown \/ StopJoins

SessNext == OnEvent \/ Flush \/ StopBegins \/ Stop \/ \E s \in Session : Peer(s) \/ Serve(s)

SessSpec == SessInit /\ [][SessNext]_sessVars

(* The agent's threads run, and its timeouts run out.  Nothing is asked of *)
(* the clients.                                                            *)
SessFairSpec == SessSpec /\ WF_sessVars(Flush) /\ WF_sessVars(Stop) /\ \A s \in Session : WF_sessVars(Serve(s))

-----------------------------------------------------------------------------
(* The handshake agrees.  A session that is open to requests belongs to a  *)
(* client with the agent's token, and only such a session is in the        *)
(* broadcast set; a client that takes itself to be connected has a session *)
(* that is open, whichever of the two has a token at all.                  *)
HandshakeAgrees ==
    /\ \A s \in Session : authed[s] /\ secret # NoToken => holds[s] = secret
    /\ peers \subseteq {s \in Session : authed[s]}
    /\ \A s \in Session : client[s] = "connected" => authed[s] /\ holds[s] = secret

(* A broadcast sends outside peers_mu_ through raw pointers: no channel it *)
(* has still to send on is destroyed under it, although the session that   *)
(* owns it can leave at any moment.                                        *)
ChannelsOutliveSends == \A s \in targets : phase[s] # "gone"

(* A client misses no batch its snapshot does not include: the session     *)
(* joins the broadcast set before it can stamp a snapshot, so every later  *)
(* generation goes to it, until its socket is closed.  MirrorSync takes    *)
(* this for granted of its channel.                                        *)
Broadcast == {g \in 1 .. generation : g < generation \/ flusher \notin {"taken", "sending"}}

BatchesReachMirrors ==
    \A s \in Session : snapshot[s] # -1 /\ open[s] /\ phase[s] \in {"serving", "answering"} =>
        \A g \in Broadcast : g > snapshot[s] => g \in got[s]

(* stop() returns and every session ends, whatever the flusher, the        *)
(* sessions and their clients were in the middle of: a client that never   *)
(* authenticates, one that stopped reading while a broadcast was sending   *)
(* to it, one that leaves during that broadcast.                           *)
StopEnds ==
    stopping ~> stopper = "stopped" /\ \A s \in Session : phase[s] \in {"idle", "gone"}
=============================================================================
