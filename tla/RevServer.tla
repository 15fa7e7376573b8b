------------------------------ MODULE RevServer ------------------------------
(***************************************************************************)
(* The life of the reverse tunnel's TCP server: runs (the code's           *)
(* generations), the control channel, and the restarts that end one run    *)
(* and begin the next.                                                     *)
(*                                                                         *)
(* Each run owns a context and the goroutines start() launches: the        *)
(* listener on the tunnel port, the starter itself, the reader and the     *)
(* handler of the control channel.  Nothing waits for those goroutines     *)
(* (only the listener is counted), so a run that Restart has cancelled     *)
(* still takes steps, on fields that the next run uses: controlChannel,    *)
(* poolNonce, status and the published peer.                               *)
(*                                                                         *)
(* Runs and connections are SLOTS: an ended run's slot is taken again only *)
(* when none of its goroutines is left, a connection's when nothing refers *)
(* to it.  The number of slots bounds how many can overlap, not how many   *)
(* there are, so the state space is finite and liveness can be checked.    *)
(***************************************************************************)
EXTENDS Integers, FiniteSets

CONSTANTS
    MaxRuns,        \* slots for runs that overlap
    MaxConns,       \* slots for control connections that overlap
    MaxFaults,      \* times the client or its path fails unprompted
    SlowListeners,  \* TRUE: a listener may outlast listenerShutdown (10 s)
    Legacy,         \* TRUE: the client speaks the handshake without a nonce
    Shutdown        \* TRUE: the tunnel may be shut down

ASSUME BoundsAssumption == /\ MaxRuns \in Nat \ {0, 1}
                           /\ MaxConns \in Nat \ {0}
                           /\ MaxFaults \in Nat
                           /\ SlowListeners \in BOOLEAN
                           /\ Legacy \in BOOLEAN
                           /\ Shutdown \in BOOLEAN

Runs == 1..MaxRuns
Conns == 1..MaxConns
None == 0

VARIABLES
    parent,     \* the transport's parent context is alive
    run,        \* s.run: the run whose cancel function is installed
    ctx,        \* per run: "live" or "done"
    control,    \* s.controlChannel: a connection or None
    nonce,      \* s.poolNonce: the connection it was issued to, None for ""
    peer,       \* metrics publishes a connected peer (s.status goes with it)
    starter,    \* per run: where start()/channelHandshake is
    hold,       \* per run: the candidate channelHandshake has received
    inbox,      \* per run: g.handshakeChannel, buffered by one
    listener,   \* per run: where tunnelListener is
    reader,     \* per run: where the control channel's reader is
    rconn,      \* per run: the connection the reader is blocked on
    handler,    \* per run: where channelHandler is
    msg,        \* per run: SG_Closed waits in messageChan
    sock,       \* per connection: where the server has got with it
    home,       \* per connection: the run whose listener accepted it
    path,       \* per connection: what the client's end has seen or done
    restart,    \* where the Restart that holds restartMutex is
    calls,      \* `go s.Restart()` goroutines that have not reached TryLock
    client,     \* the connection the client takes for its control channel
    faults      \* unprompted failures so far

server == <<parent, run, ctx, control, nonce, peer>>
goroutines == <<starter, hold, inbox, listener, reader, rconn, handler, msg>>
links == <<sock, home, path, client, faults>>
vars == <<server, goroutines, links, restart, calls>>

------------------------------------------------------------------------------
(* Who asks for a restart: the reader or the handler of a run, or the       *)
(* admission of a new claim.                                                *)
Callers == ({"reader", "handler"} \X Runs \X {None}) \cup ({"claim"} \X Runs \X Conns)

StarterAt == {"none", "new", "waiting", "taken", "nonced", "published", "marking"}
ListenerAt == {"none", "spawned", "held", "bound"}
RestartAt == {"idle", "stopped", "closed", "waited", "installed", "uncontrolled", "unlocking"}

(* The type invariant: every variable has its type, and start(g) holds a     *)
(* candidate exactly while channelHandshake is publishing one.               *)
TypeOK == /\ parent \in BOOLEAN /\ run \in Runs
          /\ ctx \in [Runs -> {"live", "done"}]
          /\ control \in Conns \cup {None} /\ nonce \in Conns \cup {None}
          /\ peer \in BOOLEAN
          /\ starter \in [Runs -> StarterAt]
          /\ hold \in [Runs -> Conns \cup {None}] /\ inbox \in [Runs -> Conns \cup {None}]
          /\ \A g \in Runs : hold[g] # None <=> starter[g] \in {"taken", "nonced", "published"}
          /\ listener \in [Runs -> ListenerAt]
          /\ reader \in [Runs -> {"none", "top", "reading"}]
          /\ rconn \in [Runs -> Conns \cup {None}]
          /\ handler \in [Runs -> {"none", "rtt", "loop"}] /\ msg \in [Runs -> BOOLEAN]
          /\ sock \in [Conns -> {"dialled", "acked", "offered", "shut"}]
          /\ home \in [Conns -> Runs]
          /\ path \in [Conns -> {"up", "told", "bye", "eof", "dead"}]
          /\ restart \in RestartAt /\ calls \subseteq Callers
          /\ client \in Conns \cup {None} /\ faults \in 0..MaxFaults

(* NewTCPServer and the beginning of Start: the first run is installed and   *)
(* start(g) is about to run.                                                 *)
Init == /\ parent = TRUE /\ run = 1
        /\ ctx = [g \in Runs |-> IF g = 1 THEN "live" ELSE "done"]
        /\ control = None /\ nonce = None /\ peer = FALSE
        /\ starter = [g \in Runs |-> IF g = 1 THEN "new" ELSE "none"]
        /\ hold = [g \in Runs |-> None] /\ inbox = [g \in Runs |-> None]
        /\ listener = [g \in Runs |-> "none"]
        /\ reader = [g \in Runs |-> "none"] /\ rconn = [g \in Runs |-> None]
        /\ handler = [g \in Runs |-> "none"] /\ msg = [g \in Runs |-> FALSE]
        /\ sock = [c \in Conns |-> "shut"] /\ home = [c \in Conns |-> 1]
        /\ path = [c \in Conns |-> "up"]
        /\ restart = "idle" /\ calls = {} /\ client = None /\ faults = 0

------------------------------------------------------------------------------
(* start(g)                                                                 *)

start(g) ==
    /\ starter[g] = "new"
    /\ listener' = [listener EXCEPT ![g] = "spawned"]
    /\ starter' = [starter EXCEPT ![g] = "waiting"]
    /\ UNCHANGED <<parent, run, ctx, control, nonce, peer, hold, inbox, reader, rconn, handler, msg, links, restart, calls>>

(* channelHandshake's select.  When the context has ended AND a candidate   *)
(* waits, Go picks either case.                                             *)
HandshakeTakes(g) ==
    /\ starter[g] = "waiting" /\ inbox[g] # None
    /\ hold' = [hold EXCEPT ![g] = inbox[g]]
    /\ inbox' = [inbox EXCEPT ![g] = None]
    /\ starter' = [starter EXCEPT ![g] = "taken"]
    /\ UNCHANGED <<server, listener, reader, rconn, handler, msg, links, restart, calls>>

(* The nonce a candidate brings: a legacy handshake yields "".              *)
NonceOf(c) == IF Legacy THEN None ELSE c

PublishNonce(g) ==
    /\ starter[g] = "taken"
    /\ nonce' = NonceOf(hold[g])
    /\ starter' = [starter EXCEPT ![g] = "nonced"]
    /\ UNCHANGED <<parent, run, ctx, control, peer, hold, inbox, listener, reader, rconn, handler, msg, links, restart, calls>>

PublishControl(g) ==
    /\ starter[g] = "nonced"
    /\ control' = hold[g]
    /\ starter' = [starter EXCEPT ![g] = "published"]
    /\ UNCHANGED <<parent, run, ctx, nonce, peer, hold, inbox, listener, reader, rconn, handler, msg, links, restart, calls>>

(* start(g) then asks whether A control channel is set, not whether this run *)
(* set it.                                                                   *)
Checked == IF control # None THEN "marking" ELSE "none"

ReportPeer(g) ==
    /\ starter[g] = "published"
    /\ peer' = TRUE
    /\ hold' = [hold EXCEPT ![g] = None]
    /\ starter' = [starter EXCEPT ![g] = Checked]
    /\ UNCHANGED <<parent, run, ctx, control, nonce, inbox, listener, reader, rconn, handler, msg, links, restart, calls>>

(* The select's other case: the run ended, but start() asks all the same.    *)
HandshakeEnded(g) ==
    /\ starter[g] = "waiting" /\ ctx[g] = "done"
    /\ starter' = [starter EXCEPT ![g] = Checked]
    /\ UNCHANGED <<server, hold, inbox, listener, reader, rconn, handler, msg, links, restart, calls>>

StartConnected(g) ==
    /\ starter[g] = "marking"
    /\ starter' = [starter EXCEPT ![g] = "none"]
    /\ reader' = [reader EXCEPT ![g] = "top"]
    /\ handler' = [handler EXCEPT ![g] = "rtt"]
    /\ UNCHANGED <<parent, run, ctx, control, nonce, peer, hold, inbox, listener, rconn, msg, links, restart, calls>>

------------------------------------------------------------------------------
(* tunnelListener(g): counted, then bound (retried while another listener    *)
(* has the port), then released when the run ends.                           *)

ListenerHolds(g) ==
    /\ listener[g] = "spawned"
    /\ listener' = [listener EXCEPT ![g] = "held"]
    /\ UNCHANGED <<server, starter, hold, inbox, reader, rconn, handler, msg, links, restart, calls>>

ListenerBinds(g) ==
    /\ listener[g] = "held" /\ \A h \in Runs : listener[h] # "bound"
    /\ listener' = [listener EXCEPT ![g] = "bound"]
    /\ UNCHANGED <<server, starter, hold, inbox, reader, rconn, handler, msg, links, restart, calls>>

ListenerReleases(g) ==
    /\ \/ listener[g] = "bound"
       \/ listener[g] = "held" /\ \E h \in Runs : listener[h] = "bound"   \* backoff.wait
    /\ ctx[g] = "done"
    /\ listener' = [listener EXCEPT ![g] = "none"]
    /\ UNCHANGED <<server, starter, hold, inbox, reader, rconn, handler, msg, links, restart, calls>>

(* listenerSet.n = 0 *)
NothingHeld == \A g \in Runs : listener[g] \notin {"held", "bound"}

------------------------------------------------------------------------------
(* The client's end (external to this module) and the admission of its      *)
(* claims.                                                                  *)

ConnFree(c) == /\ client # c /\ control # c /\ nonce # c
               /\ \A g \in Runs : /\ hold[g] # c /\ rconn[g] # c
                                  /\ inbox[g] = c => starter[g] \notin {"new", "waiting"}
               /\ sock[c] \notin {"dialled", "acked"}
               /\ \A x \in calls : x[3] # c

(* The client dials and the accept loop of a bound listener hands the        *)
(* connection to its own goroutine.                                          *)
ClientDials(c, g) ==
    /\ parent /\ client = None /\ listener[g] = "bound" /\ ConnFree(c)
    /\ client' = c
    /\ sock' = [sock EXCEPT ![c] = "dialled"] /\ home' = [home EXCEPT ![c] = g]
    /\ path' = [path EXCEPT ![c] = "up"]
    /\ UNCHANGED <<server, goroutines, faults, restart, calls>>

(* The client has reason to give the connection up: it was closed, it was    *)
(* told so, or nothing answers on it and its read deadline passes.           *)
Unserved(c) == \/ sock[c] = "shut" \/ path[c] # "up"
               \/ /\ sock[c] = "offered" /\ control # c
                  /\ \A g \in Runs : hold[g] # c /\ ~(inbox[g] = c /\ starter[g] = "waiting")

(* It closes the connection with a goodbye; over a dead path that reaches    *)
(* nobody.                                                                   *)
ClientNotices(c) ==
    /\ client = c /\ Unserved(c)
    /\ client' = None
    /\ path' = [path EXCEPT ![c] = IF @ \in {"up", "told"} /\ sock[c] # "shut" THEN "bye" ELSE @]
    /\ UNCHANGED <<server, goroutines, sock, home, faults, restart, calls>>

(* Unprompted: the client stops with a goodbye, stops with a reset, or its   *)
(* path dies silently.                                                       *)
ClientFails(c, how) ==
    /\ client = c /\ path[c] = "up" /\ sock[c] # "shut" /\ faults < MaxFaults
    /\ path' = [path EXCEPT ![c] = how]
    /\ client' = IF how = "dead" THEN c ELSE None
    /\ faults' = faults + 1
    /\ UNCHANGED <<server, goroutines, sock, home, restart, calls>>

(* admitTunnelConn and admitControlChannel up to the acknowledgement.  A     *)
(* handshake that does not complete closes the connection.                   *)
AdmitAnswers(c) ==
    /\ sock[c] = "dialled"
    /\ \E at \in IF path[c] = "up" THEN {"acked"} ELSE {"acked", "shut"} :
          /\ sock' = [sock EXCEPT ![c] = at]
          /\ path' = [path EXCEPT ![c] = IF at = "shut" THEN "up" ELSE @]
    /\ UNCHANGED <<server, goroutines, home, client, faults, restart, calls>>

(* A mutant: an established channel is kept and the claim refused.           *)
AdmitRefusesInUse(c) ==
    /\ sock[c] = "acked"
    /\ LET g == home[c] IN
       \/ /\ control = None /\ inbox[g] = None
          /\ sock' = [sock EXCEPT ![c] = "offered"] /\ inbox' = [inbox EXCEPT ![g] = c]
       \/ /\ control # None \/ inbox[g] # None
          /\ sock' = [sock EXCEPT ![c] = "shut"] /\ UNCHANGED inbox
    /\ home' = [home EXCEPT ![c] = 1] /\ path' = [path EXCEPT ![c] = IF sock'[c] = "shut" THEN "up" ELSE @]
    /\ UNCHANGED <<server, starter, hold, listener, reader, rconn, handler, msg, client, faults, restart, calls>>

(* The rest of admitControlChannel: a claim while a channel is set asks for  *)
(* a restart; otherwise the candidate is offered, or dropped when one waits. *)
AdmitOffers(c) ==
    /\ sock[c] = "acked"
    /\ LET g == home[c] IN
       \/ /\ control # None
          /\ sock' = [sock EXCEPT ![c] = "shut"] /\ calls' = calls \cup {<<"claim", g, c>>}
          /\ UNCHANGED inbox
       \/ /\ control = None /\ inbox[g] = None
          /\ sock' = [sock EXCEPT ![c] = "offered"] /\ inbox' = [inbox EXCEPT ![g] = c]
          /\ UNCHANGED calls
       \/ /\ control = None /\ inbox[g] # None
          /\ sock' = [sock EXCEPT ![c] = "shut"]
          /\ UNCHANGED <<inbox, calls>>
    /\ home' = [home EXCEPT ![c] = 1] /\ path' = [path EXCEPT ![c] = IF sock'[c] = "shut" THEN "up" ELSE @]
    /\ UNCHANGED <<server, starter, hold, listener, reader, rconn, handler, msg, client, faults, restart>>

------------------------------------------------------------------------------
(* channelHandler(g) and its reader                                         *)

ReaderTop(g) ==
    /\ reader[g] = "top"
    /\ reader' = [reader EXCEPT ![g] = IF ctx[g] = "done" THEN "none" ELSE "reading"]
    /\ rconn' = [rconn EXCEPT ![g] = IF ctx[g] = "done" THEN None ELSE control]
    /\ UNCHANGED <<server, starter, hold, inbox, listener, handler, msg, links, restart, calls>>

(* The client's SG_Closed; the reader then reads on.                         *)
ReaderHears(g) ==
    /\ reader[g] = "reading" /\ rconn[g] # None
    /\ sock[rconn[g]] # "shut" /\ path[rconn[g]] = "bye"
    /\ msg' = [msg EXCEPT ![g] = TRUE]
    /\ path' = [path EXCEPT ![rconn[g]] = "eof"]
    /\ reader' = [reader EXCEPT ![g] = "top"]
    /\ UNCHANGED <<server, starter, hold, inbox, listener, rconn, handler, sock, home, client, faults, restart, calls>>

ReadBroken(c) == c # None => sock[c] = "shut" \/ path[c] = "eof"

(* A read error asks for a restart only while the run is live.               *)
ReaderFails(g) ==
    /\ reader[g] = "reading" /\ ReadBroken(rconn[g])
    /\ reader' = [reader EXCEPT ![g] = "none"]
    /\ rconn' = [rconn EXCEPT ![g] = None]
    /\ calls' = IF ctx[g] = "live" THEN calls \cup {<<"reader", g, None>>} ELSE calls
    /\ UNCHANGED <<server, starter, hold, inbox, listener, handler, msg, links, restart>>

(* SendBinaryByteWithin: a write fails on a connection this server closed    *)
(* and may fail on one whose client is gone; into a dead path it may also    *)
(* succeed, for as long as the send buffer has room.                         *)
WriteMayFail == control # None => sock[control] = "shut" \/ path[control] \notin {"up", "told"}
WriteMayPass == control # None /\ sock[control] # "shut"

(* SG_RTT *)
HandlerRTT(g) ==
    /\ handler[g] = "rtt" /\ WriteMayPass
    /\ handler' = [handler EXCEPT ![g] = "loop"]
    /\ UNCHANGED <<server, starter, hold, inbox, listener, reader, rconn, msg, links, restart, calls>>

(* A byte that cannot be written ends the handler and asks for a restart,    *)
(* whether or not the run is still live.                                     *)
HandlerAsks(g) ==
    /\ handler' = [handler EXCEPT ![g] = "none"] /\ msg' = [msg EXCEPT ![g] = FALSE]
    /\ calls' = calls \cup {<<"handler", g, None>>}
    /\ UNCHANGED <<server, starter, hold, inbox, listener, reader, rconn, links, restart>>

HandlerRTTFails(g) == handler[g] = "rtt" /\ WriteMayFail /\ HandlerAsks(g)

(* SG_Chan for a queued request, or SG_HB.                                   *)
HandlerWriteFails(g) == handler[g] = "loop" /\ WriteMayFail /\ HandlerAsks(g)

(* The client's SG_Closed reaches the handler.                               *)
HandlerClosed(g) == handler[g] = "loop" /\ msg[g] /\ HandlerAsks(g)

(* The run has ended: SG_Closed goes to whatever control channel is set NOW. *)
HandlerEnds(g) ==
    /\ handler[g] = "loop" /\ ctx[g] = "done"
    /\ handler' = [handler EXCEPT ![g] = "none"] /\ msg' = [msg EXCEPT ![g] = FALSE]
    /\ path' = IF WriteMayPass /\ path[control] = "up" THEN [path EXCEPT ![control] = "told"] ELSE path
    /\ UNCHANGED <<server, starter, hold, inbox, listener, reader, rconn, sock, home, client, faults, restart, calls>>

------------------------------------------------------------------------------
(* Restart                                                                  *)

(* A mutant: the run being replaced is not cancelled.                        *)
RestartKeepsRun(x) ==
    /\ x \in calls /\ restart = "idle"
    /\ calls' = calls \ {x}
    /\ restart' = "stopped"
    /\ UNCHANGED <<server, goroutines, links>>

(* TryLock succeeds and the installed run is cancelled.                      *)
RestartBegins(x) ==
    /\ x \in calls /\ restart = "idle"
    /\ calls' = calls \ {x}
    /\ ctx' = [ctx EXCEPT ![run] = "done"]
    /\ restart' = "stopped"
    /\ UNCHANGED <<parent, run, control, nonce, peer, goroutines, links>>

(* TryLock fails: "server restart already in progress".                      *)
RestartSkipped(x) ==
    /\ x \in calls /\ restart # "idle"
    /\ calls' = calls \ {x}
    /\ UNCHANGED <<server, goroutines, links, restart>>

RestartCloses ==
    /\ restart = "stopped"
    /\ sock' = IF control # None THEN [sock EXCEPT ![control] = "shut"] ELSE sock
    /\ path' = IF control # None THEN [path EXCEPT ![control] = "up"] ELSE path
    /\ restart' = "closed"
    /\ UNCHANGED <<server, goroutines, home, client, faults, calls>>

(* listeners.wait: the gate, the parent's end, or the ten-second deadline.   *)
RestartWaited ==
    /\ restart = "closed" /\ (NothingHeld \/ ~parent \/ SlowListeners)
    /\ restart' = "waited"
    /\ UNCHANGED <<server, goroutines, links, calls>>

RestartAbandoned ==
    /\ restart = "waited" /\ ~parent
    /\ peer' = FALSE
    /\ restart' = "unlocking"
    /\ UNCHANGED <<parent, run, ctx, control, nonce, goroutines, links, calls>>

RunFree(g) == /\ g # run /\ ctx[g] = "done" /\ starter[g] = "none" /\ listener[g] = "none"
              /\ reader[g] = "none" /\ handler[g] = "none"
              /\ \A x \in calls : x[2] # g
              /\ \A c \in Conns : home[c] = g => sock[c] \notin {"dialled", "acked"}

(* The next run's context and channels.                                      *)
RestartInstalls(g) ==
    /\ restart = "waited" /\ parent /\ RunFree(g)
    /\ run' = g /\ ctx' = [ctx EXCEPT ![g] = "live"]
    /\ inbox' = [inbox EXCEPT ![g] = None] /\ msg' = [msg EXCEPT ![g] = FALSE]
    /\ restart' = "installed"
    /\ UNCHANGED <<parent, control, nonce, peer, starter, hold, listener, reader, rconn, handler, links, calls>>

RestartClearsControl ==
    /\ restart = "installed"
    /\ control' = None
    /\ restart' = "uncontrolled"
    /\ UNCHANGED <<parent, run, ctx, nonce, peer, goroutines, links, calls>>

(* ClearPeer, poolNonce.Clear and `go s.start(g)`; the mutex is released     *)
(* when Restart returns, after the new run has been let go.                  *)
RestartStarts ==
    /\ restart = "uncontrolled"
    /\ peer' = FALSE /\ nonce' = None
    /\ starter' = [starter EXCEPT ![run] = "new"]
    /\ restart' = "unlocking"
    /\ UNCHANGED <<parent, run, ctx, control, hold, inbox, listener, reader, rconn, handler, msg, links, calls>>

RestartUnlocks ==
    /\ restart = "unlocking" /\ restart' = "idle"
    /\ UNCHANGED <<server, goroutines, links, calls>>

(* The tunnel is shut down, reloaded, or its fallback chain moves on.        *)
ParentEnds ==
    /\ Shutdown /\ parent /\ parent' = FALSE
    /\ ctx' = [g \in Runs |-> "done"]
    /\ UNCHANGED <<run, control, nonce, peer, goroutines, links, restart, calls>>

------------------------------------------------------------------------------
StarterStep(g) ==
    \/ start(g) \/ HandshakeEnded(g) \/ HandshakeTakes(g) \/ PublishNonce(g) \/ PublishControl(g)
    \/ ReportPeer(g) \/ StartConnected(g)
ListenerStep(g) == ListenerHolds(g) \/ ListenerBinds(g) \/ ListenerReleases(g)
ReaderStep(g) == ReaderTop(g) \/ ReaderHears(g) \/ ReaderFails(g)
HandlerStep(g) == HandlerRTT(g) \/ HandlerRTTFails(g) \/ HandlerClosed(g) \/ HandlerEnds(g)
RunStep(g) == StarterStep(g) \/ ListenerStep(g) \/ ReaderStep(g) \/ HandlerStep(g) \/ HandlerWriteFails(g)

RestartCall(x) == RestartBegins(x) \/ RestartSkipped(x)
RestartStep ==
    \/ RestartCloses \/ RestartWaited \/ RestartAbandoned
    \/ \E g \in Runs : RestartInstalls(g)
    \/ RestartClearsControl \/ RestartStarts \/ RestartUnlocks

ClientStep(c) ==
    \/ \E g \in Runs : ClientDials(c, g)
    \/ ClientNotices(c) \/ AdmitAnswers(c) \/ AdmitOffers(c)
    \/ \E how \in {"bye", "eof", "dead"} : ClientFails(c, how)

Next == \/ \E g \in Runs : RunStep(g)
        \/ \E x \in calls : RestartCall(x)
        \/ RestartStep
        \/ \E c \in Conns : ClientStep(c)
        \/ ParentEnds

Spec == Init /\ [][Next]_vars

(* Goroutines are scheduled; a client that has lost its channel dials again. *)
(* A heartbeat or request that finds the channel broken is not assumed to    *)
(* come: "a heartbeat written into a dead-but-unreset socket ... reports     *)
(* success".                                                                 *)
Fairness == /\ WF_vars(\E g \in Runs : StarterStep(g)) /\ WF_vars(\E g \in Runs : ListenerStep(g))
            /\ WF_vars(\E g \in Runs : ReaderStep(g)) /\ WF_vars(\E g \in Runs : HandlerStep(g))
            /\ WF_vars(\E x \in Callers : RestartCall(x)) /\ WF_vars(RestartStep)
            /\ WF_vars(\E c \in Conns : AdmitAnswers(c) \/ AdmitOffers(c))
            /\ WF_vars(\E c \in Conns : ClientNotices(c) \/ \E g \in Runs : ClientDials(c, g))

FairSpec == Spec /\ Fairness

------------------------------------------------------------------------------
(* Properties                                                               *)

(* At any moment at most one run is live, and it is the one whose cancel     *)
(* function s.run holds: two restarts that overlap never leave a run behind  *)
(* that nothing can stop any more.                                           *)
OneLiveRun == \A g \in Runs : ctx[g] = "live" => g = run

(* The server serves the client: the channel it holds is the client's and    *)
(* the run that listens to it is the live one.                               *)
Adopted == /\ control # None /\ control = client /\ ~Unserved(control) /\ nonce = NonceOf(control)
           /\ ctx[run] = "live" /\ reader[run] = "reading" /\ rconn[run] = control
           /\ handler[run] = "loop"

(* Ended runs have let go by the time the fields they share are handed over: *)
(* none of their goroutines or claims is left to act on the successor.       *)
Undisturbed ==
    restart \in {"uncontrolled", "unlocking", "idle"} =>
        /\ \A g \in Runs \ {run} : /\ starter[g] = "none" /\ handler[g] = "none"
                                  /\ \A x \in calls : x[2] # g
        /\ \A c \in Conns : sock[c] \in {"dialled", "acked"} => home[c] = run

(* Whatever the client, its path and earlier runs did: once failures stop    *)
(* and ended runs no longer disturb their successors, the tunnel comes up    *)
(* and stays up, unless it is shut down.                                     *)
Recovers == <>[]Undisturbed => <>[](Adopted \/ ~parent)

=============================================================================
