----------------------------- MODULE RevForward ------------------------------
(***************************************************************************)
(* The forwarding half of the reverse tunnel's TCP server: a user's        *)
(* connection is accepted on a forwarded port, takes a slot of the         *)
(* connection limiter, waits in the run's queue, is paired with a          *)
(* connection of the pool and relayed, and gives the slot back.            *)
(*                                                                         *)
(* Queue, pool, handle loops and the listener of the forwarded port belong *)
(* to one run; the limiter and the count of listeners belong to the        *)
(* transport and outlive it.  RevServer has the run's own life; here a run *)
(* comes up, ends, and is replaced once listeners.wait lets Restart go on. *)
(***************************************************************************)
EXTENDS Integers, Sequences, FiniteSets

CONSTANTS
    Users,          \* connections that users open, one slot each
    MaxRuns,        \* runs of the transport, the first one included
    ChannelSize,    \* capacity of the queue, of the pool and of the requests
    MaxConnections, \* the limiter's maxConns
    HandleLoops     \* handle loops of one run (at most four in the code)

ASSUME UsersAssumption == IsFiniteSet(Users)
ASSUME SizesAssumption == /\ MaxRuns \in Nat \ {0} /\ ChannelSize \in Nat \ {0}
                          /\ MaxConnections \in Nat \ {0} /\ HandleLoops \in Nat \ {0}

Runs == 1..MaxRuns

VARIABLES
    active,     \* limiter.active
    at,         \* per user: how far the connection has got
    of,         \* per user: the run that accepted it
    run,        \* the newest run
    ctx,        \* per run: "unmade", "live", "done"
    queue,      \* per run: g.localChannel
    pool,       \* per run: tunnel connections in g.tunnelChannel
    requests,   \* per run: tokens in g.reqNewConnChan
    loops,      \* per run: handle loops at their select
    port        \* per run: where localListener of the forwarded port is

vars == <<active, at, of, run, ctx, queue, pool, requests, loops, port>>

Stages == {"away", "over", "admitted", "queued", "pairing", "announcing", "relaying"}

(* The type invariant. *)
TypeOK == /\ active \in Nat /\ at \in [Users -> Stages] /\ of \in [Users -> Runs]
          /\ run \in Runs /\ ctx \in [Runs -> {"unmade", "live", "done"}]
          /\ queue \in [Runs -> Seq(Users)]
          /\ pool \in [Runs -> 0..ChannelSize] /\ requests \in [Runs -> 0..ChannelSize]
          /\ loops \in [Runs -> 0..HandleLoops]
          /\ port \in [Runs -> {"none", "spawned", "held", "bound", "failed"}]

(* The first run has just got its control channel: start() launches the      *)
(* listener of the forwarded port and the handle loops.                      *)
Init == /\ active = 0 /\ at = [u \in Users |-> "away"] /\ of = [u \in Users |-> 1]
        /\ run = 1 /\ ctx = [g \in Runs |-> IF g = 1 THEN "live" ELSE "unmade"]
        /\ queue = [g \in Runs |-> <<>>]
        /\ pool = [g \in Runs |-> 0] /\ requests = [g \in Runs |-> 0]
        /\ loops = [g \in Runs |-> IF g = 1 THEN HandleLoops ELSE 0]
        /\ port = [g \in Runs |-> IF g = 1 THEN "spawned" ELSE "none"]

------------------------------------------------------------------------------
(* localListener                                                            *)

PortHolds(g) ==
    /\ port[g] = "spawned" /\ port' = [port EXCEPT ![g] = "held"]
    /\ UNCHANGED <<active, at, of, run, ctx, queue, pool, requests, loops>>

PortTaken == \E g \in Runs : port[g] = "bound"

(* A port that cannot be bound is given up for the rest of the run.          *)
PortBinds(g) ==
    /\ port[g] = "held"
    /\ port' = [port EXCEPT ![g] = IF PortTaken THEN "failed" ELSE "bound"]
    /\ UNCHANGED <<active, at, of, run, ctx, queue, pool, requests, loops>>

PortReleases(g) ==
    /\ port[g] = "bound" /\ ctx[g] = "done"
    /\ port' = [port EXCEPT ![g] = "none"]
    /\ UNCHANGED <<active, at, of, run, ctx, queue, pool, requests, loops>>

------------------------------------------------------------------------------
(* acceptLocalConn and the limiter                                          *)

(* A mutant: one connection too many.                                        *)
acquireOneMore(u, g) ==
    /\ at[u] = "away" /\ port[g] = "bound"
    /\ active' = active + 1
    /\ at' = [at EXCEPT ![u] = IF active > MaxConnections THEN "over" ELSE "admitted"]
    /\ of' = [of EXCEPT ![u] = g]
    /\ UNCHANGED <<run, ctx, queue, pool, requests, loops, port>>

(* limiter.acquire counts first and looks afterwards.                        *)
acquire(u, g) ==
    /\ at[u] = "away" /\ port[g] = "bound"
    /\ active' = active + 1
    /\ at' = [at EXCEPT ![u] = IF active + 1 > MaxConnections THEN "over" ELSE "admitted"]
    /\ of' = [of EXCEPT ![u] = g]
    /\ UNCHANGED <<run, ctx, queue, pool, requests, loops, port>>

(* limiter.release, and the connection is closed.                            *)
release(u) == active' = active - 1 /\ at' = [at EXCEPT ![u] = "away"]

(* Over the limit: the count is taken back and the connection refused.       *)
Refuse(u) ==
    /\ at[u] = "over" /\ release(u)
    /\ UNCHANGED <<of, run, ctx, queue, pool, requests, loops, port>>

(* A token in reqNewConnChan unless it is full.                              *)
AskForOne(g) == requests' = [requests EXCEPT ![g] = IF @ < ChannelSize THEN @ + 1 ELSE @]

(* A mutant: a connection dropped at a full queue keeps its slot.            *)
EnqueueKeepingSlot(u) ==
    /\ at[u] = "admitted"
    /\ LET g == of[u] IN
       \/ /\ Len(queue[g]) < ChannelSize
          /\ queue' = [queue EXCEPT ![g] = Append(@, u)]
          /\ at' = [at EXCEPT ![u] = "queued"]
          /\ AskForOne(g)
       \/ /\ Len(queue[g]) >= ChannelSize
          /\ at' = [at EXCEPT ![u] = "away"]
          /\ UNCHANGED <<queue, requests>>
    /\ UNCHANGED <<active, of, run, ctx, pool, loops, port>>

(* The connection joins the queue and another tunnel connection is asked     *)
(* for, or the queue is full and it is dropped.                              *)
Enqueue(u) ==
    /\ at[u] = "admitted"
    /\ LET g == of[u] IN
       \/ /\ Len(queue[g]) < ChannelSize
          /\ queue' = [queue EXCEPT ![g] = Append(@, u)]
          /\ at' = [at EXCEPT ![u] = "queued"]
          /\ AskForOne(g)
          /\ UNCHANGED active
       \/ /\ Len(queue[g]) >= ChannelSize
          /\ release(u)
          /\ UNCHANGED <<queue, requests>>
    /\ UNCHANGED <<of, run, ctx, pool, loops, port>>

------------------------------------------------------------------------------
(* handleLoop and pairing.run                                               *)

(* The loop takes the head of the queue.  One that waited past its deadline  *)
(* is dropped, any other is paired, which occupies the loop.  When the run   *)
(* has ended and a connection waits, Go picks either case of the select.     *)
LoopTakes(g) ==
    /\ loops[g] > 0 /\ queue[g] # <<>>
    /\ queue' = [queue EXCEPT ![g] = Tail(@)]
    /\ LET u == Head(queue[g]) IN
       \/ release(u) /\ UNCHANGED loops                          \* expired: drop
       \/ /\ at' = [at EXCEPT ![u] = "pairing"]
          /\ loops' = [loops EXCEPT ![g] = @ - 1]
          /\ UNCHANGED active
    /\ UNCHANGED <<of, run, ctx, pool, requests, port>>

LoopEnds(g) ==
    /\ loops[g] > 0 /\ ctx[g] = "done"
    /\ loops' = [loops EXCEPT ![g] = @ - 1]
    /\ UNCHANGED <<active, at, of, run, ctx, queue, pool, requests, port>>

(* The loop is back at its select.                                           *)
LoopFreed(g) == loops' = [loops EXCEPT ![g] = @ + 1]

(* pairing.abandon: the run ended, or the pairing timeout fired.             *)
abandon(u) ==
    /\ at[u] = "pairing"
    /\ release(u) /\ LoopFreed(of[u])
    /\ UNCHANGED <<of, run, ctx, queue, pool, requests, port>>

(* A mutant: the age is looked at only when a tunnel connection arrives.     *)
PairingTimeoutOnArrival(u) == pool[of[u]] > 0 /\ abandon(u)

PairingEnded(u) == ctx[of[u]] = "done" /\ abandon(u)
PairingTimeout(u) == abandon(u)

(* A tunnel connection has come: the backend's address is written to it.     *)
PairingTakes(u) ==
    /\ at[u] = "pairing" /\ pool[of[u]] > 0
    /\ pool' = [pool EXCEPT ![of[u]] = @ - 1]
    /\ at' = [at EXCEPT ![u] = "announcing"]
    /\ UNCHANGED <<active, of, run, ctx, queue, requests, loops, port>>

(* It is gone: discarded, and the pairing waits again (plain TCP leaves      *)
(* `request` nil and asks for no other).                                     *)
AnnounceFails(u) ==
    /\ at[u] = "announcing" /\ at' = [at EXCEPT ![u] = "pairing"]
    /\ UNCHANGED <<active, of, run, ctx, queue, pool, requests, loops, port>>

(* The pair goes to a relay of its own.                                      *)
Relay(u) ==
    /\ at[u] = "announcing" /\ at' = [at EXCEPT ![u] = "relaying"]
    /\ LoopFreed(of[u])
    /\ UNCHANGED <<active, of, run, ctx, queue, pool, requests, port>>

(* TCPConnectionHandler returns: either end closed, or the run ended.        *)
RelayEnds(u) ==
    /\ at[u] = "relaying" /\ release(u)
    /\ UNCHANGED <<of, run, ctx, queue, pool, requests, loops, port>>

------------------------------------------------------------------------------
(* The pool (deliverTunnelConn) and the requests (channelHandler)            *)

deliverTunnelConn(g) ==
    /\ ctx[g] # "unmade" /\ pool[g] < ChannelSize
    /\ pool' = [pool EXCEPT ![g] = @ + 1]
    /\ UNCHANGED <<active, at, of, run, ctx, queue, requests, loops, port>>

RequestSent(g) ==
    /\ ctx[g] = "live" /\ requests[g] > 0
    /\ requests' = [requests EXCEPT ![g] = @ - 1]
    /\ UNCHANGED <<active, at, of, run, ctx, queue, pool, loops, port>>

------------------------------------------------------------------------------
(* Restart                                                                  *)

RunEnds ==
    /\ ctx[run] = "live" /\ ctx' = [ctx EXCEPT ![run] = "done"]
    /\ UNCHANGED <<active, at, of, run, queue, pool, requests, loops, port>>

(* listenerSet.n = 0 *)
NothingHeld == \A g \in Runs : port[g] \notin {"held", "bound"}

(* listeners.wait is over, the next run starts and gets its control channel. *)
NextRun ==
    /\ ctx[run] = "done" /\ run < MaxRuns /\ NothingHeld
    /\ run' = run + 1
    /\ ctx' = [ctx EXCEPT ![run + 1] = "live"]
    /\ loops' = [loops EXCEPT ![run + 1] = HandleLoops]
    /\ port' = [port EXCEPT ![run + 1] = "spawned"]
    /\ UNCHANGED <<active, at, of, queue, pool, requests>>

PortStep(g) == PortHolds(g) \/ PortBinds(g) \/ PortReleases(g)
LoopStep(g) == LoopTakes(g) \/ LoopEnds(g)
UserStep(u) == \/ Refuse(u) \/ Enqueue(u)
               \/ PairingEnded(u) \/ PairingTimeout(u) \/ PairingTakes(u)
               \/ AnnounceFails(u) \/ Relay(u) \/ RelayEnds(u)

Next == \/ \E g \in Runs : PortStep(g) \/ LoopStep(g) \/ deliverTunnelConn(g) \/ RequestSent(g)
        \/ \E u \in Users : UserStep(u) \/ \E g \in Runs : acquire(u, g)
        \/ RunEnds \/ NextRun

Spec == Init /\ [][Next]_vars

(* Goroutines are scheduled and timers fire.  The far end may stop for ever: *)
(* nothing is assumed of the pool or of relays, only that a pairing is not   *)
(* handed broken tunnel connections without end (each failed announcement    *)
(* restarts the timer with what is left, never less than a millisecond, and  *)
(* a connection already in the pool wins against it).                        *)
Fairness == /\ \A g \in Runs : WF_vars(LoopStep(g))
            /\ \A u \in Users : WF_vars(Refuse(u) \/ Enqueue(u)) /\ WF_vars(PairingTimeout(u))
                                /\ SF_vars(Relay(u))
FairSpec == Spec /\ Fairness

------------------------------------------------------------------------------
(* Properties                                                               *)

(* Connections that hold a slot, the probe of a refused one included.        *)
Holders == {u \in Users : at[u] # "away"}
Admitted == {u \in Users : at[u] \notin {"away", "over"}}

(* Every slot counted is held by exactly one connection: no path out of      *)
(* accepting, queueing, pairing or relaying releases twice or not at all.    *)
Accounted == active = Cardinality(Holders)

(* max_connections holds at every moment, whatever refused connections add   *)
(* to the counter and take back.                                             *)
LimitHolds == Cardinality(Admitted) <= MaxConnections

(* A connection that reached the queue of a run is relayed or given up while *)
(* the run lasts, even when the pool has run dry: the pairing timeout "fires *)
(* whether or not anything arrives".                                         *)
NobodyWaitsForEver ==
    \A u \in Users : at[u] = "queued" ~> (at[u] \in {"relaying", "away"} \/ ctx[of[u]] = "done")

=============================================================================
