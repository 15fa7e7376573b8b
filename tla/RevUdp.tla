------------------------------- MODULE RevUdp --------------------------------
(***************************************************************************)
(* The datagram transport of the reverse tunnel.  A user is a source       *)
(* address; its first datagram opens a flow on the server's forwarded port,*)
(* which is queued, paired with a socket of the client's pool and relayed  *)
(* both ways until both directions have ended.  The client's sockets       *)
(* introduce themselves with one datagram and learn their target from      *)
(* another; either may be lost.  Data datagrams are not kept: a user may   *)
(* fall silent at any time.  The control channel is RevLink's.             *)
(***************************************************************************)
EXTENDS Integers, Sequences, FiniteSets, SequencesExt

CONSTANTS
    Users,          \* source addresses
    Sockets,        \* the client's tunnel sockets, one address each
    MaxUdpRuns,     \* runs of the server, the first one included
    ChannelSize,    \* capacity of udpChan, of tunnelChannel and of the requests
    MaxConnections, \* the limiter's maxConns
    PoolSize,       \* the client's ConnPoolSize
    MaxLost,        \* introductions and targets that are lost
    Nobody

ASSUME UdpAssumption ==
    /\ IsFiniteSet(Users)
    /\ Nobody \notin Users \cup Sockets \cup {"over"} /\ "over" \notin Users
    /\ MaxUdpRuns \in Nat \ {0}
    /\ ChannelSize \in Nat /\ MaxConnections \in Nat /\ PoolSize \in Nat /\ MaxLost \in Nat

UdpRuns == 1..MaxUdpRuns

VARIABLES
    udpRun, live, \* the newest run; whether its context is
    table,      \* per run: the port's activeConnections
    stage,      \* per run and user: how far its flow has got
    queue,      \* per run: udpChan
    udpReader,  \* per run: the flow whose first payload is about to be filed
    loop,       \* per run: the flow the handle loop is pairing, or "over"
    dirs,       \* per run and user: the directions that are being copied
    with,       \* per run and user: the socket the flow was paired with
    active,     \* limiter.active
    pool,       \* per run: tunnelChannel
    known,      \* the transport's activeConnections
    requests,   \* tokens in reqNewConnChan, or on their way to the client
    udpSock,       \* per socket: its life at the client
    wire,       \* introductions and targets in flight
    lost        \* datagrams lost
udpVars == <<udpRun, live, table, stage, queue, udpReader, loop, dirs, with, active, pool,
          known, requests, udpSock, wire, lost>>
flows  == <<table, stage, queue, udpReader, loop, dirs, with, active>>
tunnel == <<pool, known, requests>>

Both == {"out", "back"}
intro(k)  == [what |-> "token", of |-> k]
target(k) == [what |-> "target", of |-> k]

(* The type invariant.                                                       *)
UdpTypeOK ==
    /\ udpRun \in UdpRuns /\ live \in BOOLEAN /\ active \in Nat
    /\ table \in [UdpRuns -> SUBSET Users] /\ queue \in [UdpRuns -> Seq(Users)]
    /\ stage \in [UdpRuns -> [Users -> {"none", "queued", "pairing", "relaying"}]]
    /\ udpReader \in [UdpRuns -> Users \cup {Nobody}] /\ loop \in [UdpRuns -> Users \cup {Nobody, "over"}]
    /\ dirs \in [UdpRuns -> [Users -> SUBSET Both]] /\ with \in [UdpRuns -> [Users -> Sockets \cup {Nobody}]]
    /\ pool \in [UdpRuns -> Seq(Sockets)] /\ known \subseteq Sockets /\ requests \in 0..ChannelSize
    /\ udpSock \in [Sockets -> {"unused", "waiting", "serving", "closed"}]
    /\ lost \in 0..MaxLost
    /\ wire \subseteq {intro(k) : k \in Sockets} \cup {target(k) : k \in Sockets}

none == [u \in Users |-> "none"]

UdpInit ==
    /\ udpRun = 1 /\ live = TRUE /\ active = 0 /\ lost = 0 /\ wire = {}
    /\ table = [g \in UdpRuns |-> {}] /\ stage = [g \in UdpRuns |-> none]
    /\ queue = [g \in UdpRuns |-> <<>>] /\ pool = [g \in UdpRuns |-> <<>>]
    /\ udpReader = [g \in UdpRuns |-> Nobody] /\ loop = [g \in UdpRuns |-> Nobody]
    /\ dirs = [g \in UdpRuns |-> [u \in Users |-> {}]] /\ with = [g \in UdpRuns |-> [u \in Users |-> Nobody]]
    /\ known = {} /\ requests = 0
    /\ udpSock = [k \in Sockets |-> "unused"]

Over(g) == g < udpRun \/ (g = udpRun /\ ~live)

------------------------------------------------------------------------------
(* localListener: the reader of the forwarded port                          *)

(* A datagram of an address in the table is filed with its flow.  A new      *)
(* address takes a slot and a place in the table and in the queue; at the    *)
(* limit, or with the queue full, all of it is taken back.                   *)
NewFlow(u) ==
    /\ live /\ udpReader[udpRun] = Nobody /\ u \notin table[udpRun]
    /\ active < MaxConnections /\ Len(queue[udpRun]) < ChannelSize
    /\ active' = active + 1
    /\ table' = [table EXCEPT ![udpRun] = @ \cup {u}]
    /\ stage' = [stage EXCEPT ![udpRun][u] = "queued"]
    /\ queue' = [queue EXCEPT ![udpRun] = Append(@, u)]
    /\ udpReader' = [udpReader EXCEPT ![udpRun] = u]
    /\ UNCHANGED <<udpRun, live, loop, dirs, with, tunnel, udpSock, wire, lost>>

(* The process is started again by its supervisor: nothing is left of it.    *)
Crashes ==
    /\ udpRun < MaxUdpRuns /\ udpRun' = udpRun + 1 /\ live' = TRUE /\ active' = 0
    /\ table' = [g \in UdpRuns |-> {}] /\ stage' = [g \in UdpRuns |-> none]
    /\ queue' = [g \in UdpRuns |-> <<>>] /\ pool' = [g \in UdpRuns |-> <<>>]
    /\ udpReader' = [g \in UdpRuns |-> Nobody]
    /\ loop' = [g \in UdpRuns |-> IF g <= udpRun THEN "over" ELSE Nobody]
    /\ dirs' = [g \in UdpRuns |-> [u \in Users |-> {}]] /\ with' = [g \in UdpRuns |-> [u \in Users |-> Nobody]]
    /\ known' = {} /\ requests' = 0
    /\ UNCHANGED <<udpSock, wire, lost>>

(* The flow is in the queue; its first payload is filed without the lock, in *)
(* a channel dropLocalFlow may have closed (a panic), and another tunnel     *)
(* connection is asked for.                                                  *)
FirstPayload(g) ==
    /\ udpReader[g] # Nobody
    /\ \/ /\ udpReader[g] \notin table[g] /\ Crashes
       \/ /\ udpReader[g] \in table[g]
          /\ udpReader' = [udpReader EXCEPT ![g] = Nobody]
          /\ requests' = IF ~Over(g) /\ requests < ChannelSize THEN requests + 1 ELSE requests
          /\ UNCHANGED <<udpRun, live, table, stage, queue, loop, dirs, with, active, pool, known, udpSock, wire, lost>>

------------------------------------------------------------------------------
(* handleLoop                                                               *)

(* A mutant: the flow is given up and its address stays in the table.        *)
dropLocalFlowKeepingEntry(g, u) ==
    /\ stage' = [stage EXCEPT ![g][u] = "none"] /\ active' = active - 1
    /\ UNCHANGED table

(* dropLocalFlow: out of the table, the payload closed, the slot given back. *)
dropLocalFlow(g, u) ==
    /\ stage' = [stage EXCEPT ![g][u] = "none"] /\ active' = active - 1
    /\ table' = [table EXCEPT ![g] = @ \ {u}]

(* The head of the queue: too old and dropped, or taken in hand.             *)
Takes(g) ==
    /\ loop[g] = Nobody /\ queue[g] # <<>>
    /\ LET u == Head(queue[g]) IN
       \/ u # udpReader[g] /\ dropLocalFlow(g, u) /\ UNCHANGED loop
       \/ /\ stage' = [stage EXCEPT ![g][u] = "pairing"] /\ loop' = [loop EXCEPT ![g] = u]
          /\ UNCHANGED <<table, active>>
    /\ queue' = [queue EXCEPT ![g] = Tail(@)]
    /\ UNCHANGED <<udpRun, live, udpReader, dirs, with, tunnel, udpSock, wire, lost>>

(* The head of the pool is told the target.  A write that fails costs the    *)
(* socket, and the loop goes on to the next.  The timer that was set for the *)
(* wait leads back to the same wait and changes nothing.                     *)
Pairs(g) ==
    /\ loop[g] \in Users /\ pool[g] # <<>>
    /\ LET u == loop[g] k == Head(pool[g]) IN
       \/ /\ stage' = [stage EXCEPT ![g][u] = "relaying"] /\ loop' = [loop EXCEPT ![g] = Nobody]
          /\ dirs' = [dirs EXCEPT ![g][u] = Both] /\ with' = [with EXCEPT ![g][u] = k]
          /\ wire' = wire \cup {target(k)}
          /\ UNCHANGED <<known, lost>>
       \/ /\ (Over(g) \/ lost < MaxLost) /\ lost' = IF Over(g) THEN lost ELSE lost + 1
          /\ known' = known \ {k} /\ UNCHANGED <<stage, loop, dirs, with, wire>>
    /\ pool' = [pool EXCEPT ![g] = Tail(@)]
    /\ UNCHANGED <<udpRun, live, table, queue, udpReader, active, requests, udpSock>>

(* The run is over: the flow in hand is dropped.  What is in the queue stays *)
(* there, with its slots.                                                    *)
LoopEnds(g) ==
    /\ Over(g) /\ loop[g] # "over"
    /\ loop' = [loop EXCEPT ![g] = "over"]
    /\ IF loop[g] \in Users THEN dropLocalFlow(g, loop[g]) ELSE UNCHANGED <<stage, active, table>>
    /\ UNCHANGED <<udpRun, live, queue, udpReader, dirs, with, tunnel, udpSock, wire, lost>>

------------------------------------------------------------------------------
(* udpCopy                                                                  *)

(* From the user to the tunnel, until the run ends or the user falls silent. *)
udpLocalCopy(g, u) ==
    /\ "out" \in dirs[g][u]
    /\ dirs' = [dirs EXCEPT ![g][u] = @ \ {"out"}]
    /\ UNCHANGED <<udpRun, live, table, stage, queue, udpReader, loop, with, active, tunnel, udpSock, wire, lost>>

(* From the tunnel to the user: the backend may fall silent at any time.     *)
udpTunnelCopy(g, u) ==
    /\ "back" \in dirs[g][u]
    /\ dirs' = [dirs EXCEPT ![g][u] = @ \ {"back"}]
    /\ UNCHANGED <<udpRun, live, table, stage, queue, udpReader, loop, with, active, tunnel, udpSock, wire, lost>>

(* A mutant: a paired flow keeps its slot.                                   *)
udpCopyKeepingSlot(g, u) ==
    /\ stage[g][u] = "relaying" /\ dirs[g][u] = {}
    /\ stage' = [stage EXCEPT ![g][u] = "none"] /\ table' = [table EXCEPT ![g] = @ \ {u}]
    /\ known' = IF Over(g) THEN known ELSE known \ {with[g][u]}
    /\ with' = [with EXCEPT ![g][u] = Nobody]
    /\ UNCHANGED <<udpRun, live, queue, udpReader, loop, dirs, active, pool, requests, udpSock, wire, lost>>

(* Both have ended: the flow and its socket are forgotten, the slot is given *)
(* back.  After a restart the socket's entry is looked for in the new table. *)
udpCopy(g, u) ==
    /\ stage[g][u] = "relaying" /\ dirs[g][u] = {}
    /\ dropLocalFlow(g, u)
    /\ known' = IF Over(g) THEN known ELSE known \ {with[g][u]}
    /\ with' = [with EXCEPT ![g][u] = Nobody]
    /\ UNCHANGED <<udpRun, live, queue, udpReader, loop, dirs, pool, requests, udpSock, wire, lost>>

------------------------------------------------------------------------------
(* acceptTunnelConn                                                         *)

(* A socket introduces itself with the token and joins the pool, or there is *)
(* no room and it is forgotten again.                                        *)
Introduced(k) ==
    /\ live /\ intro(k) \in wire /\ wire' = wire \ {intro(k)}
    /\ IF k \notin known /\ Len(pool[udpRun]) < ChannelSize
       THEN known' = known \cup {k} /\ pool' = [pool EXCEPT ![udpRun] = Append(@, k)]
       ELSE UNCHANGED <<known, pool>>
    /\ UNCHANGED <<udpRun, live, flows, requests, udpSock, lost>>

------------------------------------------------------------------------------
(* The client                                                               *)

Waiting == {k \in Sockets : udpSock[k] = "waiting"}

(* tunnelDialer: the control channel asked for one, or the pool is short.    *)
tunnelDialer(k) ==
    /\ live /\ udpSock[k] = "unused"
    /\ \/ requests > 0 /\ requests' = requests - 1
       \/ Cardinality(Waiting) < PoolSize /\ UNCHANGED requests
    /\ udpSock' = [udpSock EXCEPT ![k] = "waiting"] /\ wire' = wire \cup {intro(k)}
    /\ UNCHANGED <<udpRun, live, flows, pool, known, lost>>

(* handleTunnelConn: the first datagram that is not a ping is the target.    *)
Targeted(k) ==
    /\ target(k) \in wire /\ wire' = wire \ {target(k)}
    /\ IF udpSock[k] = "waiting"
       THEN udpSock' = [udpSock EXCEPT ![k] = "serving"]
       ELSE UNCHANGED udpSock
    /\ UNCHANGED <<udpRun, live, flows, tunnel, lost>>

sends(k) == \E g \in UdpRuns : \E u \in Users : with[g][u] = k /\ "out" \in dirs[g][u]

(* The target is lost or late and the user's data is taken for it: it does   *)
(* not resolve and the socket is closed.                                     *)
Mistaken(k) ==
    /\ udpSock[k] = "waiting" /\ sends(k)
    /\ udpSock' = [udpSock EXCEPT ![k] = "closed"]
    /\ UNCHANGED <<udpRun, live, flows, tunnel, wire, lost>>

(* localDialer, udpCopy: when neither direction has carried anything for a   *)
(* minute the socket is closed.                                              *)
copyEnds(k) ==
    /\ udpSock[k] = "serving"
    /\ udpSock' = [udpSock EXCEPT ![k] = "closed"]
    /\ UNCHANGED <<udpRun, live, flows, tunnel, wire, lost>>

(* A generation of the client ends and closes its sockets, as it does when   *)
(* the server's run has ended.                                               *)
ClientEnds ==
    /\ ~live /\ \E k \in Sockets : udpSock[k] \in {"waiting", "serving"}
    /\ udpSock' = [k \in Sockets |-> IF udpSock[k] = "unused" THEN "unused" ELSE "closed"]
    /\ UNCHANGED <<udpRun, live, flows, tunnel, wire, lost>>

(* The address of a closed socket is free again once nothing refers to it.   *)
Recycled(k) ==
    /\ udpSock[k] = "closed" /\ k \notin known /\ {intro(k), target(k)} \cap wire = {}
    /\ \A g \in UdpRuns : k \notin ToSet(pool[g]) /\ \A u \in Users : with[g][u] # k
    /\ udpSock' = [udpSock EXCEPT ![k] = "unused"]
    /\ UNCHANGED <<udpRun, live, flows, tunnel, wire, lost>>

Lose(d) ==
    /\ d \in wire /\ lost < MaxLost /\ wire' = wire \ {d} /\ lost' = lost + 1
    /\ UNCHANGED <<udpRun, live, flows, tunnel, udpSock>>

------------------------------------------------------------------------------
(* Restart                                                                  *)

UdpRunEnds ==
    /\ live /\ udpRun < MaxUdpRuns /\ live' = FALSE
    /\ UNCHANGED <<udpRun, flows, tunnel, udpSock, wire, lost>>

(* The next run has channels of its own and a table of sockets that is new;  *)
(* the limiter is the transport's.  It listens once a client has claimed it, *)
(* which has closed the sockets of its own last generation.                  *)
NextRun ==
    /\ ~live /\ \A k \in Sockets : udpSock[k] \in {"unused", "closed"}
    /\ udpRun' = udpRun + 1 /\ live' = TRUE
    /\ known' = {} /\ requests' = 0
    /\ UNCHANGED <<flows, pool, udpSock, wire, lost>>

Server(g) == Takes(g) \/ Pairs(g) \/ LoopEnds(g) \/ FirstPayload(g)

UdpNext ==
    \/ \E u \in Users : NewFlow(u)
    \/ \E g \in UdpRuns : Server(g) \/ \E u \in Users : udpLocalCopy(g, u) \/ udpTunnelCopy(g, u) \/ udpCopy(g, u)
    \/ \E k \in Sockets : \/ Introduced(k) \/ tunnelDialer(k) \/ Targeted(k) \/ Mistaken(k)
                          \/ copyEnds(k) \/ Recycled(k)
    \/ \E d \in wire : Lose(d)
    \/ ClientEnds \/ UdpRunEnds \/ NextRun

UdpSpec == UdpInit /\ [][UdpNext]_udpVars

(* Fairness: goroutines that can go on do, on both ends; timers fire and     *)
(* datagrams that are not lost arrive.  Nothing makes a user send.           *)
UdpFairness ==
    /\ \A g \in UdpRuns : WF_udpVars(Server(g))
    /\ \A k \in Sockets : WF_udpVars(Introduced(k)) /\ WF_udpVars(Targeted(k))
    /\ WF_udpVars(\E k \in Sockets : tunnelDialer(k))
    /\ WF_udpVars(ClientEnds) /\ WF_udpVars(NextRun)

UdpFairSpec == UdpSpec /\ UdpFairness

------------------------------------------------------------------------------
(* Every slot of the limiter is held by one flow, of this run or of one that *)
(* has ended: whatever way a flow goes, its slot is given back once.         *)
SlotsHeld ==
    active = Cardinality({p \in UdpRuns \X Users : stage[p[1]][p[2]] # "none"})

(* No stale entry: an address in the port's table, or a socket in the        *)
(* transport's, has somebody who will read what is filed there, or take it   *)
(* out.  Otherwise its peer would be silent until the service is restarted.  *)
NoStaleEntry ==
    /\ \A g \in UdpRuns : \A u \in table[g] : stage[g][u] # "none"
    /\ live => known \subseteq ToSet(pool[udpRun]) \cup {with[udpRun][u] : u \in Users}

(* "The timeout runs on a timer, so it fires whether or not a tunnel         *)
(* connection ever arrives": a flow is not held by the handle loop for ever. *)
TimeoutFires ==
    \A g \in UdpRuns : \A u \in Users : (stage[g][u] = "pairing") ~> (stage[g][u] # "pairing")
=============================================================================
