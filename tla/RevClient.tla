------------------------------ MODULE RevClient ------------------------------
(***************************************************************************)
(* The client of the reverse TCP tunnel: the control channel, the guess at *)
(* which handshake the server speaks, the restart between two generations, *)
(* and the pool of connections dialled ahead of the traffic.               *)
(*                                                                         *)
(* A connection of the pool waits in tunnelDialer until the server gives   *)
(* it an address; the wait does not watch the context, so the connections  *)
(* of one generation outlive the restart that ends it.  The server is      *)
(* external: it asks for a connection whenever a user arrives and hands a  *)
(* connection of the pool to a waiting user.  The restart's pause of two   *)
(* seconds is taken to outlast the start of every goroutine that was       *)
(* spawned before it.                                                      *)
(***************************************************************************)
EXTENDS Integers

CONSTANTS
    ConnPoolSize,   \* configured size of the pool
    GrowthLimit,    \* poolGrowthLimit
    Window,         \* seconds between two decisions of the sizer
    GrowA, GrowB,   \* the factors a and b of the sizer
    ShrinkX, ShrinkY, \* its factors x and y
    LegacyMissThreshold, \* legacyMissThreshold
    ChannelSize,    \* room for requests, and for the pool, at the server
    FlowRoom,       \* room of controlFlow
    MaxUsers,       \* users that wait at one time, and that come in one window
    MaxConns,       \* connections waiting, dialled and asked for beyond which no user comes
    MaxLost,        \* connections and requests lost in one generation
    MaxRuns,        \* generations
    MaxOutages,     \* times the path to the server goes away
    Shutdown,       \* whether the parent context may end
    OldServer       \* whether the server starts as one that knows no nonce

ASSUME SizesAssumption ==
    /\ ConnPoolSize \in Nat \ {0} /\ GrowthLimit \in Nat \ {0} /\ Window \in Nat \ {0}
    /\ ChannelSize \in Nat \ {0} /\ FlowRoom \in Nat \ {0}
    /\ MaxUsers \in Nat /\ MaxConns \in Nat /\ MaxLost \in Nat /\ MaxRuns \in Nat \ {0} /\ MaxOutages \in Nat
    /\ LegacyMissThreshold \in Nat \ {0} /\ OldServer \in BOOLEAN /\ Shutdown \in BOOLEAN
ASSUME FactorsAssumption == GrowA \in Nat /\ GrowB \in Nat /\ ShrinkX \in Nat /\ ShrinkY \in Nat

VARIABLES
    control,    \* "dialling", "up", "ending" (Restart sleeps), "stopped"
    run,        \* the current generation
    parent,     \* the context the generations are derived from has not ended
    legacy, answered, misses, \* legacyProbe
    nonce,      \* poolNonce: the generation whose nonce it is, 0 for none
    peer,       \* a peer is published in the metrics
    open,       \* poolConnections, the counter
    taken,      \* loadConnections
    shrink,     \* tokens in controlFlow
    size, openSum, second, \* newPoolSize, openSum and the sizer's clock
    pool,       \* connections of this generation waiting for an address
    old,        \* connections of earlier generations still waiting
    dials, stale, \* dials under way, of this generation and of earlier ones
    waiting, requests, \* the server: users waiting, SG_Chan on their way
    lost,       \* history: connections and requests lost in this generation
    path, outages, serverV2 \* the network and the server's version

probe == <<legacy, answered, misses>>
sizer == <<size, openSum, second>>
world == <<path, outages, serverV2>>
demand == <<waiting, requests>>
conns == <<pool, old, dials, stale>>
vars == <<control, run, parent, probe, nonce, peer, open, taken, shrink, sizer, conns, demand, lost, world>>

(* The type invariant: among others, the size the sizer aims at stays        *)
(* between the configured size and poolGrowthLimit times it.                 *)
TypeOK ==
    /\ control \in {"dialling", "up", "ending", "stopped"} /\ run \in 1..MaxRuns
    /\ parent \in BOOLEAN /\ legacy \in BOOLEAN /\ answered \in BOOLEAN
    /\ misses \in 0..LegacyMissThreshold /\ nonce \in 0..MaxRuns /\ peer \in BOOLEAN
    /\ open \in Int /\ taken \in Nat /\ shrink \in 0..FlowRoom
    /\ size \in ConnPoolSize..(ConnPoolSize * GrowthLimit)
    /\ openSum \in Int /\ second \in 0..Window
    /\ pool \in Nat /\ old \in Nat /\ dials \in Nat /\ stale \in Nat
    /\ waiting \in Nat /\ requests \in 0..ChannelSize /\ lost \in Nat
    /\ path \in BOOLEAN /\ outages \in 0..MaxOutages /\ serverV2 \in BOOLEAN

(* NewTCPClient, Start.                                                      *)
Init ==
    /\ control = "dialling" /\ run = 1 /\ parent = TRUE
    /\ legacy = FALSE /\ answered = FALSE /\ misses = 0 /\ nonce = 0 /\ peer = FALSE
    /\ open = 0 /\ taken = 0 /\ shrink = 0
    /\ size = ConnPoolSize /\ openSum = 0 /\ second = 0
    /\ pool = 0 /\ old = 0 /\ dials = 0 /\ stale = 0
    /\ waiting = 0 /\ requests = 0 /\ lost = 0
    /\ path = TRUE /\ outages = 0 /\ serverV2 = ~OldServer

------------------------------------------------------------------------------
(* channelDialer and legacyProbe                                            *)

(* Nothing answered, or the answer did not come within controlAckTimeout: no *)
(* evidence about the server.                                                *)
DialFails ==
    /\ control = "dialling" /\ parent /\ ~path
    /\ UNCHANGED vars

(* A mutant: a proof that the server speaks v2 is not asked for.             *)
missUnproven ==
    IF misses + 1 < LegacyMissThreshold
    THEN misses' = misses + 1 /\ UNCHANGED legacy
    ELSE misses' = LegacyMissThreshold /\ legacy' = TRUE

(* A mutant: the handshake an old server speaks is never tried.              *)
missForever == misses' = 0 /\ UNCHANGED legacy

(* legacyProbe.miss: a v2 handshake that was closed without an answer.       *)
miss ==
    IF legacy \/ answered THEN UNCHANGED <<legacy, misses>>
    ELSE IF misses + 1 < LegacyMissThreshold
    THEN misses' = misses + 1 /\ UNCHANGED legacy
    ELSE misses' = LegacyMissThreshold /\ legacy' = TRUE

(* legacyProbe.ack.                                                          *)
ack(v2) ==
    /\ misses' = 0
    /\ answered' = (answered \/ v2)
    /\ legacy' = (legacy /\ ~v2)

(* The connection is closed before an answer: by a server that does not know *)
(* the signal, or in transit.                                                *)
HandshakeClosed ==
    /\ control = "dialling" /\ parent /\ path
    /\ miss
    /\ UNCHANGED <<control, run, parent, answered, nonce, peer, open, taken, shrink, sizer, conns, demand, lost, world>>

(* SG_Refused: somebody else holds the channel, or the server restarts.      *)
HandshakeRefused ==
    /\ control = "dialling" /\ parent /\ path /\ serverV2
    /\ ack(FALSE)
    /\ UNCHANGED <<control, run, parent, nonce, peer, open, taken, shrink, sizer, conns, demand, lost, world>>

(* The token came back.  The nonce is in place before the pool is started;   *)
(* poolMaintainer fills the pool (maintain's first loop), channelHandler     *)
(* takes over.                                                               *)
HandshakeAnswered ==
    /\ control = "dialling" /\ parent /\ path /\ (serverV2 \/ legacy)
    /\ LET v2 == serverV2 /\ ~legacy IN ack(v2) /\ nonce' = IF v2 THEN run ELSE 0
    /\ peer' = TRUE /\ control' = "up"
    /\ dials' = ConnPoolSize
    /\ UNCHANGED <<run, parent, open, taken, shrink, sizer, pool, old, stale, demand, lost, world>>

------------------------------------------------------------------------------
(* channelHandler and Restart                                               *)

(* The control channel ends: a read or a write fails, nothing is heard until *)
(* the deadline, the server closes it, or a message makes no sense.  Restart *)
(* cancels the generation and closes the channel; the connections of the     *)
(* pool stay, and so do the dials that got past their dial.  The sizer and   *)
(* the server's run end, with its users.                                     *)
RestartBegins ==
    /\ control = "up" /\ (run < MaxRuns \/ ~parent)
    /\ control' = "ending"
    /\ old' = old + pool /\ pool' = 0
    /\ stale' = stale + dials /\ dials' = 0
    /\ waiting' = 0 /\ requests' = 0 /\ lost' = 0
    /\ size' = ConnPoolSize /\ openSum' = 0 /\ second' = 0
    /\ UNCHANGED <<run, parent, probe, nonce, peer, open, taken, shrink, world>>

(* A mutant: the tokens of the generation that ended are not drained.        *)
RestartEndsUndrained ==
    /\ control = "ending" /\ parent /\ control' = "dialling" /\ run' = run + 1
    /\ nonce' = 0 /\ legacy' = FALSE /\ misses' = 0 /\ peer' = FALSE
    /\ open' = 0 /\ taken' = 0 /\ UNCHANGED shrink
    /\ UNCHANGED <<parent, answered, sizer, conns, demand, lost, world>>

(* Two seconds later: the new generation is published and starts to dial.    *)
RestartEnds ==
    /\ control = "ending" /\ parent /\ control' = "dialling" /\ run' = run + 1
    /\ nonce' = 0 /\ legacy' = FALSE /\ misses' = 0 /\ peer' = FALSE
    /\ open' = 0 /\ taken' = 0 /\ shrink' = 0
    /\ UNCHANGED <<parent, answered, sizer, conns, demand, lost, world>>

(* The tunnel was shut down meanwhile: nothing is built, and no peer claimed. *)
RestartAbandoned ==
    /\ control = "ending" /\ ~parent /\ control' = "stopped" /\ peer' = FALSE
    /\ UNCHANGED <<run, parent, probe, nonce, open, taken, shrink, sizer, conns, demand, lost, world>>

(* SG_Chan: the server has taken a connection.  A token of the sizer uses up *)
(* the request, otherwise a replacement is dialled.                          *)
ChanSignal ==
    /\ control = "up" /\ path /\ requests > 0
    /\ requests' = requests - 1 /\ taken' = taken + 1
    /\ \/ shrink > 0 /\ shrink' = shrink - 1 /\ UNCHANGED dials
       \/ shrink = 0 /\ dials' = dials + 1 /\ UNCHANGED shrink
    /\ UNCHANGED <<control, run, parent, probe, nonce, peer, open, sizer, pool, old, stale, waiting, lost, world>>

(* A reload, a chain that moves on or the end of the process cancels the      *)
(* parent context.                                                           *)
ParentEnds ==
    /\ Shutdown /\ parent /\ parent' = FALSE
    /\ UNCHANGED <<control, run, probe, nonce, peer, open, taken, shrink, sizer, conns, demand, lost, world>>

(* channelDialer returns; with the channel up, channelHandler tells the      *)
(* server that the channel closes and returns.                               *)
StopsWithParent ==
    /\ ~parent /\ control \in {"dialling", "up"} /\ control' = "stopped"
    /\ old' = old + pool /\ pool' = 0 /\ stale' = stale + dials /\ dials' = 0
    /\ waiting' = 0 /\ requests' = 0 /\ lost' = 0
    /\ size' = ConnPoolSize /\ openSum' = 0 /\ second' = 0
    /\ UNCHANGED <<run, parent, probe, nonce, peer, open, taken, shrink, world>>

------------------------------------------------------------------------------
(* tunnelDialer                                                             *)

(* The connection stands, carries the nonce and waits for an address.        *)
TunnelUp ==
    /\ control = "up" /\ path /\ dials > 0 /\ pool < ChannelSize
    /\ dials' = dials - 1 /\ open' = open + 1 /\ pool' = pool + 1
    /\ UNCHANGED <<control, run, parent, probe, nonce, peer, taken, shrink, sizer, old, stale, demand, lost, world>>

(* A dial that fails, or a connection the server has no room for, is not     *)
(* tried again.                                                              *)
TunnelFails ==
    /\ control = "up" /\ dials > 0 /\ lost < MaxLost
    /\ dials' = dials - 1 /\ lost' = lost + 1
    /\ UNCHANGED <<control, run, parent, probe, nonce, peer, open, taken, shrink, sizer, pool, old, stale, demand,
                   world>>

(* A dial of an earlier generation comes to its end: it has failed, or it    *)
(* announces the nonce it finds and waits, for the new server run when that  *)
(* is the nonce it found.                                                    *)
StaleDialEnds ==
    /\ stale > 0 /\ stale' = stale - 1
    /\ \/ UNCHANGED <<open, pool, old>>
       \/ open' = open + 1 /\ old' = old + 1 /\ UNCHANGED pool
       \/ control = "up" /\ path /\ nonce # 0 /\ pool < ChannelSize /\ open' = open + 1 /\ pool' = pool + 1 /\ UNCHANGED old
    /\ UNCHANGED <<control, run, parent, probe, nonce, peer, taken, shrink, sizer, dials, demand, lost, world>>

(* A mutant: the counter is only taken down for a connection that was used.  *)
ConnectionLostUncounted ==
    /\ pool > 0 /\ lost < MaxLost /\ lost' = lost + 1
    /\ pool' = pool - 1
    /\ UNCHANGED <<control, run, parent, probe, nonce, peer, open, taken, shrink, sizer, old, dials, stale, demand,
                   world>>

(* The wait ends in an error: the path or the server dropped the connection. *)
ConnectionLost ==
    /\ pool > 0 /\ lost < MaxLost /\ lost' = lost + 1
    /\ open' = open - 1 /\ pool' = pool - 1
    /\ UNCHANGED <<control, run, parent, probe, nonce, peer, taken, shrink, sizer, old, dials, stale, demand, world>>

(* The same for a connection that an earlier generation left behind.         *)
OldConnectionEnds ==
    /\ old > 0 /\ open' = open - 1 /\ old' = old - 1
    /\ UNCHANGED <<control, run, parent, probe, nonce, peer, taken, shrink, sizer, pool, dials, stale, demand, lost,
                   world>>

(* The server hands the connection to a user and sends the address: it goes  *)
(* to localDialer and leaves the pool.                                       *)
Paired ==
    /\ control = "up" /\ path /\ waiting > 0 /\ pool > 0
    /\ waiting' = waiting - 1 /\ open' = open - 1 /\ pool' = pool - 1
    /\ UNCHANGED <<control, run, parent, probe, nonce, peer, taken, shrink, sizer, old, dials, stale, requests, lost,
                   world>>

------------------------------------------------------------------------------
(* poolSizer.maintain                                                       *)

Halt == UNCHANGED <<control, run, parent, probe, nonce, peer, open, pool, old, stale, demand, lost, world>>

(* tickerPool: one sample a second.                                          *)
Sample ==
    /\ control = "up" /\ parent /\ second < Window
    /\ second' = second + 1 /\ openSum' = openSum + open
    /\ UNCHANGED <<taken, size, shrink, dials>> /\ Halt

(* (n + 9) / 10, rounded towards zero as Go does.                            *)
perSecond(n) == LET m == n + Window - 1 IN IF m >= 0 THEN m \div Window ELSE -((-m) \div Window)

poolCanGrow(n) == n < ConnPoolSize * GrowthLimit

(* Enough is asked for, or (busy) each open connection carries               *)
(* poolScaleMbpsPerConn.                                                     *)
wantsMore(busy, avg) ==
    poolCanGrow(size) /\ (perSecond(taken) + GrowA > avg * GrowB \/ (busy /\ avg > 0))

wantsLess(avg) == perSecond(taken) + ShrinkX < avg * ShrinkY /\ size > ConnPoolSize

(* tickerLoad: the averages of the window decide on one step up or down.     *)
Decide ==
    /\ control = "up" /\ parent /\ second = Window
    /\ LET avg == perSecond(openSum) IN
       \E busy \in BOOLEAN :
          \/ wantsMore(busy, avg) /\ size' = size + 1 /\ dials' = dials + 1 /\ UNCHANGED shrink
          \/ /\ ~wantsMore(busy, avg) /\ wantsLess(avg) /\ shrink < FlowRoom
             /\ size' = size - 1 /\ shrink' = shrink + 1 /\ UNCHANGED dials
          \/ ~wantsMore(busy, avg) /\ ~wantsLess(avg) /\ UNCHANGED <<size, shrink, dials>>
    /\ second' = 0 /\ openSum' = 0 /\ taken' = 0
    /\ Halt

------------------------------------------------------------------------------
(* The server, its users and the path                                       *)

(* A user arrives: one more connection is asked for, unless the server's     *)
(* requests are full.                                                        *)
UserArrives ==
    /\ control = "up" /\ waiting < MaxUsers /\ taken + requests < MaxUsers
    /\ pool + dials + requests < MaxConns
    /\ waiting' = waiting + 1
    /\ \/ requests < ChannelSize /\ requests' = requests + 1 /\ UNCHANGED lost
       \/ requests = ChannelSize /\ lost < MaxLost /\ lost' = lost + 1 /\ UNCHANGED requests
    /\ UNCHANGED <<control, run, parent, probe, nonce, peer, open, taken, shrink, sizer, conns, world>>

(* The pairing timeout: what was asked for on its behalf still comes.        *)
UserGivesUp ==
    /\ waiting > 0 /\ waiting' = waiting - 1
    /\ UNCHANGED <<control, run, parent, probe, nonce, peer, open, taken, shrink, sizer, conns, requests, lost, world>>

PathFails ==
    /\ path /\ outages < MaxOutages /\ path' = FALSE /\ outages' = outages + 1
    /\ UNCHANGED <<control, run, parent, probe, nonce, peer, open, taken, shrink, sizer, conns, demand, lost, serverV2>>

PathReturns ==
    /\ ~path /\ path' = TRUE
    /\ UNCHANGED <<control, run, parent, probe, nonce, peer, open, taken, shrink, sizer, conns, demand, lost, outages,
                   serverV2>>

(* The server is replaced by one that issues nonces.                         *)
ServerUpgraded ==
    /\ ~serverV2 /\ control # "up" /\ serverV2' = TRUE
    /\ UNCHANGED <<control, run, parent, probe, nonce, peer, open, taken, shrink, sizer, conns, demand, lost, path,
                   outages>>

------------------------------------------------------------------------------
Next ==
    \/ DialFails \/ HandshakeClosed \/ HandshakeRefused \/ HandshakeAnswered
    \/ RestartBegins \/ RestartEnds \/ RestartAbandoned \/ ChanSignal
    \/ ParentEnds \/ StopsWithParent
    \/ TunnelUp \/ TunnelFails \/ StaleDialEnds \/ ConnectionLost \/ OldConnectionEnds \/ Paired
    \/ Sample \/ Decide
    \/ UserArrives \/ UserGivesUp \/ PathFails \/ PathReturns \/ ServerUpgraded

Spec == Init /\ [][Next]_vars

(* Fairness: goroutines that can run do run.  A dial whose path is there     *)
(* comes to an end, the deadline of a silent control channel passes, and an  *)
(* outage ends.                                                              *)
Fairness ==
    /\ WF_vars(HandshakeAnswered) /\ WF_vars(HandshakeClosed)
    /\ WF_vars(~path /\ RestartBegins)
    /\ WF_vars(RestartEnds) /\ WF_vars(RestartAbandoned) /\ WF_vars(StopsWithParent)
    /\ WF_vars(PathReturns)

FairSpec == Spec /\ Fairness

------------------------------------------------------------------------------
(* No user is short of a connection because the pool shrinks: at every       *)
(* moment the connections that wait, are being dialled or have been asked    *)
(* for cover everyone who waits, the requests the sizer has withheld and the *)
(* configured pool, less what the network has lost.                          *)
NobodyIsShort ==
    control = "up" => waiting + shrink + ConnPoolSize <= pool + dials + requests + lost

(* poolConnections never shows more connections than wait, over any number   *)
(* of generations: the sizer errs on the side of dialling.                   *)
OpenNeverOver == open <= pool + old

(* A server that has ever issued a nonce is never again talked to without    *)
(* one: whatever closes a handshake, the pool of an established channel      *)
(* carries the nonce of that very channel.                                   *)
NonceOnceProven == control = "up" /\ answered => nonce = run

(* Once outages and lost handshakes are over the tunnel is up for good,      *)
(* whatever version the server has and whatever was guessed about it.        *)
Reconnects == <>[](control \in {"up", "stopped"})
==============================================================================
