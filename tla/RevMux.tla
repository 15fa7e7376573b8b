------------------------------- MODULE RevMux --------------------------------
(***************************************************************************)
(* The multiplexed server transports of the reverse tunnel (tcpmux, wsmux, *)
(* kcp): users' connections wait in one queue, every session carries up to *)
(* MuxCon of them as streams, and two counters, of streams and of          *)
(* sessions, decide when the client is asked for another session.          *)
(*                                                                         *)
(* Queue, requests and sessions belong to one run; the counters belong to  *)
(* the transport and outlive it.  The limiter is modelled in RevForward,   *)
(* the run's own life in RevServer.                                        *)
(***************************************************************************)
EXTENDS Integers, FiniteSets

CONSTANTS
    Sessions,       \* identities of sessions
    MuxCon,         \* streams one session may carry
    ChannelSize,    \* room in the queue, in the requests and in tunnelChannel
    ConnPoolSize,   \* sessions the client dials when the control channel is up
    MaxRuns,        \* runs of the transport
    MaxUsers,       \* connections of users under way at one time
    MaxDials,       \* sessions the client dials at one time
    MaxFlows,       \* datagram flows of one behaviour
    MaxLost         \* sessions and requests lost in one run

ASSUME MuxAssumption ==
    /\ IsFiniteSet(Sessions)
    /\ MuxCon \in Nat \ {0}
    /\ ChannelSize \in Nat
    /\ ConnPoolSize \in Nat \ {0}
    /\ {MaxRuns, MaxUsers, MaxDials, MaxFlows, MaxLost} \subseteq Nat
    /\ MaxRuns > 0

VARIABLES
    run, live,      \* the current run, and whether its context has not ended
    queued,         \* connections in localChannel
    requests,       \* tokens in reqNewConnChan
    dialled,        \* sessions the client is dialling
    arrived,        \* sessions in tunnelChannel
    at,             \* per session: "none", "taking", "holding" a connection
    broken,         \* the sessions whose carrier is gone
    slots,          \* per session: its streams, the tokens in its counter
    loose,          \* relays whose session has ended
    leftover, heldOver, \* relays of earlier runs, connections their sessions hold
    streamCounter, sessionCounter,
    drift, under,   \* history: what streamCounter and sessionCounter have missed
    lost, flows     \* history: what has not come, datagram flows

channels == <<queued, requests, dialled, arrived>>
counters == <<streamCounter, sessionCounter>>
past == <<leftover, heldOver>>
history == <<drift, under>>
vars == <<run, live, channels, at, broken, slots, loose, past, counters, history, lost, flows>>

Active == {s \in Sessions : at[s] # "none"}
Holding == {s \in Sessions : at[s] = "holding"}
Streams == {x \in Sessions \X (1 .. MuxCon) : x[2] <= slots[x[1]]}
UnderWay == queued + Cardinality(Holding) + Cardinality(Streams) + loose

(* The type invariant: no session ever carries more than MuxCon streams.     *)
TypeOK ==
    /\ run \in 1..MaxRuns /\ live \in BOOLEAN
    /\ queued \in 0..ChannelSize /\ requests \in 0..ChannelSize /\ arrived \in 0..ChannelSize
    /\ dialled \in Nat /\ at \in [Sessions -> {"none", "taking", "holding"}]
    /\ broken \in SUBSET Sessions /\ slots \in [Sessions -> 0..MuxCon]
    /\ loose \in Nat /\ leftover \in Nat /\ heldOver \in Nat
    /\ streamCounter \in Int /\ sessionCounter \in Int /\ drift \in Nat /\ under \in Nat
    /\ lost \in Nat /\ flows \in Nat

(* The control channel of the first run is up; the client fills its pool.    *)
Init ==
    /\ run = 1 /\ live = TRUE
    /\ queued = 0 /\ requests = 0 /\ dialled = ConnPoolSize /\ arrived = 0
    /\ at = [s \in Sessions |-> "none"] /\ broken = {}
    /\ slots = [s \in Sessions |-> 0] /\ loose = 0 /\ leftover = 0 /\ heldOver = 0
    /\ streamCounter = 0 /\ sessionCounter = 0 /\ drift = 0 /\ under = 0 /\ lost = 0 /\ flows = 0

------------------------------------------------------------------------------
(* Asking for sessions                                                      *)

(* A token in reqNewConnChan, or a warning that it is full.                  *)
Ask == \/ requests < ChannelSize /\ requests' = requests + 1 /\ UNCHANGED lost
       \/ requests = ChannelSize /\ lost < MaxLost /\ lost' = lost + 1 /\ UNCHANGED requests

(* A mutant: the sessions are asked for one stream late.                     *)
fullMeansMore == streamCounter + 1 > sessionCounter * MuxCon + MuxCon

(* The streams, the new one included, fill every session there is.           *)
full == streamCounter + 1 >= sessionCounter * MuxCon

(* acceptLocalConn: the connection is queued and counted, and a session is   *)
(* asked for when all are full.  With a full queue it is dropped.            *)
Accept ==
    /\ live /\ UnderWay < MaxUsers /\ queued < ChannelSize
    /\ queued' = queued + 1 /\ streamCounter' = streamCounter + 1
    /\ IF full THEN Ask ELSE UNCHANGED <<requests, lost>>
    /\ UNCHANGED <<run, live, dialled, arrived, at, broken, slots, loose, past, sessionCounter, history, flows>>

(* udpAdmitter: a datagram flow joins the same queue and always asks; the    *)
(* stream counter is not touched, though it will be when the flow ends.      *)
AcceptFlow ==
    /\ live /\ flows < MaxFlows /\ queued < ChannelSize
    /\ queued' = queued + 1 /\ drift' = drift + 1 /\ flows' = flows + 1 /\ Ask
    /\ UNCHANGED <<run, live, dialled, arrived, at, broken, slots, loose, past, counters, under>>

(* channelHandler sends SG_Chan and the client dials.                        *)
SendChan ==
    /\ live /\ dialled < MaxDials /\ requests > 0 /\ requests' = requests - 1 /\ dialled' = dialled + 1
    /\ UNCHANGED <<run, live, queued, arrived, at, broken, slots, loose, past, counters, history, lost, flows>>

(* deliverTunnelConn: a session is made of the connection and offered to the *)
(* handle loops.                                                             *)
deliverTunnelConn ==
    /\ live /\ dialled > 0 /\ dialled' = dialled - 1
    /\ \/ arrived < ChannelSize /\ arrived' = arrived + 1 /\ UNCHANGED lost
       \/ arrived = ChannelSize /\ lost < MaxLost /\ lost' = lost + 1 /\ UNCHANGED arrived
    /\ UNCHANGED <<run, live, queued, requests, at, broken, slots, loose, past, counters, history, flows>>

(* The client's dial fails, or a token of its sizer uses the request up.     *)
DialLost ==
    /\ live /\ dialled > 0 /\ lost < MaxLost
    /\ dialled' = dialled - 1 /\ lost' = lost + 1
    /\ UNCHANGED <<run, live, queued, requests, arrived, at, broken, slots, loose, past, counters, history, flows>>

(* handleLoop: the session is counted and gets a goroutine of its own.       *)
handleLoop(s) ==
    /\ live /\ arrived > 0 /\ arrived' = arrived - 1
    /\ at[s] = "none" /\ slots[s] = 0
    /\ at' = [at EXCEPT ![s] = "taking"] /\ broken' = broken \ {s}
    /\ sessionCounter' = sessionCounter + 1
    /\ UNCHANGED <<run, live, queued, requests, dialled, slots, loose, past, streamCounter, history, lost, flows>>

(* The carrier of a session goes away; nobody notices before a stream fails. *)
Breaks(s) ==
    /\ at[s] # "none" /\ s \notin broken /\ broken' = broken \cup {s}
    /\ UNCHANGED <<run, live, channels, at, slots, loose, past, counters, history, lost, flows>>

------------------------------------------------------------------------------
(* muxSession.run                                                           *)

(* A slot is free, and the head of the queue is taken into it.               *)
Takes(s) ==
    /\ at[s] = "taking" /\ slots[s] < MuxCon /\ queued > 0
    /\ queued' = queued - 1 /\ at' = [at EXCEPT ![s] = "holding"]
    /\ UNCHANGED <<run, live, requests, dialled, arrived, broken, slots, loose, past, counters, history, lost, flows>>

(* The connection has waited past its deadline: closed and counted out.      *)
Expires(s) ==
    /\ at[s] = "holding" /\ at' = [at EXCEPT ![s] = "taking"]
    /\ streamCounter' = streamCounter - 1
    /\ UNCHANGED <<run, live, channels, broken, slots, loose, past, sessionCounter, history, lost, flows>>

(* A mutant: a bare send into the queue.                                     *)
requeueLocalBlocking == queued < ChannelSize /\ queued' = queued + 1 /\ UNCHANGED streamCounter

(* requeueLocal: back at the end of the queue, or dropped and counted out.   *)
requeueLocal ==
    \/ queued < ChannelSize /\ queued' = queued + 1 /\ UNCHANGED streamCounter
    \/ queued = ChannelSize /\ UNCHANGED queued /\ streamCounter' = streamCounter - 1

(* failed: OpenStream reports that the session is gone.  The connection goes *)
(* back, a replacement is asked for, and the session ends with its streams.  *)
failed(s) ==
    /\ at[s] = "holding" /\ s \in broken
    /\ sessionCounter' = sessionCounter - 1 /\ requeueLocal /\ Ask
    /\ at' = [at EXCEPT ![s] = "none"]
    /\ loose' = loose + slots[s] /\ slots' = [slots EXCEPT ![s] = 0]
    /\ UNCHANGED <<run, live, dialled, arrived, broken, past, history, flows>>

(* A mutant: the slot of the stream is not given back.                       *)
AnnounceFailsKeepingSlot(s) ==
    /\ at[s] = "holding" /\ s \in broken /\ requeueLocal
    /\ at' = [at EXCEPT ![s] = "taking"] /\ slots' = [slots EXCEPT ![s] = @ + 1]
    /\ UNCHANGED <<run, live, requests, dialled, arrived, broken, loose, past, sessionCounter, history, lost, flows>>

(* The stream opened and the address could not be sent on it.                *)
AnnounceFails(s) ==
    /\ at[s] = "holding" /\ s \in broken /\ requeueLocal
    /\ at' = [at EXCEPT ![s] = "taking"]
    /\ UNCHANGED <<run, live, requests, dialled, arrived, broken, slots, loose, past, sessionCounter, history, lost,
                   flows>>

(* The stream carries the connection; its relay has a goroutine of its own.  *)
Carries(s) ==
    /\ at[s] = "holding" /\ at' = [at EXCEPT ![s] = "taking"]
    /\ slots' = [slots EXCEPT ![s] = @ + 1]
    /\ UNCHANGED <<run, live, channels, broken, loose, past, counters, history, lost, flows>>

(* The transfer ends: counted out, and the slot is free again.               *)
StreamEnds(s) ==
    /\ slots[s] > 0 /\ slots' = [slots EXCEPT ![s] = @ - 1]
    /\ streamCounter' = streamCounter - 1
    /\ UNCHANGED <<run, live, channels, at, broken, loose, past, sessionCounter, history, lost, flows>>

LooseStreamEnds ==
    /\ loose > 0 /\ loose' = loose - 1 /\ streamCounter' = streamCounter - 1
    /\ UNCHANGED <<run, live, channels, at, broken, slots, past, sessionCounter, history, lost, flows>>

------------------------------------------------------------------------------
(* Restart                                                                  *)

RunEnds ==
    /\ live /\ run < MaxRuns /\ live' = FALSE
    /\ UNCHANGED <<run, channels, at, broken, slots, loose, past, counters, history, lost, flows>>

(* The listeners are closed (relays and sessions are not waited for): new    *)
(* channels, counters set to zero, and a client that fills its pool again.   *)
Restart ==
    /\ ~live /\ live' = TRUE /\ run' = run + 1
    /\ queued' = 0 /\ requests' = 0 /\ dialled' = ConnPoolSize /\ arrived' = 0
    /\ leftover' = leftover + Cardinality(Streams) + loose
    /\ heldOver' = heldOver + Cardinality(Holding)
    /\ at' = [s \in Sessions |-> "none"] /\ slots' = [s \in Sessions |-> 0] /\ loose' = 0
    /\ streamCounter' = 0 /\ sessionCounter' = 0 /\ drift' = 0 /\ under' = 0 /\ lost' = 0
    /\ UNCHANGED <<broken, flows>>

(* A relay of an earlier run ends after the counters were set to zero.       *)
LeftoverEnds ==
    /\ leftover > 0 /\ leftover' = leftover - 1
    /\ streamCounter' = streamCounter - 1 /\ drift' = drift + 1
    /\ UNCHANGED <<run, live, channels, at, broken, slots, loose, heldOver, sessionCounter, under, lost, flows>>

(* A session of an earlier run comes to the end of what it was doing: the    *)
(* connection is carried or counted out, or goes back to a queue that nobody *)
(* reads, or the session counts itself out.                                  *)
HeldOverEnds ==
    /\ heldOver > 0 /\ heldOver' = heldOver - 1
    /\ \/ streamCounter' = streamCounter - 1 /\ drift' = drift + 1 /\ UNCHANGED <<leftover, sessionCounter, under>>
       \/ leftover' = leftover + 1 /\ UNCHANGED <<counters, history>>
       \/ sessionCounter' = sessionCounter - 1 /\ under' = under + 1 /\ UNCHANGED <<leftover, streamCounter, drift>>
    /\ UNCHANGED <<run, live, channels, at, broken, slots, loose, lost, flows>>

------------------------------------------------------------------------------
Next ==
    \/ Accept \/ AcceptFlow \/ SendChan \/ deliverTunnelConn \/ DialLost
    \/ \E s \in Sessions : \/ handleLoop(s) \/ Breaks(s) \/ Takes(s) \/ Expires(s) \/ failed(s)
                           \/ AnnounceFails(s) \/ Carries(s) \/ StreamEnds(s)
    \/ LooseStreamEnds \/ RunEnds \/ Restart \/ LeftoverEnds \/ HeldOverEnds

Spec == Init /\ [][Next]_vars

(* Fairness: goroutines that can run do run, dials come to an end, and every *)
(* transfer ends some day.                                                   *)
Fairness ==
    /\ WF_vars(SendChan) /\ WF_vars(deliverTunnelConn)
    /\ WF_vars(\E s \in Sessions : handleLoop(s))
    /\ \A s \in Sessions : /\ WF_vars(Takes(s)) /\ WF_vars(StreamEnds(s))
                          /\ WF_vars(failed(s)) /\ WF_vars(s \notin broken /\ Carries(s))
    /\ WF_vars(Restart)

FairSpec == Spec /\ Fairness

------------------------------------------------------------------------------
(* The two counters that decide whether another session is asked for:        *)
(* streamCounter is the number of connections in the queue, in the hands of  *)
(* a session and on streams, and sessionCounter that of the sessions that    *)
(* take connections, each less what it has missed: no path through a session *)
(* counts a connection twice or forgets one.                                 *)
Counted ==
    live => /\ streamCounter + drift = UnderWay
            /\ sessionCounter + under = Cardinality(Active)

(* As long as the counters have missed nothing, the sessions that are there, *)
(* on their way, asked for or lost have room for one stream more than there  *)
(* are: nobody waits behind full sessions without another being asked for.   *)
RoomForAll ==
    live /\ drift = 0 /\ under = 0 =>
        streamCounter < (sessionCounter + requests + dialled + arrived + lost) * MuxCon

(* A full queue moves on, as long as nothing asked for is lost: no session   *)
(* waits for room in the queue it is the one to empty.                       *)
FullQueueMoves == (queued = ChannelSize) ~> (queued < ChannelSize \/ lost > 0 \/ drift > 0 \/ under > 0)
==============================================================================
