------------------------------- MODULE Direct --------------------------------
(***************************************************************************)
(* The direct tunnel.  The edge keeps sessions open to the origin, takes   *)
(* user connections and datagrams on its ports, and opens a stream for     *)
(* each conversation; the origin dials the backend the stream names,       *)
(* answers, and relays.                                                    *)
(*                                                                         *)
(* A conversation c is one user connection, or one flow of datagrams from  *)
(* one client; it is never used again once over.  <<c, t>> is the stream   *)
(* opened for c to target t.  A session is a fresh number; the ends learn  *)
(* of a broken transport each in their own time.                           *)
(***************************************************************************)
EXTENDS Integers, FiniteSets

CONSTANTS
    MaxConvs,       \* conversations ever started
    Clients,        \* source addresses of datagrams
    Targets,        \* the backends of the mapping
    Forbidden,      \* metadataAddrs
    Limit,          \* MaxConnections
    Slots,          \* cfg.Sessions keepers
    MaxSessions,    \* sessions ever dialled
    MaxCuts         \* transports that break

SessionIds == 1..MaxSessions
Convs == 1..MaxConvs
None == "none"

ASSUME DirectAssumption == /\ MaxConvs \in Nat /\ Limit \in Nat
                           /\ None \notin Targets /\ None \notin Clients

VARIABLES
    keeper,     \* per slot: its session, 0 while it has none
    near,       \* per session, the edge's end: none, hello, up, dead
    far,        \* per session, the origin's end: none, hello, replied, serving, ended
    cut,        \* sessions whose transport is broken
    listed,     \* e.sessions
    stage,      \* per conversation, the edge: idle, counted, held, opening, joined, deleted, over
    client,     \* per conversation: the source of a flow, None for a connection
    on,         \* per conversation: the session picked, 0 before
    at,         \* per conversation: the target asked now, None before and between
    left,       \* per conversation: the targets still to be tried
    stream,     \* per stream, the origin: none, asked, dialing, ok, failed, done
    closed,     \* flows whose stream the reader or the reaper has closed
    active,     \* limiter.active
    flows       \* per client: its conversation in the table

directVars == <<keeper, near, far, cut, listed, stage, client, on, at, left, stream, closed,
                active, flows>>
ends == <<keeper, near, far, cut, listed>>
convs == <<stage, client, on, at, left, stream, closed, active, flows>>

DirectInit == /\ keeper = [i \in Slots |-> 0]
              /\ near = [s \in SessionIds |-> "none"] /\ far = [s \in SessionIds |-> "none"]
              /\ cut = {} /\ listed = {}
              /\ stage = [c \in Convs |-> "idle"] /\ client = [c \in Convs |-> None]
              /\ on = [c \in Convs |-> 0] /\ at = [c \in Convs |-> None]
              /\ left = [c \in Convs |-> Targets]
              /\ stream = [c \in Convs |-> [t \in Targets |-> "none"]] /\ closed = {}
              /\ active = 0 /\ flows = [k \in Clients |-> 0]

(***************************************************************************)
(* Sessions.                                                               *)
(***************************************************************************)

(* dialSession: the edge connects and writes its nonce.                      *)
Dial(i) == \E s \in SessionIds :
    /\ keeper[i] = 0 /\ near[s] = "none" /\ \A r \in SessionIds : r < s => near[r] # "none"
    /\ keeper' = [keeper EXCEPT ![i] = s]
    /\ near' = [near EXCEPT ![s] = "hello"]
    /\ UNCHANGED <<far, cut, listed>> /\ UNCHANGED convs

(* The origin's Run accepts the connection; its handshake has a goroutine of *)
(* its own, so that one which says nothing delays nobody.                    *)
acceptSession(s) ==
    /\ near[s] = "hello" /\ far[s] = "none" /\ s \notin cut
    /\ far' = [far EXCEPT ![s] = "hello"]
    /\ UNCHANGED <<keeper, near, cut, listed>> /\ UNCHANGED convs

(* originHandshake, first half: the nonce is read, nonce and proof answered. *)
originReplies(s) == /\ far[s] = "hello" /\ s \notin cut
                    /\ far' = [far EXCEPT ![s] = "replied"]
                    /\ UNCHANGED <<keeper, near, cut, listed>> /\ UNCHANGED convs

(* edgeHandshake: the origin's proof is read, and holds; only then is the    *)
(* edge's own proof sent.                                                    *)
edgeHandshake(s) == near[s] = "hello" /\ far[s] = "replied" /\ s \notin cut

(* addSession: the session is listed before the origin has read the proof.   *)
addSession(i) == LET s == keeper[i] IN
    /\ s # 0 /\ edgeHandshake(s)
    /\ near' = [near EXCEPT ![s] = "up"] /\ listed' = listed \cup {s}
    /\ UNCHANGED <<keeper, far, cut>> /\ UNCHANGED convs

(* originHandshake's end: the edge's proof is read, and streams are served.  *)
originServes(s) == /\ far[s] = "replied" /\ near[s] = "up" /\ s \notin cut
                   /\ far' = [far EXCEPT ![s] = "serving"]
                   /\ UNCHANGED <<keeper, near, cut, listed>> /\ UNCHANGED convs

(* The handshake fails or times out at the edge: the connection is closed,   *)
(* and keepSession sleeps and dials again.                                   *)
dialFails(i) == LET s == keeper[i] IN
    /\ s # 0 /\ near[s] = "hello" /\ Cardinality(cut) < MaxCuts
    /\ near' = [near EXCEPT ![s] = "dead"] /\ cut' = cut \cup {s}
    /\ keeper' = [keeper EXCEPT ![i] = 0]
    /\ UNCHANGED <<far, listed>> /\ UNCHANGED convs

(* The transport breaks under an established session.                        *)
Cut(s) == /\ near[s] = "up" /\ s \notin cut /\ Cardinality(cut) < MaxCuts
          /\ cut' = cut \cup {s}
          /\ UNCHANGED <<keeper, near, far, listed>> /\ UNCHANGED convs

(* watchedConn: a read or a write fails, and the edge knows.                 *)
markDead(s) == /\ near[s] = "up" /\ s \in cut
               /\ near' = [near EXCEPT ![s] = "dead"]
               /\ UNCHANGED <<keeper, far, cut, listed>> /\ UNCHANGED convs

(* keepSession wakes on Dead: the session leaves the list, and is closed.    *)
removeSession(i) == LET s == keeper[i] IN
    /\ s # 0 /\ near[s] = "dead"
    /\ listed' = listed \ {s} /\ keeper' = [keeper EXCEPT ![i] = 0]
    /\ UNCHANGED <<near, far, cut>> /\ UNCHANGED convs

(* admit: the handshake fails, or AcceptStream does.                         *)
originLoses(s) == /\ far[s] \in {"hello", "replied", "serving"} /\ s \in cut
                  /\ far' = [far EXCEPT ![s] = "ended"]
                  /\ UNCHANGED <<keeper, near, cut, listed>> /\ UNCHANGED convs

(* Usable, for pickSession: listed, and not known to be dead.                *)
Usable == {s \in listed : near[s] = "up"}

(* The next conversation; they are numbered as they come.                    *)
Fresh(c) == stage[c] = "idle" /\ \A d \in Convs : d < c => stage[d] # "idle"

(***************************************************************************)
(* The limiter.                                                            *)
(***************************************************************************)
(* Acquire's Add(1): the slot is held when the count stays within the cap.   *)
(* Otherwise the count is taken back in a step of its own.                   *)
Acquire(c) ==
    /\ active' = active + 1
    /\ stage' = [stage EXCEPT ![c] = IF active + 1 > Limit THEN "counted" ELSE "held"]

(* Acquire's Add(-1), and the refusal.                                       *)
giveBack(c) == /\ stage[c] = "counted"
               /\ active' = active - 1 /\ stage' = [stage EXCEPT ![c] = "over"]
               /\ UNCHANGED ends /\ UNCHANGED <<client, on, at, left, stream, closed, flows>>

(***************************************************************************)
(* The edge's conversations.                                               *)
(***************************************************************************)

(* serve and handle: a user connects.                                        *)
handle(c) == /\ Fresh(c) /\ Acquire(c)
             /\ UNCHANGED ends /\ UNCHANGED <<client, on, at, left, stream, closed, flows>>

(* The reader of a port serves one datagram at a time, the opening of a flow *)
(* included.                                                                 *)
Reading == \E c \in Convs : client[c] # None /\ stage[c] \in {"counted", "held", "opening"}

(* udpFlowFor: a datagram from a client without a flow.  LoadOrStore always  *)
(* stores: the one reader is the only caller.                                *)
udpFlowFor(c, k) == /\ ~Reading /\ Fresh(c) /\ flows[k] = 0 /\ Acquire(c)
                    /\ client' = [client EXCEPT ![c] = k]
                    /\ UNCHANGED ends /\ UNCHANGED <<on, at, left, stream, closed, flows>>

(* pickSession, at the start of openFor; with none usable, the refusal.      *)
pickSession(c) ==
    /\ stage[c] = "held"
    /\ \/ \E s \in Usable : /\ on' = [on EXCEPT ![c] = s]
                            /\ stage' = [stage EXCEPT ![c] = "opening"]
                            /\ UNCHANGED active
       \/ Usable = {} /\ stage' = [stage EXCEPT ![c] = "over"] /\ active' = active - 1 /\ UNCHANGED on
    /\ UNCHANGED ends /\ UNCHANGED <<client, at, left, stream, closed, flows>>

(* openStream: the stream is opened and the request written.  On a dead      *)
(* session either fails, and the next target is tried.                       *)
openStream(c) == \E t \in left[c] :
    /\ stage[c] = "opening" /\ at[c] = None
    /\ left' = [left EXCEPT ![c] = @ \ {t}]
    /\ \/ /\ near[on[c]] = "up"
          /\ at' = [at EXCEPT ![c] = t] /\ stream' = [stream EXCEPT ![c][t] = "asked"]
       \/ near[on[c]] = "dead" /\ UNCHANGED <<at, stream>>
    /\ UNCHANGED ends /\ UNCHANGED <<stage, client, on, closed, active, flows>>

(* The deadline passes, the session is lost or the origin says streamFailed: *)
(* the stream is closed and openFor goes to the next target.                 *)
nextTarget(c) ==
    /\ stage[c] = "opening" /\ at[c] # None
    /\ near[on[c]] = "dead" \/ stream[c][at[c]] \in {"asked", "dialing", "failed"}
    /\ at' = [at EXCEPT ![c] = None]
    /\ UNCHANGED ends /\ UNCHANGED <<stage, client, on, left, stream, closed, active, flows>>

(* openFor has tried them all: the slot is given back.                       *)
refuse(c) == /\ stage[c] = "opening" /\ at[c] = None /\ left[c] = {}
             /\ stage' = [stage EXCEPT ![c] = "over"] /\ active' = active - 1
             /\ UNCHANGED ends /\ UNCHANGED <<client, on, at, left, stream, closed, flows>>

(* A mutant: the edge does not wait for the origin's answer.                 *)
answeredAtOnce(c) == near[on[c]] = "up"

(* The origin's streamOK, readable also after the origin has ended its side. *)
answered(c) == near[on[c]] = "up" /\ stream[c][at[c]] \in {"ok", "done"}

(* handle's pipe starts; a flow is put in the table and its pump started.    *)
join(c) == /\ stage[c] = "opening" /\ at[c] # None /\ answered(c)
           /\ stage' = [stage EXCEPT ![c] = "joined"]
           /\ flows' = [k \in Clients |-> IF k = client[c] THEN c ELSE flows[k]]
           /\ UNCHANGED ends /\ UNCHANGED <<client, on, at, left, stream, closed, active>>

(* The edge is done with the conversation, and has closed its stream.        *)
Over(c) == /\ stage' = [stage EXCEPT ![c] = "over"]
           /\ client' = [client EXCEPT ![c] = None] /\ at' = [at EXCEPT ![c] = None]
           /\ closed' = closed \ {c}

(* What ends the edge's reading of the stream.                               *)
StreamOver(c) == \/ near[on[c]] = "dead" \/ stream[c][at[c]] \in {"failed", "done"}
                 \/ c \in closed

(* handle's pipe ends, by either side: both are closed, and the slot is      *)
(* given back.                                                               *)
pipeEnds(c) == /\ stage[c] = "joined" /\ client[c] = None
               /\ Over(c) /\ active' = active - 1
               /\ UNCHANGED ends /\ UNCHANGED <<on, left, stream, flows>>

(* serveUDP: a datagram for a flow.  Writing it to a stream that is broken   *)
(* closes the stream; the pump does the rest.                                *)
forward(k) == LET c == flows[k] IN
    /\ ~Reading /\ c # 0
    /\ closed' = IF StreamOver(c) THEN closed \cup {c} ELSE closed
    /\ UNCHANGED ends /\ UNCHANGED <<stage, client, on, at, left, stream, active, flows>>

(* A mutant: the reaper takes the flow out of the table itself.              *)
reapAndRemove(k) == /\ flows[k] # 0
                    /\ closed' = closed \cup {flows[k]}
                    /\ flows' = [flows EXCEPT ![k] = 0]
                    /\ UNCHANGED ends
                    /\ UNCHANGED <<stage, client, on, at, left, stream, active>>

(* reapUDPFlows: a flow found idle has its stream closed.  The pump may be   *)
(* passing a reply on at that moment; it ends at its next read.              *)
reapUDPFlows(k) == /\ flows[k] # 0
                   /\ closed' = closed \cup {flows[k]}
                   /\ UNCHANGED ends
                   /\ UNCHANGED <<stage, client, on, at, left, stream, active, flows>>

(* pumpUDPReplies: the stream's end, or a reply that cannot be written to    *)
(* the client; the deferred calls start with the table.                      *)
pumpEnds(c) == /\ stage[c] = "joined" /\ client[c] # None
               /\ stage' = [stage EXCEPT ![c] = "deleted"]
               /\ flows' = [flows EXCEPT ![client[c]] = 0]
               /\ UNCHANGED ends
               /\ UNCHANGED <<client, on, at, left, stream, closed, active>>

(* The rest of them: the stream is closed, the slot given back.              *)
pumpReleases(c) == /\ stage[c] = "deleted"
                   /\ Over(c) /\ active' = active - 1
                   /\ UNCHANGED ends /\ UNCHANGED <<on, left, stream, flows>>

(***************************************************************************)
(* The origin's streams.                                                   *)
(***************************************************************************)
Becomes(c, t, from, to) ==
    /\ stream[c][t] \in from /\ stream' = [stream EXCEPT ![c][t] = to]
    /\ UNCHANGED ends /\ UNCHANGED <<stage, client, on, at, left, closed, active, flows>>

(* serveStream reads the request.                                            *)
serveStream(c, t) == Becomes(c, t, {"asked"}, "dialing") /\ far[on[c]] = "serving"

(* The session goes, or the request's deadline passes, before it is read.    *)
requestLost(c, t) == (on[c] \in cut \/ at[c] # t \/ c \in closed) /\ Becomes(c, t, {"asked"}, "failed")

(* vetTarget, on an address.                                                 *)
vetTarget(t) == t \notin Forbidden

(* dialBackend succeeds, and streamOK is written: to a stream the edge may   *)
(* have given up meanwhile.                                                  *)
reachBackend(c, t) == vetTarget(t) /\ on[c] \notin cut /\ Becomes(c, t, {"dialing"}, "ok")

(* The dial fails or is refused, or the answer cannot be written.            *)
missBackend(c, t) == Becomes(c, t, {"dialing"}, "failed")

(* pipe and relayDatagrams end: the backend closed, the edge closed, or the  *)
(* session went.                                                             *)
relayEnds(c, t) == Becomes(c, t, {"ok"}, "done")

DirectNext == \/ \E i \in Slots : Dial(i) \/ addSession(i) \/ dialFails(i) \/ removeSession(i)
              \/ \E s \in SessionIds : \/ acceptSession(s) \/ originReplies(s) \/ originServes(s) \/ Cut(s)
                                     \/ markDead(s) \/ originLoses(s)
              \/ \E c \in Convs : \/ giveBack(c) \/ handle(c) \/ pickSession(c) \/ openStream(c)
                                  \/ nextTarget(c) \/ refuse(c) \/ join(c) \/ pipeEnds(c)
                                  \/ pumpEnds(c) \/ pumpReleases(c)
                                  \/ \E k \in Clients : udpFlowFor(c, k)
                                  \/ \E t \in Targets : \/ serveStream(c, t) \/ requestLost(c, t)
                                                        \/ reachBackend(c, t) \/ missBackend(c, t)
                                                        \/ relayEnds(c, t)
              \/ \E k \in Clients : forward(k) \/ reapUDPFlows(k)

DirectSpec == DirectInit /\ [][DirectNext]_directVars

(***************************************************************************)
(* Properties.                                                             *)
(***************************************************************************)
Stages == {"idle", "counted", "held", "opening", "joined", "deleted", "over"}
StreamStates == {"none", "asked", "dialing", "ok", "failed", "done"}

DirectTypeOK == /\ keeper \in [Slots -> SessionIds \cup {0}] /\ listed \subseteq SessionIds
                /\ near \in [SessionIds -> {"none", "hello", "up", "dead"}]
                /\ far \in [SessionIds -> {"none", "hello", "replied", "serving", "ended"}]
                /\ cut \subseteq SessionIds
                /\ stage \in [Convs -> Stages] /\ client \in [Convs -> Clients \cup {None}]
                /\ on \in [Convs -> SessionIds \cup {0}] /\ at \in [Convs -> Targets \cup {None}]
                /\ left \in [Convs -> SUBSET Targets]
                /\ stream \in [Convs -> [Targets -> StreamStates]] /\ closed \subseteq Convs
                /\ active \in 0..Cardinality(Convs) /\ flows \in [Clients -> Convs \cup {0}]

PhaseOf(s) == CASE s \in {"idle", "counted"} -> "idle" [] s \in {"held", "opening"} -> "held"
                [] s \in {"joined", "deleted"} -> "joined" [] s = "over" -> "over"
LinkOf(s) == CASE s = "none" -> "none" [] s \in {"asked", "dialing"} -> "asked"
               [] s = "ok" -> "reached" [] s = "done" -> "ended" [] s = "failed" -> "refused"

phaseOf == [c \in Convs |-> PhaseOf(stage[c])]
linkOf == [c \in Convs |-> [t \in Targets |-> LinkOf(stream[c][t])]]
joinedTo == [c \in Convs |-> IF stage[c] \in {"joined", "deleted"} THEN {at[c]} ELSE {}]

F == INSTANCE Forwarding WITH phase <- phaseOf, link <- linkOf, joined <- joinedTo

(* The direct tunnel forwards as Forwarding promises, with sessions that     *)
(* drop at any moment, answers that come after the edge stopped waiting, and *)
(* a limiter that counts first and looks afterwards.                         *)
Forwards == F!FInit /\ [][UNCHANGED directVars \/ F!FNext]_F!fvars

(* A flow whose pump runs is the one in the table for its client, and every  *)
(* flow in the table has a running pump: otherwise replies would come from a *)
(* stream nobody sends on, or datagrams go to one that nobody closes.        *)
FlowsReachable ==
    /\ \A c \in Convs : stage[c] = "joined" /\ client[c] # None => flows[client[c]] = c
    /\ \A k \in Clients : flows[k] # 0 => stage[flows[k]] = "joined"
=============================================================================
