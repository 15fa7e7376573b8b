------------------------------- MODULE RevLink -------------------------------
(***************************************************************************)
(* The control channels of the reverse tunnel's other transports: ws,      *)
(* wsmux, kcp, quic, udp and tcpmux, both ends.  They share one scheme (a  *)
(* claim is admitted, its connection set as the control channel and given  *)
(* a handler and a reader; any failure restarts an end) and differ in the  *)
(* order of the steps, in what a refused client is told and in what closing*)
(* tells the other end.  Each transport is a short definition over the     *)
(* shared ones.                                                            *)
(*                                                                         *)
(* Goroutines belong to the "new" run or to an "old" one: nothing waits    *)
(* for them, so those of an ended run still act on controlChannel.         *)
(***************************************************************************)
EXTENDS Integers, FiniteSets

CONSTANTS
    Kinds,      \* the transports to look at
    Conns,      \* connections that overlap
    MaxCalls,   \* `go s.Restart()` of one run that have not got to TryLock
    MaxFaults,  \* times the path or the client fails unprompted
    None

Ages == {"new", "old"}

VARIABLES
    kind,       \* the transport
    live,       \* the newest run's context
    stage,      \* the Restart that holds restartMutex: "idle", "stopped", "closed"
    calls,      \* per age: calls of Restart under way
    ctl,        \* controlChannel
    wants,      \* per age: "yes" until the run has a channel, "shut" once it takes none
    hnd,        \* per age: channelHandlers
    rd,         \* per age: the connections their readers are blocked on
    claim,      \* per connection: how far the server has got with it
    old,        \* connections accepted by a run that has ended
    sopen,      \* connections the server's end has open
    copen,      \* connections the client's end has open
    cut,        \* connections whose path has died silently
    mail,       \* per connection: what is on its way to the client
    bye,        \* connections with the client's SG_Closed on its way
    cst, cc,    \* the client: what it does, on which connection
    faults
vars == <<kind, live, stage, calls, ctl, wants, hnd, rd, claim, old, sopen, copen,
          cut, mail, bye, cst, cc, faults>>
run  == <<live, stage, wants>>
net  == <<sopen, copen, cut, mail, bye>>
peer == <<cst, cc, faults>>

Init ==
    /\ kind \in Kinds /\ live = TRUE /\ stage = "idle"
    /\ calls = [a \in Ages |-> 0] /\ ctl = None
    /\ wants = [a \in Ages |-> IF a = "new" THEN "yes" ELSE "shut"]
    /\ hnd = [a \in Ages |-> 0] /\ rd = [a \in Ages |-> {}]
    /\ claim = [c \in Conns |-> "none"] /\ old = {}
    /\ sopen = {} /\ copen = {} /\ cut = {} /\ bye = {}
    /\ mail = [c \in Conns |-> {}]
    /\ cst = "dialing" /\ cc = None /\ faults = 0

Done(a) == a = "old" \/ ~live
age(c)  == IF c \in old THEN "old" ELSE "new"

------------------------------------------------------------------------------
(* What the transports share                                                *)

(* go s.Restart() by a goroutine of the run.                                 *)
Call(a) == calls' = [calls EXCEPT ![a] = IF @ < MaxCalls THEN @ + 1 ELSE @]

(* Closing a KCP session tells the other end nothing; the others send a FIN, *)
(* and keepalives end a connection whose path is dead.                       *)
silent == kind = "kcp"
gone(c) == ~silent /\ (c \notin copen \/ c \in cut)
told(c) == ~silent /\ (c \notin sopen \/ c \in cut)

send(c, x) == mail' = IF c \in sopen \cap copen THEN [mail EXCEPT ![c] = @ \cup {x}] ELSE mail
at(c, s, t) == claim[c] = s /\ claim' = [claim EXCEPT ![c] = t]

(* Nothing more happens to the claim: it has ended, or waits in a channel    *)
(* nobody receives from any more.                                            *)
settled(c) == claim[c] = "none" \/ (claim[c] = "offered" /\ wants[age(c)] # "yes")

(* The answer to a claim.                                                    *)
Answer(c, s, t) ==
    /\ at(c, s, t) /\ send(c, "answer")
    /\ UNCHANGED <<kind, run, calls, ctl, hnd, rd, old, sopen, copen, cut, bye, peer>>

(* Is there a channel already?                                               *)
Free(c, s, t) ==
    /\ ctl = None /\ at(c, s, t)
    /\ UNCHANGED <<kind, run, calls, ctl, hnd, rd, old, net, peer>>

(* There is: the claim ends with these connections closed and with a restart.*)
Refuse(c, s, closes) ==
    /\ ctl # None /\ at(c, s, "none")
    /\ sopen' = sopen \ closes /\ Call(age(c))
    /\ UNCHANGED <<kind, run, ctl, hnd, rd, old, copen, cut, mail, bye, peer>>

(* An unbuffered offer to start: taken if it waits, otherwise discarded.     *)
Offer(c, s) ==
    /\ IF wants[age(c)] = "yes"
       THEN at(c, s, "held") /\ wants' = [wants EXCEPT ![age(c)] = "no"] /\ UNCHANGED sopen
       ELSE at(c, s, "none") /\ sopen' = sopen \ {c} /\ UNCHANGED wants
    /\ UNCHANGED <<kind, live, stage, calls, ctl, hnd, rd, old, copen, cut, mail, bye, peer>>

(* The connection becomes the control channel of the transport, whatever run *)
(* its claim belongs to.                                                     *)
Set(c, s, t) ==
    /\ at(c, s, t) /\ ctl' = c
    /\ UNCHANGED <<kind, run, calls, hnd, rd, old, net, peer>>

(* go s.channelHandler(g), with the reader on the channel of the moment.     *)
Handle(c, s) ==
    /\ at(c, s, "none")
    /\ IF ctl = None THEN UNCHANGED <<hnd, rd>>
       ELSE /\ hnd' = [hnd EXCEPT ![age(c)] = @ + 1]
            /\ rd' = IF Done(age(c)) THEN rd ELSE [rd EXCEPT ![age(c)] = @ \cup {ctl}]
    /\ UNCHANGED <<kind, run, calls, ctl, old, net, peer>>

(* A reader hears the client's goodbye, which its handler answers with a     *)
(* restart even if the run has ended, or finds its connection closed.        *)
Reader(a) ==
    /\ \E c \in rd[a] :
       /\ rd' = [rd EXCEPT ![a] = @ \ {c}]
       /\ \/ /\ c \in bye /\ c \in sopen \ cut /\ bye' = bye \ {c}
             /\ IF hnd[a] = 0 THEN UNCHANGED <<hnd, calls>>
                ELSE hnd' = [hnd EXCEPT ![a] = @ - 1] /\ Call(a)
          \/ /\ c \notin sopen \/ (gone(c) /\ (c \notin bye \/ c \in cut))
             /\ IF Done(a) THEN UNCHANGED calls ELSE Call(a)
             /\ UNCHANGED <<hnd, bye>>
    /\ UNCHANGED <<kind, run, ctl, claim, old, sopen, copen, cut, mail, peer>>

(* A request or a heartbeat cannot be written: the server's end is closed, or*)
(* what was written before has not got through for controlWriteTimeout.      *)
WriteFails(a) ==
    /\ hnd[a] > 0 /\ (ctl = None \/ ctl \notin sopen)
    /\ hnd' = [hnd EXCEPT ![a] = @ - 1] /\ Call(a)
    /\ UNCHANGED <<kind, run, ctl, rd, claim, old, net, peer>>

WriteTimesOut(a) ==
    /\ hnd[a] > 0 /\ ctl \in sopen /\ (ctl \notin copen \/ ctl \in cut)
    /\ hnd' = [hnd EXCEPT ![a] = @ - 1] /\ Call(a)
    /\ UNCHANGED <<kind, run, ctl, rd, claim, old, net, peer>>

(* The run is over: SG_Closed goes to the channel of the moment, which may   *)
(* be the next run's.                                                        *)
Farewell(a, closes) ==
    /\ hnd[a] > 0 /\ Done(a)
    /\ hnd' = [hnd EXCEPT ![a] = @ - 1]
    /\ IF ctl = None THEN UNCHANGED <<mail, sopen>>
       ELSE send(ctl, "bye") /\ sopen' = IF closes THEN sopen \ {ctl} ELSE sopen
    /\ UNCHANGED <<kind, run, calls, ctl, rd, claim, old, copen, cut, bye, peer>>

(* Restart: the run is stopped, then its channel closed.                     *)
Stops(a) ==
    /\ calls[a] > 0 /\ calls' = [calls EXCEPT ![a] = @ - 1]
    /\ IF stage = "idle" THEN stage' = "stopped" /\ live' = FALSE ELSE UNCHANGED <<stage, live>>
    /\ UNCHANGED <<kind, wants, ctl, hnd, rd, claim, old, net, peer>>

Closes ==
    /\ stage = "stopped" /\ stage' = "closed"
    /\ sopen' = sopen \ {ctl}
    /\ UNCHANGED <<kind, live, wants, calls, ctl, hnd, rd, claim, old, copen, cut, mail, bye, peer>>

(* The next run.  The runs before the last have let go: the bound on how     *)
(* many overlap.  A carrier that all connections share goes with the run.    *)
Begins(carrier) ==
    /\ stage = "closed" /\ hnd["old"] = 0 /\ calls["old"] = 0
    /\ \A c \in old : settled(c)
    /\ stage' = "idle" /\ live' = TRUE /\ ctl' = None
    /\ calls' = [new |-> 0, old |-> calls["new"]]
    /\ hnd' = [new |-> 0, old |-> hnd["new"]] /\ rd' = [new |-> {}, old |-> rd["new"]]
    /\ wants' = [new |-> "yes", old |-> wants["new"]]
    /\ old' = {c \in Conns : ~settled(c)}
    /\ claim' = [c \in Conns |-> IF settled(c) THEN "none" ELSE claim[c]]
    /\ sopen' = IF carrier THEN {} ELSE sopen
    /\ UNCHANGED <<kind, copen, cut, mail, bye, peer>>

(* The claim never comes, or its sender has gone before it is answered.      *)
ClaimTimesOut(c) ==
    /\ c \in cut \/ c \notin copen
    /\ at(c, "claimed", "none") /\ sopen' = sopen \ {c}
    /\ UNCHANGED <<kind, run, calls, ctl, hnd, rd, old, copen, cut, mail, bye, peer>>

(* start of an ended run no longer waits for a candidate.                    *)
Unwanted(a) ==
    /\ Done(a) /\ wants[a] = "yes" /\ kind \notin {"ws", "wsmux"}
    /\ wants' = [wants EXCEPT ![a] = "shut"]
    /\ UNCHANGED <<kind, live, stage, calls, ctl, hnd, rd, claim, old, net, peer>>

------------------------------------------------------------------------------
(* The claims                                                               *)

(* ws: the upgrade is the answer; then the channel is looked at and, a step  *)
(* later, set.  A claim that finds one closes it and itself.                 *)
wsClaim(c) ==
    \/ Answer(c, "claimed", "answered") \/ Free(c, "answered", "held")
    \/ Refuse(c, "answered", {c, ctl})
    \/ Set(c, "held", "set") \/ Handle(c, "set")

wsmuxClaim(c) == wsClaim(c)

(* A mutant: the client is told, and nothing is done for it.                 *)
kcpRefusesOnly(c) ==
    /\ at(c, "refused", "none") /\ sopen' = sopen \ {c}
    /\ UNCHANGED <<kind, run, calls, ctl, hnd, rd, old, copen, cut, mail, bye, peer>>

(* kcp: a claim that finds a channel is told that the server restarts for it.*)
kcpRefuses(c) ==
    /\ at(c, "refused", "none") /\ sopen' = sopen \ {c} /\ Call(age(c))
    /\ UNCHANGED <<kind, run, ctl, hnd, rd, old, copen, cut, mail, bye, peer>>

(* The channel is looked at before anything is answered.                     *)
kcpClaim(c) ==
    \/ Free(c, "claimed", "checked") \/ Answer(c, "checked", "answered")
    \/ ctl # None /\ at(c, "claimed", "refused") /\ send(c, "refused")
       /\ UNCHANGED <<kind, run, calls, ctl, hnd, rd, old, sopen, copen, cut, bye, peer>>
    \/ kcpRefuses(c)
    \/ Offer(c, "answered")

kcpStart(c) == Set(c, "held", "set") \/ Handle(c, "set")

(* quic: answered first, then looked at, then offered.                       *)
quicClaim(c) ==
    \/ Answer(c, "claimed", "answered") \/ Free(c, "answered", "checked")
    \/ Refuse(c, "answered", {c}) \/ Offer(c, "checked")

quicStart(c) == Set(c, "held", "set") \/ Handle(c, "set")

(* tcpmux: as quic, but the offer waits in a channel of one place.           *)
tcpmuxClaim(c) ==
    \/ Answer(c, "claimed", "answered") \/ Free(c, "answered", "checked")
    \/ Refuse(c, "answered", {c})
    \/ /\ IF \E d \in Conns : claim[d] = "offered" /\ age(d) = age(c)
          THEN at(c, "checked", "none") /\ sopen' = sopen \ {c}
          ELSE at(c, "checked", "offered") /\ UNCHANGED sopen
       /\ UNCHANGED <<kind, run, calls, ctl, hnd, rd, old, copen, cut, mail, bye, peer>>

tcpmuxStart(c) ==
    \/ /\ wants[age(c)] = "yes" /\ at(c, "offered", "held")
       /\ wants' = [wants EXCEPT ![age(c)] = "no"]
       /\ UNCHANGED <<kind, live, stage, calls, ctl, hnd, rd, old, net, peer>>
    \/ Set(c, "held", "set") \/ Handle(c, "set")

(* udp: one claim at a time.  The loop that has established a channel takes  *)
(* one more, closes it, restarts and listens no longer.                      *)
udpClaim(c) ==
    \/ /\ \A d \in Conns : age(d) = age(c) => claim[d] \in {"none", "claimed"}
       /\ wants[age(c)] # "shut" /\ Answer(c, "claimed", "answered")
    \/ /\ wants[age(c)] = "yes" /\ at(c, "answered", "held")
       /\ wants' = [wants EXCEPT ![age(c)] = "no"]
       /\ UNCHANGED <<kind, live, stage, calls, ctl, hnd, rd, old, net, peer>>
    \/ /\ wants[age(c)] = "no" /\ at(c, "answered", "none")
       /\ wants' = [wants EXCEPT ![age(c)] = "shut"]
       /\ sopen' = sopen \ {c} /\ Call(age(c))
       /\ UNCHANGED <<kind, live, stage, ctl, hnd, rd, old, copen, cut, mail, bye, peer>>
    \/ /\ wants[age(c)] = "shut" /\ at(c, "claimed", "none") /\ sopen' = sopen \ {c}
       /\ UNCHANGED <<kind, run, calls, ctl, hnd, rd, old, copen, cut, mail, bye, peer>>
    \/ Set(c, "held", "set") \/ Handle(c, "set")

------------------------------------------------------------------------------
(* Handlers and restarts of the server                                      *)

wsHandler(a)     == Reader(a) \/ WriteFails(a) \/ Farewell(a, FALSE)
wsmuxHandler(a)  == Reader(a) \/ WriteFails(a) \/ Farewell(a, FALSE)
(* kcp: the session is closed after the goodbye, whosever it is.             *)
kcpHandler(a)    == Reader(a) \/ WriteFails(a) \/ Farewell(a, TRUE)
quicHandler(a)   == Reader(a) \/ WriteFails(a) \/ Farewell(a, FALSE)
tcpmuxHandler(a) == Reader(a) \/ WriteFails(a) \/ Farewell(a, FALSE)
udpHandler(a)    == Reader(a) \/ WriteFails(a) \/ Farewell(a, FALSE)

wsRestart     == (\E a \in Ages : Stops(a)) \/ Closes \/ Begins(FALSE)
wsmuxRestart  == (\E a \in Ages : Stops(a)) \/ Closes \/ Begins(FALSE)
(* kcp, quic: the listener closes its carrier, or the connections themselves.*)
kcpRestart    == (\E a \in Ages : Stops(a)) \/ Closes \/ Begins(TRUE)
quicRestart   == (\E a \in Ages : Stops(a)) \/ Closes \/ Begins(TRUE)
tcpmuxRestart == (\E a \in Ages : Stops(a)) \/ Closes \/ Begins(FALSE)
udpRestart    == (\E a \in Ages : Stops(a)) \/ Closes \/ Begins(FALSE)

------------------------------------------------------------------------------
(* The client                                                               *)

(* Connections nothing refers to any more; which one is used does not matter.*)
unused == {c \in Conns : claim[c] = "none" /\ ctl # c /\ \A a \in Ages : c \notin rd[a]}

(* A connection is dialled and claimed.                                      *)
Dial(c) ==
    /\ cst = "dialing" /\ live /\ wants["new"] # "shut"
    /\ unused # {} /\ c = CHOOSE d \in unused : TRUE
    /\ cst' = "claiming" /\ cc' = c
    /\ claim' = [claim EXCEPT ![c] = "claimed"] /\ old' = old \ {c}
    /\ sopen' = (sopen \ unused) \cup {c} /\ copen' = copen \cup {c}
    /\ cut' = cut \ unused /\ bye' = bye \ unused
    /\ UNCHANGED <<kind, run, calls, ctl, hnd, rd, mail, faults>>

(* The client lets go of its connection and dials again after a pause.       *)
Leave == /\ cst' = "dialing" /\ cc' = None /\ copen' = copen \ {cc}
         /\ mail' = [mail EXCEPT ![cc] = {}]
         /\ UNCHANGED <<kind, run, calls, ctl, hnd, rd, claim, old, sopen, cut>>

arrived(x) == cc \notin cut /\ x \in mail[cc]

Answered ==
    /\ cst = "claiming" /\ arrived("answer") /\ cst' = "up"
    /\ mail' = [mail EXCEPT ![cc] = @ \ {"answer"}]
    /\ UNCHANGED <<kind, run, calls, ctl, hnd, rd, claim, old, sopen, copen, cut, bye, cc, faults>>

(* No answer will come: the connection has ended or the wait has.            *)
Unanswered ==
    /\ cst = "claiming" /\ ~arrived("answer")
    /\ cc \in cut \/ cc \notin sopen \/ settled(cc)
    /\ Leave /\ UNCHANGED <<bye, faults>>

Dialer == Answered \/ Unanswered \/ \E c \in Conns : Dial(c)

served == live /\ ctl = cc /\ cc \in sopen /\ cc \notin cut /\ hnd["new"] > 0

(* The server said goodbye, the connection has ended, or no heartbeat has    *)
(* come for too long.  The client's own goodbye may get out before the close.*)
Listens ==
    /\ cst = "up"
    /\ arrived("bye") \/ told(cc) \/ (~served /\ settled(cc))
    /\ Leave /\ UNCHANGED faults
    /\ bye' \in {bye, bye \cup {cc}}

wsDialer     == Dialer
wsmuxDialer  == Dialer
(* kcp: a server that restarts for this client has said so; it claims again. *)
kcpDialer    == Dialer \/ /\ cst = "claiming" /\ arrived("refused") /\ Leave /\ UNCHANGED <<bye, faults>>
quicDialer   == Dialer
tcpmuxDialer == Dialer
udpDialer    == Dialer

wsListens     == Listens
wsmuxListens  == Listens
kcpListens    == Listens
quicListens   == Listens
tcpmuxListens == Listens
udpListens    == Listens

(* The path dies without a word, or the client fails or gives up too early.  *)
Cut(c) ==
    /\ faults < MaxFaults /\ c \in copen \ cut
    /\ cut' = cut \cup {c} /\ faults' = faults + 1
    /\ UNCHANGED <<kind, run, calls, ctl, hnd, rd, claim, old, sopen, copen, mail, bye, cst, cc>>

ClientFails ==
    /\ faults < MaxFaults /\ cc # None /\ faults' = faults + 1
    /\ Leave /\ bye' \in {bye, bye \cup {cc}}

------------------------------------------------------------------------------
Claims(c) ==
    \/ kind = "ws" /\ wsClaim(c)
    \/ kind = "wsmux" /\ wsmuxClaim(c)
    \/ kind = "kcp" /\ (kcpClaim(c) \/ kcpStart(c))
    \/ kind = "quic" /\ (quicClaim(c) \/ quicStart(c))
    \/ kind = "tcpmux" /\ (tcpmuxClaim(c) \/ tcpmuxStart(c))
    \/ kind = "udp" /\ udpClaim(c)

Handlers(a) ==
    \/ kind = "ws" /\ wsHandler(a)
    \/ kind = "wsmux" /\ wsmuxHandler(a)
    \/ kind = "kcp" /\ kcpHandler(a)
    \/ kind = "quic" /\ quicHandler(a)
    \/ kind = "tcpmux" /\ tcpmuxHandler(a)
    \/ kind = "udp" /\ udpHandler(a)

Restarts ==
    \/ kind = "ws" /\ wsRestart
    \/ kind = "wsmux" /\ wsmuxRestart
    \/ kind = "kcp" /\ kcpRestart
    \/ kind = "quic" /\ quicRestart
    \/ kind = "tcpmux" /\ tcpmuxRestart
    \/ kind = "udp" /\ udpRestart

Client ==
    \/ kind = "ws" /\ (wsDialer \/ wsListens)
    \/ kind = "wsmux" /\ (wsmuxDialer \/ wsmuxListens)
    \/ kind = "kcp" /\ (kcpDialer \/ kcpListens)
    \/ kind = "quic" /\ (quicDialer \/ quicListens)
    \/ kind = "tcpmux" /\ (tcpmuxDialer \/ tcpmuxListens)
    \/ kind = "udp" /\ (udpDialer \/ udpListens)

Next ==
    \/ \E c \in Conns : Claims(c) \/ ClaimTimesOut(c) \/ Cut(c)
    \/ \E a \in Ages : Handlers(a) \/ WriteTimesOut(a) \/ Unwanted(a)
    \/ Restarts \/ Client \/ ClientFails

Spec == Init /\ [][Next]_vars

(* Fairness: every goroutine that can go on does; the path and the client    *)
(* need not fail.  That a write to a peer that is gone fails in the end is   *)
(* not counted on: on kcp it takes until the send window has filled up.      *)
Fairness ==
    /\ \A c \in Conns : WF_vars(Claims(c)) /\ WF_vars(ClaimTimesOut(c))
    /\ \A a \in Ages : WF_vars(Handlers(a)) /\ WF_vars(Unwanted(a))
    /\ WF_vars(Restarts) /\ WF_vars(Client)

FairSpec == Spec /\ Fairness

------------------------------------------------------------------------------
(* Both ends are up on the same connection, with a handler and a reader of   *)
(* the live run.                                                             *)
Linked == cst = "up" /\ served /\ cc \in rd["new"] /\ cc \in copen

(* Ended runs have let go by the time the next one serves: none of their     *)
(* handlers, claims or calls is left to act on the channel it has set.       *)
Undisturbed ==
    live => /\ hnd["old"] = 0 /\ calls["old"] = 0
            /\ \A c \in old : settled(c)

(* Whatever failed, in whatever order the two ends noticed: once failures    *)
(* stop and ended runs no longer act on their successor's channel, the two   *)
(* ends agree on one control channel and keep it.                            *)
Converges == <>[]Undisturbed => <>[]Linked
=============================================================================
