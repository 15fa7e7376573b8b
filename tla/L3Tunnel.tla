------------------------------ MODULE L3Tunnel ------------------------------
(***************************************************************************)
(* The session state of a layer-3 tunnel, both ends, over a datagram       *)
(* carrier that loses, duplicates, delays and reorders                     *)
(* (internal/tunnel/l3: tunnel.go, session.go, initreplay.go,              *)
(* freshness.go).                                                          *)
(*                                                                         *)
(* The dialler negotiates: one handshake per round, the same datagram      *)
(* resent.  The listener answers, holds the answered session as pending    *)
(* and promotes it when a packet sealed under it arrives.  Either end      *)
(* holds up to three sessions and retires them by age.  Either process     *)
(* may restart and forget everything it kept in memory.                    *)
(*                                                                         *)
(* A handshake is its attempt number: the random session id and the        *)
(* rising timestamp are one number, 0 standing for "no timestamp".  A      *)
(* session is that number and the number of the answer that completed it,  *)
(* because two answers to one handshake derive two different sets of keys. *)
(***************************************************************************)
EXTENDS Integers, Sequences, FiniteSets

CONSTANTS
  initMemory,         \* handshakes seenInits remembers
  handshakeAttempts,  \* sends of one round
  replyBuffer,        \* capacity of the replies channel
  previousGrace,      \* the four ages below are in clock ticks
  rekeyAfterTime,
  rejectAfterTime,
  peerSilentAfter,
  MaxAttempts,        \* bound: handshakes the dialler begins
  MaxAnswers,         \* bound: key derivations of the listener
  MaxRestarts,        \* bound: process restarts, both ends together
  MaxInFlight,        \* bound: sealed packets under way in one direction
  StartsLegacy        \* whether the dialler may start inside legacyRetry

ASSUME L3Assumption ==
  /\ {initMemory, handshakeAttempts, replyBuffer, peerSilentAfter,
      rekeyAfterTime, rejectAfterTime, MaxAttempts, MaxAnswers} \subseteq Nat \ {0}
  /\ previousGrace \in Nat
  /\ {MaxRestarts, MaxInFlight} \subseteq Nat
  /\ StartsLegacy \subseteq BOOLEAN
  /\ peerSilentAfter <= rekeyAfterTime
  /\ rekeyAfterTime + previousGrace < rejectAfterTime

VARIABLES
  \* the dialling end
  dialCurrent, dialPrevious, dialPrevFrom,
  attempt,       \* the handshake negotiate is waiting on, 0 outside a round
  tries,         \* sends left in this round
  replies,       \* the replies channel
  backoff,       \* handshakeLoop sleeps handshakeBackoff
  unanswered,    \* ticks since the first unanswered send, -1 for none
  silentRekey,
  clock,         \* the last attempt number handed out
  legacy,        \* legacyUntil has not passed: no timestamp in the payload
  \* the listening end
  current, pending, previous, prevFrom,
  lastReply,     \* the last answer, lastInitID being its id
  seenInits, fresh, peer,
  \* the carrier
  inits, resps,  \* handshake datagrams ever sent: any may arrive, and again
  toListen,      \* sessions with a sealed packet under way to the listener
  toDial,        \* sealed packets under way to the dialler
  \* bookkeeping
  answers,       \* key derivations so far
  lifeFrom,      \* answers when the listener's process started
  restarts,
  installed      \* history: sessions the dialler has completed

dialVars == <<dialCurrent, dialPrevious, dialPrevFrom, attempt, tries, replies,
              backoff, unanswered, silentRekey, clock, legacy>>
loopVars == <<attempt, tries, replies, backoff, silentRekey, clock, legacy>>
listenVars == <<current, pending, previous, prevFrom, lastReply, seenInits, fresh, peer>>
netVars == <<inits, resps, toListen, toDial>>
bookVars == <<answers, lifeFrom, restarts, installed>>
vars == <<dialVars, listenVars, netVars, bookVars>>

-----------------------------------------------------------------------------
NoSession == [id |-> 0, key |-> 0, age |-> 0]
NoKeys == [id |-> 0, key |-> 0]
newSession(i, k) == [id |-> i, key |-> k, age |-> 0]
Keys(s) == [id |-> s.id, key |-> s.key]

Home == "home"     \* where the dialler is
Away == "away"     \* any other source address
Nowhere == "nowhere"

dueForRekey(s) == s.age >= rekeyAfterTime
expired(s) == s # NoSession /\ s.age >= rejectAfterTime

Older(s) == IF s = NoSession THEN s ELSE [s EXCEPT !.age = @ + 1]

\* sessionFor and open: the keys a packet needs are among the three held.  The
\* first session with the packet's id is the one that is tried.
sessionFor(p, cur, pend, prev) ==
  IF cur # NoSession /\ cur.id = p.id THEN cur
  ELSE IF pend # NoSession /\ pend.id = p.id THEN pend
  ELSE IF prev # NoSession /\ prev.id = p.id THEN prev ELSE NoSession

\* Mutant: a packet counts as authentic as soon as its id is known.
OpensById(p, cur, pend, prev) == sessionFor(p, cur, pend, prev) # NoSession

Opens(p, cur, pend, prev) ==
  LET s == sessionFor(p, cur, pend, prev) IN s # NoSession /\ Keys(s) = p

sendSession(cur, pend) == IF cur # NoSession THEN cur ELSE pend

-----------------------------------------------------------------------------
(* The dialling end.                                                       *)

needsSession == dialCurrent = NoSession \/ dueForRekey(dialCurrent)
peerSilent == unanswered >= peerSilentAfter
HandshakeDue == attempt = 0 /\ (peerSilent \/ silentRekey \/ needsSession)

\* A timestamp goes into the payload unless the listener was lately found not
\* to read them; freshClock makes it rise with every handshake.
initPayload(n) == IF legacy THEN 0 ELSE n
beginHandshakeFresh(n) == [id |-> n, fresh |-> initPayload(n)]
complete(reply) == newSession(attempt, reply.key)

noteSent == unanswered' = IF unanswered = -1 THEN 0 ELSE unanswered
noteAnswered == unanswered' = -1

\* One turn of handshakeLoop that starts a round: negotiate draws an id and a
\* timestamp, drains the stale answers and sends.
negotiate ==
  /\ HandshakeDue /\ ~backoff
  /\ clock < MaxAttempts
  /\ silentRekey' = (silentRekey \/ peerSilent)
  /\ unanswered' = IF peerSilent THEN -1 ELSE unanswered
  /\ clock' = clock + 1
  /\ attempt' = clock + 1
  /\ tries' = handshakeAttempts - 1
  /\ replies' = <<>>
  /\ inits' = inits \cup {beginHandshakeFresh(clock + 1)}
  /\ UNCHANGED <<dialCurrent, dialPrevious, dialPrevFrom, backoff, legacy,
                 listenVars, resps, toListen, toDial, bookVars>>

\* The round is over without an answer: the loop backs off and starts over.
GiveUp ==
  /\ attempt' = 0
  /\ tries' = 0
  /\ backoff' = TRUE

\* handshakeRetry passed, or an answer to something else was read: the same
\* datagram goes out again, as long as sends are left.
SendAgain ==
  \/ tries > 0 /\ tries' = tries - 1 /\ UNCHANGED <<attempt, backoff>>
  \/ tries = 0 /\ GiveUp

handshakeRetry ==
  /\ attempt # 0
  /\ SendAgain
  /\ UNCHANGED <<dialCurrent, dialPrevious, dialPrevFrom, replies, unanswered, silentRekey,
                 clock, legacy, listenVars, netVars, bookVars>>

StaleReply ==
  /\ attempt # 0 /\ replies # <<>> /\ Head(replies).id # attempt
  /\ replies' = Tail(replies)
  /\ SendAgain
  /\ UNCHANGED <<dialCurrent, dialPrevious, dialPrevFrom, unanswered, silentRekey,
                 clock, legacy, listenVars, netVars, bookVars>>

installDialed ==
  /\ attempt # 0 /\ replies # <<>> /\ Head(replies).id = attempt
  /\ replies' = Tail(replies)
  /\ attempt' = 0 /\ tries' = 0
  /\ dialPrevious' = dialCurrent /\ dialPrevFrom' = 0
  /\ dialCurrent' = complete(Head(replies))
  /\ noteAnswered
  /\ silentRekey' = FALSE
  /\ installed' = installed \cup {[id |-> attempt, key |-> Head(replies).key]}
  /\ UNCHANGED <<backoff, clock, legacy, listenVars, netVars, answers, lifeFrom, restarts>>

BackoffOver ==
  /\ backoff /\ backoff' = FALSE
  /\ UNCHANGED <<dialCurrent, dialPrevious, dialPrevFrom, attempt, tries, replies, unanswered,
                 silentRekey, clock, legacy, listenVars, netVars, bookVars>>

\* legacyRetry has passed since the dialler met a listener without timestamps.
LegacyOver ==
  /\ legacy /\ legacy' = FALSE
  /\ UNCHANGED <<dialCurrent, dialPrevious, dialPrevFrom, attempt, tries, replies, backoff,
                 unanswered, silentRekey, clock, listenVars, netVars, bookVars>>

handleResp(m) ==
  /\ Len(replies) < replyBuffer
  /\ replies' = Append(replies, m)
  /\ UNCHANGED <<dialCurrent, dialPrevious, dialPrevFrom, attempt, tries, backoff, unanswered,
                 silentRekey, clock, legacy, listenVars, netVars, bookVars>>

\* A sealed packet put on the carrier, which drops it when it is full.
Carry(p, way) == IF Cardinality(way) < MaxInFlight THEN way \cup {p} ELSE way

\* pumpFromTUN with noteSent: a packet off the interface, sealed under current.
DialSend ==
  /\ dialCurrent # NoSession
  /\ toListen' = Carry(Keys(dialCurrent), toListen)
  /\ noteSent
  /\ UNCHANGED <<dialCurrent, dialPrevious, dialPrevFrom, loopVars, listenVars,
                 inits, resps, toDial, bookVars>>

\* sendProbe: the same packet to the listener, but not a send that waits for
\* an answer.
DialProbe ==
  /\ dialCurrent # NoSession
  /\ toListen' = Carry(Keys(dialCurrent), toListen)
  /\ UNCHANGED <<dialVars, listenVars, inits, resps, toDial, bookVars>>

answerProbe(keys) == toListen' = Carry(keys, toListen)

\* handleData and handleProbeMessage at the dialler.  A probe is answered under
\* the session it came in on, and does not count as an answer.
DialReceive(p) ==
  /\ toDial' = toDial \ {p}
  /\ LET opens == Opens(p.keys, dialCurrent, NoSession, dialPrevious) IN
       /\ IF opens /\ p.kind = "data" THEN noteAnswered ELSE UNCHANGED unanswered
       /\ IF opens /\ p.kind = "probe" THEN answerProbe(p.keys) ELSE UNCHANGED toListen
  /\ UNCHANGED <<dialCurrent, dialPrevious, dialPrevFrom, loopVars, listenVars,
                 inits, resps, bookVars>>

DialRetireDue ==
  \/ dialPrevious # NoSession /\ (dialPrevFrom > previousGrace \/ expired(dialPrevious))
  \/ expired(dialCurrent)

DialRetire ==
  /\ DialRetireDue
  /\ dialPrevious' = IF dialPrevFrom > previousGrace \/ expired(dialPrevious)
                     THEN NoSession ELSE dialPrevious
  /\ dialCurrent' = IF expired(dialCurrent) THEN NoSession ELSE dialCurrent
  /\ UNCHANGED <<dialPrevFrom, loopVars, unanswered, listenVars, netVars, bookVars>>

\* A pump failed: the generation ends, negotiate returns with the context, and
\* runL3Tunnel calls Run again on the same Tunnel, sessions included.
DialRunAgain ==
  /\ attempt # 0 \/ backoff
  /\ attempt' = 0 /\ tries' = 0 /\ backoff' = FALSE
  /\ UNCHANGED <<dialCurrent, dialPrevious, dialPrevFrom, replies, unanswered, silentRekey,
                 clock, legacy, listenVars, netVars, bookVars>>

\* The dialler's process restarts: a new Tunnel.  Its wall clock goes on.
DialRestart ==
  /\ restarts < MaxRestarts /\ restarts' = restarts + 1
  /\ dialCurrent' = NoSession /\ dialPrevious' = NoSession /\ dialPrevFrom' = 0
  /\ attempt' = 0 /\ tries' = 0 /\ replies' = <<>> /\ backoff' = FALSE
  /\ unanswered' = -1 /\ silentRekey' = FALSE /\ legacy' = FALSE
  /\ UNCHANGED <<clock, listenVars, netVars, answers, lifeFrom, installed>>

-----------------------------------------------------------------------------
(* The listening end.                                                      *)

\* seenInits: the ids answered lately, oldest first, at most initMemory.
seen(i) == \E k \in DOMAIN seenInits : seenInits[k] = i

Remember(i) ==
  LET ids == Append(seenInits, i)
  IN  IF Len(ids) > initMemory THEN Tail(ids) ELSE ids

\* Mutant: a timestamp is read but not compared with what was accepted before.
admitAnyTimestamp(f) == f = 0 => ~fresh.required

\* freshJudge.admit: a timestamp must advance, and once one was accepted a
\* payload without one is refused.
admit(f) == IF f = 0 THEN ~fresh.required ELSE f > fresh.last

\* Mutant: the address is taken whenever no session is current.
ProvisionalPeerWhileIdle(from) == IF current = NoSession THEN from ELSE peer

\* respondFresh: the answer to a handshake, with keys of its own.
respondFresh(m) == [id |-> m.id, key |-> answers + 1]

\* An unconfirmed address is taken only when none is known at all.
ProvisionalPeer(from) == IF current = NoSession /\ peer = Nowhere THEN from ELSE peer

\* A retransmission of the handshake answered last: the identical reply.
handleInitAgain(m) ==
  /\ lastReply # NoKeys /\ m.id = lastReply.id
  /\ resps' = resps \cup {lastReply}
  /\ UNCHANGED <<dialVars, listenVars, inits, toListen, toDial, bookVars>>

\* A handshake seenInits does not know is remembered first, then judged by its
\* timestamp.  Refused, that memory is all it leaves.
handleInitStale(m) ==
  /\ ~(lastReply # NoKeys /\ m.id = lastReply.id) /\ ~seen(m.id)
  /\ ~admit(m.fresh)
  /\ seenInits' = Remember(m.id)
  /\ UNCHANGED <<dialVars, current, pending, previous, prevFrom, lastReply, fresh, peer,
                 netVars, bookVars>>

handleInit(m, from) ==
  /\ ~(lastReply # NoKeys /\ m.id = lastReply.id) /\ ~seen(m.id)
  /\ admit(m.fresh)
  /\ answers < MaxAnswers
  /\ seenInits' = Remember(m.id)
  /\ fresh' = IF m.fresh = 0 THEN fresh ELSE [last |-> m.fresh, required |-> TRUE]
  /\ answers' = answers + 1
  /\ pending' = newSession(m.id, respondFresh(m).key)
  /\ lastReply' = respondFresh(m)
  /\ resps' = resps \cup {respondFresh(m)}
  /\ peer' = ProvisionalPeer(from)
  /\ UNCHANGED <<dialVars, current, previous, prevFrom, inits, toListen, toDial,
                 lifeFrom, restarts, installed>>

\* seenInits.expire: the oldest memory passes initMemoryWindow.
Expire ==
  /\ seenInits # <<>> /\ seenInits' = Tail(seenInits)
  /\ UNCHANGED <<dialVars, current, pending, previous, prevFrom, lastReply, fresh, peer,
                 netVars, bookVars>>

promote ==
  /\ previous' = current /\ prevFrom' = 0
  /\ current' = pending
  /\ pending' = NoSession

\* Sealed packets come from where the dialler is.
notePeer == peer' = Home

\* handleData and handleProbeMessage at the listener: what authenticates
\* confirms its session and says where the peer is.
ListenReceive(p) ==
  /\ toListen' = toListen \ {p}
  /\ \/ /\ Opens(p, current, pending, previous)
        /\ IF sessionFor(p, current, NoSession, NoSession) = NoSession
              /\ pending # NoSession /\ pending.id = p.id
           THEN promote ELSE UNCHANGED <<current, pending, previous, prevFrom>>
        /\ notePeer
     \/ /\ ~Opens(p, current, pending, previous)
        /\ UNCHANGED <<current, pending, previous, prevFrom, peer>>
  /\ UNCHANGED <<dialVars, lastReply, seenInits, fresh, inits, resps, toDial, bookVars>>

\* pumpFromTUN and sendProbe at the listener.  What goes to another address
\* than the dialler's is lost.
ListenSend(kind) ==
  /\ sendSession(current, pending) # NoSession /\ peer # Nowhere
  /\ toDial' = IF peer = Home
               THEN Carry([kind |-> kind, keys |-> Keys(sendSession(current, pending))], toDial)
               ELSE toDial
  /\ UNCHANGED <<dialVars, listenVars, inits, resps, toListen, bookVars>>

RetireDue ==
  \/ previous # NoSession /\ (prevFrom > previousGrace \/ expired(previous))
  \/ expired(pending)
  \/ expired(current)

retireSessions ==
  /\ RetireDue
  /\ previous' = IF prevFrom > previousGrace \/ expired(previous) THEN NoSession ELSE previous
  /\ pending' = IF expired(pending) THEN NoSession ELSE pending
  /\ current' = IF expired(current) THEN NoSession ELSE current
  /\ UNCHANGED <<dialVars, prevFrom, lastReply, seenInits, fresh, peer, netVars, bookVars>>

\* The listener's process restarts with no memory of anything.
ListenRestart ==
  /\ restarts < MaxRestarts /\ restarts' = restarts + 1
  /\ current' = NoSession /\ pending' = NoSession /\ previous' = NoSession /\ prevFrom' = 0
  /\ lastReply' = NoKeys /\ seenInits' = <<>>
  /\ fresh' = [last |-> 0, required |-> FALSE]
  /\ peer' = Nowhere
  /\ lifeFrom' = answers
  /\ UNCHANGED <<dialVars, netVars, answers, installed>>

-----------------------------------------------------------------------------
\* A tick is longer than a round of the handshake and than the two tickers'
\* periods, so what is due is done before the clock moves.
Tick ==
  /\ attempt = 0 /\ ~DialRetireDue /\ ~RetireDue
  /\ HandshakeDue => backoff \/ clock = MaxAttempts
  /\ dialCurrent' = Older(dialCurrent) /\ dialPrevious' = Older(dialPrevious)
  /\ dialPrevFrom' = IF dialPrevious = NoSession THEN 0 ELSE dialPrevFrom + 1
  /\ unanswered' = IF unanswered = -1 \/ peerSilent THEN unanswered ELSE unanswered + 1
  /\ current' = Older(current) /\ pending' = Older(pending) /\ previous' = Older(previous)
  /\ prevFrom' = IF previous = NoSession THEN 0 ELSE prevFrom + 1
  /\ UNCHANGED <<loopVars, lastReply, seenInits, fresh, peer, netVars, bookVars>>

Init ==
  /\ dialCurrent = NoSession /\ dialPrevious = NoSession /\ dialPrevFrom = 0
  /\ attempt = 0 /\ tries = 0 /\ replies = <<>> /\ backoff = FALSE
  /\ unanswered = -1 /\ silentRekey = FALSE /\ clock = 0
  /\ legacy \in StartsLegacy
  /\ current = NoSession /\ pending = NoSession /\ previous = NoSession /\ prevFrom = 0
  /\ lastReply = NoKeys /\ seenInits = <<>> /\ fresh = [last |-> 0, required |-> FALSE]
  /\ peer = Nowhere
  /\ inits = {} /\ resps = {} /\ toListen = {} /\ toDial = {}
  /\ answers = 0 /\ lifeFrom = 0 /\ restarts = 0 /\ installed = {}

Next ==
  \/ negotiate \/ handshakeRetry \/ StaleReply \/ installDialed
  \/ BackoffOver \/ LegacyOver
  \/ \E m \in resps : handleResp(m)
  \/ DialSend \/ DialProbe \/ DialRetire \/ DialRunAgain \/ DialRestart
  \/ \E p \in toDial : DialReceive(p)
  \/ \E m \in inits : handleInitAgain(m) \/ handleInitStale(m)
  \/ \E m \in inits, from \in {Home, Away} : handleInit(m, from)
  \/ Expire \/ retireSessions \/ ListenRestart
  \/ \E p \in toListen : ListenReceive(p)
  \/ \E kind \in {"data", "probe"} : ListenSend(kind)
  \/ Tick

Spec == Init /\ [][Next]_vars

-----------------------------------------------------------------------------
Attempts == 0 .. MaxAttempts
KeySets == [id : 1 .. MaxAttempts, key : 1 .. MaxAnswers]
Sessions == [id : 1 .. MaxAttempts, key : 1 .. MaxAnswers, age : 0 .. rejectAfterTime]
            \cup {NoSession}

\* The type invariant; the queues of replies and of remembered handshakes stay
\* within their capacities (replies channel, seenInits).
TypeOK ==
  /\ {dialCurrent, dialPrevious, current, pending, previous} \subseteq Sessions
  /\ {dialPrevFrom, prevFrom} \subseteq 0 .. previousGrace + 1
  /\ {attempt, clock} \subseteq Attempts
  /\ tries \in 0 .. handshakeAttempts - 1
  /\ replies \in Seq(KeySets) /\ Len(replies) <= replyBuffer
  /\ {backoff, silentRekey, legacy} \subseteq BOOLEAN
  /\ unanswered \in -1 .. peerSilentAfter
  /\ lastReply \in KeySets \cup {NoKeys}
  /\ seenInits \in Seq(1 .. MaxAttempts) /\ Len(seenInits) <= initMemory
  /\ fresh \in [last : Attempts, required : BOOLEAN]
  /\ peer \in {Home, Away, Nowhere}
  /\ inits \subseteq [id : 1 .. MaxAttempts, fresh : Attempts]
  /\ resps \subseteq KeySets /\ installed \subseteq KeySets /\ toListen \subseteq KeySets
  /\ toDial \subseteq [kind : {"data", "probe"}, keys : KeySets]
  /\ answers \in 0 .. MaxAnswers /\ lifeFrom \in 0 .. MaxAnswers
  /\ restarts \in 0 .. MaxRestarts

ListenHolds == {Keys(s) : s \in {current, pending, previous} \ {NoSession}}
DialHolds == {Keys(s) : s \in {dialCurrent, dialPrevious} \ {NoSession}}
Timestamped(n) == \E m \in inits : m.id = n /\ m.fresh # 0

\* Where both ends know one timestamped handshake they hold the same keys for
\* it, however often its first message was resent or replayed: the listener
\* derives keys once per handshake in the life of its process (handleInit:
\* "Deriving a second set of keys for the same session would leave the
\* initiator holding keys this end has thrown away").
KeysAgree ==
  \A d \in DialHolds, l \in ListenHolds :
    d.id = l.id /\ d.key > lifeFrom /\ Timestamped(d.id) => d.key = l.key

\* The listener never makes a session current that the dialler does not hold:
\* a handshake alone, fresh or replayed, only ever becomes pending (promote).
ConfirmedByPeer ==
  \A s \in {current, previous} \ {NoSession} : Keys(s) \in installed

\* The address the listener sends to, once the dialler's, is never replaced by
\* the source of an unauthenticated datagram, not even after the session that
\* confirmed it has expired (handleInit and notePeer).
PeerStaysConfirmed == [][peer = Home => peer' # Away]_vars

\* Once a timestamp has been accepted, the pending session is only ever replaced
\* by a newer handshake than any the listener holds: no late, duplicated or
\* replayed first message displaces it (freshJudge.admit, seenInits.seen).
NewestWins ==
  [][fresh.required /\ pending' # NoSession /\ Keys(pending') # Keys(pending)
       => \A l \in ListenHolds : pending'.id > l.id]_vars

\* What the dialler seals under, the listener can open: as long as the dialler
\* has begun no newer handshake and the listener's process lives, the session
\* the dialler completed stays among the listener's three.
DialledIsHeld ==
  /\ dialCurrent # NoSession /\ dialCurrent.age < rejectAfterTime
  /\ dialCurrent.key > lifeFrom
  /\ clock = dialCurrent.id /\ Timestamped(clock)
  => Keys(dialCurrent) \in ListenHolds
=============================================================================
