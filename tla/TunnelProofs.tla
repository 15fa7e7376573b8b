---------------------------- MODULE TunnelProofs -----------------------------
(***************************************************************************)
(* Proofs about the tunnels that are neither reverse nor a chain, for      *)
(* every value of their constants.                                         *)
(*                                                                         *)
(* The layer-3 tunnel: the anti-replay window of one session               *)
(* (ReplayWindow), and the sessions of the two ends (L3Tunnel): who may be *)
(* made current, where the listener sends, that one handshake has one set  *)
(* of keys, which session wins, and the types, which bound every queue and *)
(* every age.                                                              *)
(*                                                                         *)
(* The direct tunnel (Direct): types and the limiter's count, the table of *)
(* datagram flows, and that it implements Forwarding, step by step, with   *)
(* what Forwarding promises carried over to it.                            *)
(***************************************************************************)
EXTENDS ReplayWindow, L3Tunnel, Direct, FiniteSetTheorems, TLAPS

-----------------------------------------------------------------------------
(* The anti-replay window, for every window size and every bound on the    *)
(* counters: the ring of bits is exactly what was delivered.               *)

\* Every counter has a slot of the ring.
LEMMA SlotRange ==
  ASSUME NEW c \in Nat
  PROVE  slot(c) \in 0 .. WindowBits - 1
BY WindowAssumption DEF slot

\* A counter is its quotient by the window size times that size, plus its slot.
LEMMA Division ==
  ASSUME NEW c \in Nat, NEW w \in Nat \ {0}
  PROVE  /\ c \div w \in Int
         /\ c = w * (c \div w) + (c % w)
OBVIOUS

\* Two different multiples of the window size are at least a window apart.
LEMMA Product ==
  ASSUME NEW w \in Nat \ {0}, NEW d \in Int, d > 0
  PROVE  w * d >= w
OBVIOUS

\* Two counters less than a window apart share no slot unless they are equal.
LEMMA SlotApart ==
  ASSUME NEW a \in Nat, NEW b \in Nat, a < b, slot(a) = slot(b)
  PROVE  b - a >= WindowBits
<1> DEFINE w == WindowBits
           p == a \div w
           q == b \div w
<1>1. w \in Nat \ {0}
  BY WindowAssumption
<1>2. p \in Int /\ q \in Int /\ a = w * p + (a % w) /\ b = w * q + (b % w)
  BY <1>1, Division
<1>3. a % w = b % w /\ a % w \in Int
  BY <1>1 DEF slot
<1> HIDE DEF p, q
<1>4. w * q - w * p = b - a
  BY <1>1, <1>2, <1>3
<1>5. w * q - w * p = w * (q - p)
  BY <1>1, <1>2
<1>6. q - p > 0
  BY <1>1, <1>2, <1>4, <1>5
<1>7. w * (q - p) >= w
  BY <1>1, <1>2, <1>6, Product
<1> QED BY <1>1, <1>2, <1>4, <1>5, <1>7

-----------------------------------------------------------------------------
WindowInv == WindowTypeOK /\ RingIsWindow

\* A new window has delivered nothing.
LEMMA WindowInvInit == WindowInit => WindowInv
<1> SUFFICES ASSUME WindowInit PROVE WindowInv
  OBVIOUS
<1>1. WindowTypeOK
  <2>1. max \in Counters
    BY WindowAssumption DEF WindowInit, Counters
  <2> QED BY <2>1, Zenon DEF WindowInit, WindowTypeOK
<1>2. RingIsWindow
  BY Zenon DEF WindowInit, RingIsWindow
<1> QED BY <1>1, <1>2 DEF WindowInv

\* The first packet of a session: the ring holds that one counter.
LEMMA FirstCommit ==
  ASSUME WindowInv, NEW c \in Counters, OpenGenuine(c), ~seeded
  PROVE  RingIsWindow'
<1>1. /\ bitmap' = {slot(c)} /\ delivered' = {c} /\ max' = c /\ seeded' = TRUE
  BY DEF WindowInv, RingIsWindow, OpenGenuine, commit
<1>2. ASSUME NEW k \in Counters, InWindow(k)', slot(k) = slot(c)
      PROVE  k = c
  BY <1>1, <1>2, SlotApart, WindowAssumption DEF InWindow, Counters
<1>3. \A k \in Counters : InWindow(k)' => (slot(k) \in {slot(c)} <=> k \in {c})
  BY <1>2
<1>4. c <= c
  BY WindowAssumption DEF Counters
<1> QED BY <1>1, <1>3, <1>4 DEF RingIsWindow, slot

\* A late packet: the window stays, one more slot is marked.
LEMMA LateCommit ==
  ASSUME WindowInv, NEW c \in Counters, OpenGenuine(c), seeded, c <= max
  PROVE  RingIsWindow'
<1>1. /\ bitmap' = bitmap \cup {slot(c)} /\ delivered' = delivered \cup {c}
      /\ max' = max /\ seeded' = TRUE
  BY WindowAssumption DEF WindowInv, WindowTypeOK, OpenGenuine, commit, Slid, Counters
<1>2. InWindow(c)
  BY WindowAssumption DEF WindowInv, WindowTypeOK, OpenGenuine, accept, InWindow, Counters
<1>3. ASSUME NEW k \in Counters, InWindow(k), slot(k) = slot(c)
      PROVE  k = c
  BY <1>2, <1>3, SlotApart, WindowAssumption DEF InWindow, Counters, WindowInv, WindowTypeOK
<1>4. \A k \in Counters : InWindow(k)' <=> InWindow(k)
  BY <1>1 DEF InWindow
<1> QED BY <1>1, <1>3, <1>4 DEF WindowInv, RingIsWindow, slot

\* A packet ahead of the mark: the window slides, and the slots it slides over
\* lose the bits of the counters a window ago.
LEMMA AheadCommit ==
  ASSUME WindowInv, NEW c \in Counters, OpenGenuine(c), seeded, c > max
  PROVE  RingIsWindow'
<1> USE WindowAssumption DEF Counters
<1>1. /\ bitmap' = Slid(c) \cup {slot(c)} /\ delivered' = delivered \cup {c}
      /\ max' = c /\ seeded' = TRUE /\ max \in Counters
  BY DEF WindowInv, WindowTypeOK, OpenGenuine, commit
<1>2. ASSUME NEW k \in Counters, k <= c, c - k < WindowBits
      PROVE  slot(k) \in bitmap' <=> k \in delivered'
  <2>1. CASE k = c
    BY <1>1, <2>1
  <2>2. CASE k < c /\ k > max
    <3>1. k \notin delivered'
      BY <1>1, <2>2 DEF WindowInv, RingIsWindow
    <3>2. slot(k) # slot(c)
      BY <1>2, <2>2, SlotApart
    <3>3. slot(k) \notin Slid(c)
      BY <1>1, <1>2, <2>2 DEF Slid
    <3> QED BY <1>1, <3>1, <3>2, <3>3
  <2>3. CASE k <= max
    <3>1. slot(k) # slot(c)
      BY <1>1, <1>2, <2>3, SlotApart
    <3>2. InWindow(k) /\ c - max < WindowBits
      BY <1>1, <1>2, <2>3 DEF InWindow
    <3>3. slot(k) \in bitmap <=> k \in delivered
      BY <3>2 DEF WindowInv, RingIsWindow
    <3>4. ASSUME NEW j \in max + 1 .. c
          PROVE  slot(j) # slot(k)
      BY <1>1, <1>2, <2>3, SlotApart
    <3>5. slot(k) \in Slid(c) <=> slot(k) \in bitmap
      BY <1>1, <3>2, <3>4 DEF Slid
    <3> QED BY <1>1, <2>3, <3>1, <3>3, <3>5
  <2> QED BY <1>1, <1>2, <2>1, <2>2, <2>3
<1>3. \A k \in delivered' : k <= max'
  BY <1>1 DEF WindowInv, RingIsWindow, WindowTypeOK
<1> QED BY <1>1, <1>2, <1>3 DEF RingIsWindow, InWindow

\* Whatever session.open is handed, the ring still mirrors the window.
LEMMA WindowInvStep == WindowInv /\ [WindowNext]_windowVars => WindowInv'
<1> SUFFICES ASSUME WindowInv, [WindowNext]_windowVars PROVE WindowInv'
  OBVIOUS
<1>1. CASE UNCHANGED windowVars
  BY <1>1 DEF WindowInv, WindowTypeOK, RingIsWindow, InWindow, windowVars
<1>2. ASSUME NEW c \in Counters, OpenGenuine(c)
      PROVE  WindowInv'
  <2>1. RingIsWindow'
    BY <1>2, FirstCommit, LateCommit, AheadCommit, WindowAssumption
       DEF WindowInv, WindowTypeOK, Counters
  <2>2. slot(c) \in 0 .. WindowBits - 1
    BY SlotRange DEF Counters
  <2>3. WindowTypeOK'
    BY <1>2, <2>2 DEF WindowInv, WindowTypeOK, OpenGenuine, commit, Slid
  <2> QED BY <2>1, <2>3 DEF WindowInv
<1>3. ASSUME NEW c \in Counters, OpenReplayed(c) \/ OpenForged(c)
      PROVE  WindowInv'
  BY <1>1, <1>3 DEF OpenReplayed, OpenForged
<1> QED BY <1>1, <1>2, <1>3 DEF WindowNext, open

\* What the ring mirroring the window gives.
LEMMA WindowInvImplies == WindowInv => NeverTwice /\ NoFalseRefusal
BY WindowAssumption DEF WindowInv, WindowTypeOK, RingIsWindow, NeverTwice, NoFalseRefusal,
                        accept, InWindow, Counters

\* The invariant holds throughout.
LEMMA WindowInvariance == WindowSpec => []WindowInv
BY WindowInvInit, WindowInvStep, PTL DEF WindowSpec

\* Every counter stays inside its range, for every window size.
THEOREM WindowTypeCorrect == WindowSpec => []WindowTypeOK
BY WindowInvariance, PTL DEF WindowInv

\* The ring is exactly the delivered counters of the window, whatever slid,
\* repeated or forged datagram came before (commit, Slid).
THEOREM RingExact == WindowSpec => []RingIsWindow
BY WindowInvariance, PTL DEF WindowInv

\* session.open hands on the packet of a given counter at most once.
THEOREM ReplaySafe == WindowSpec => []NeverTwice
<1>1. WindowInv => NeverTwice
  BY WindowInvImplies
<1> QED BY <1>1, WindowInvariance, PTL

\* A counter inside the window that has not been delivered is never refused:
\* neither sliding nor forged datagrams cost a genuine packet.
THEOREM NothingLostInWindow == WindowSpec => []NoFalseRefusal
<1>1. WindowInv => NoFalseRefusal
  BY WindowInvImplies
<1> QED BY <1>1, WindowInvariance, PTL

-----------------------------------------------------------------------------
(* ConfirmedByPeer.  The strengthening says where proof of a session comes *)
(* from: the dialler seals only under sessions it completed, so everything *)
(* under way to the listener is sealed under one of them.                  *)

ConfirmedInv ==
  /\ \A s \in {dialCurrent, dialPrevious, current, previous} :
       s # NoSession => Keys(s) \in installed
  /\ toListen \subseteq installed

\* A full carrier drops the packet: nothing appears that was not sent.
LEMMA CarryBound ==
  ASSUME NEW p, NEW way
  PROVE  Carry(p, way) \subseteq way \cup {p}
  BY DEF Carry

\* Ageing changes no keys and creates no session.
LEMMA OlderKeys ==
  ASSUME NEW s
  PROVE  /\ Older(s) # NoSession => s # NoSession
         /\ Keys(Older(s)) = Keys(s)
  BY DEF Older, Keys, NoSession

\* The session a packet opens under has the packet's keys; a pending session
\* is tried only when the current one has another id.
LEMMA OpensPending ==
  ASSUME NEW p, NEW cur, NEW pend, NEW prev,
         Opens(p, cur, pend, prev),
         sessionFor(p, cur, NoSession, NoSession) = NoSession,
         pend # NoSession, pend.id = p.id
  PROVE  Keys(pend) = p
  BY DEF Opens, sessionFor

\* Neither end has a session to begin with.
LEMMA InitConfirmed == Init => ConfirmedInv
  BY DEF Init, ConfirmedInv

\* handleData promotes only what opened a packet of the dialler, and nothing
\* else makes a session current.
LEMMA StepConfirmed == ConfirmedInv /\ [Next]_vars => ConfirmedInv'
<1> SUFFICES ASSUME ConfirmedInv, [Next]_vars PROVE ConfirmedInv'
  OBVIOUS
<1> USE DEF ConfirmedInv
<1>1. CASE installDialed
  BY <1>1 DEF installDialed, complete, newSession, Keys, netVars, listenVars
<1>2. CASE DialSend \/ DialProbe
  BY <1>2, CarryBound DEF DialSend, DialProbe, dialVars, loopVars, listenVars, bookVars
<1>3. ASSUME NEW p \in toDial, DialReceive(p) PROVE ConfirmedInv'
  <2>1. Opens(p.keys, dialCurrent, NoSession, dialPrevious) /\ p.kind = "probe"
          => p.keys \in installed
    BY DEF Opens, sessionFor
  <2> QED
    BY <1>3, <2>1, CarryBound DEF DialReceive, answerProbe, loopVars, listenVars, bookVars
<1>4. CASE DialRetire
  BY <1>4 DEF DialRetire, listenVars, netVars, bookVars
<1>5. CASE DialRestart
  BY <1>5 DEF DialRestart, listenVars, netVars
<1>6. ASSUME NEW p \in toListen, ListenReceive(p) PROVE ConfirmedInv'
  BY <1>6, OpensPending DEF ListenReceive, promote, dialVars, bookVars
<1>7. CASE retireSessions
  BY <1>7 DEF retireSessions, dialVars, netVars, bookVars
<1>8. CASE ListenRestart
  BY <1>8 DEF ListenRestart, dialVars, netVars
<1>9. CASE Tick
  BY <1>9, OlderKeys DEF Tick, netVars, bookVars
<1>10. CASE UNCHANGED vars
  BY <1>10 DEF vars, dialVars, listenVars, netVars, bookVars
<1>11. ASSUME NEW m, NEW from, handleInit(m, from) PROVE ConfirmedInv'
  BY <1>11 DEF handleInit, dialVars
<1>12. CASE negotiate \/ handshakeRetry \/ StaleReply \/ BackoffOver \/ LegacyOver \/ DialRunAgain
  BY <1>12 DEF negotiate, handshakeRetry, StaleReply, BackoffOver, LegacyOver, DialRunAgain,
       listenVars, netVars, bookVars
<1>13. ASSUME NEW m, handleResp(m) \/ handleInitAgain(m) \/ handleInitStale(m) PROVE ConfirmedInv'
  BY <1>13 DEF handleResp, handleInitAgain, handleInitStale, dialVars, listenVars, netVars, bookVars
<1>14. CASE Expire \/ \E kind \in {"data", "probe"} : ListenSend(kind)
  BY <1>14 DEF Expire, ListenSend, dialVars, listenVars, netVars, bookVars
<1> QED
  BY <1>1, <1>2, <1>3, <1>4, <1>5, <1>6, <1>7, <1>8, <1>9, <1>10, <1>11, <1>12, <1>13, <1>14
  DEF Next

\* The listener only ever makes current a session whose keys the dialler has
\* proved to hold, whatever is lost, duplicated, replayed or restarted.
THEOREM Confirmed == Spec => []ConfirmedByPeer
<1>1. ConfirmedInv => ConfirmedByPeer
  BY DEF ConfirmedInv, ConfirmedByPeer
<1> QED
  BY InitConfirmed, StepConfirmed, <1>1, PTL DEF Spec

-----------------------------------------------------------------------------
(* PeerStaysConfirmed needs no invariant: the two handlers that write the  *)
(* address are the only steps that matter.                                 *)

\* No step replaces the dialler's address by that of an unauthenticated
\* datagram (handleInit takes an address only when it has none).
THEOREM PeerSafe == Spec => PeerStaysConfirmed
<1>1. [Next]_vars => [peer = Home => peer' # Away]_vars
  <2> SUFFICES ASSUME [Next]_vars, peer = Home PROVE peer' # Away
    OBVIOUS
  <2>1. ASSUME NEW m, NEW from, handleInit(m, from) PROVE peer' # Away
    BY <2>1 DEF handleInit, ProvisionalPeer, Home, Away, Nowhere
  <2>2. ASSUME NEW p, ListenReceive(p) PROVE peer' # Away
    BY <2>2 DEF ListenReceive, notePeer, Home, Away
  <2>3. CASE ListenRestart
    BY <2>3 DEF ListenRestart, Away, Nowhere
  <2>4. CASE UNCHANGED peer
    BY <2>4 DEF Home, Away
  <2>5. ASSUME NEW m, handleResp(m) \/ handleInitAgain(m) \/ handleInitStale(m)
        PROVE  UNCHANGED peer
    BY <2>5 DEF handleResp, handleInitAgain, handleInitStale, listenVars
  <2>6. ASSUME NEW p, DialReceive(p) \/ ListenSend(p) PROVE UNCHANGED peer
    BY <2>6 DEF DialReceive, ListenSend, listenVars
  <2>7. ASSUME \/ negotiate \/ handshakeRetry \/ StaleReply \/ installDialed
               \/ BackoffOver \/ LegacyOver \/ DialSend \/ DialProbe \/ DialRetire
               \/ DialRunAgain \/ DialRestart \/ Expire \/ retireSessions \/ Tick
        PROVE  UNCHANGED peer
    BY <2>7 DEF negotiate, handshakeRetry, StaleReply, installDialed, BackoffOver, LegacyOver,
         DialSend, DialProbe, DialRetire, DialRunAgain, DialRestart, Expire, retireSessions,
         Tick, listenVars
  <2>8. UNCHANGED vars => UNCHANGED peer
    BY DEF vars, listenVars
  <2> QED
    BY <2>1, <2>2, <2>3, <2>4, <2>5, <2>6, <2>7, <2>8 DEF Next
<1> QED
  BY <1>1, PTL DEF Spec, PeerStaysConfirmed

-----------------------------------------------------------------------------
(* KeysAgree.  Every session either end holds comes from an answer, the    *)
(* listener's from one of this life of its process; a timestamped          *)
(* handshake has one answer per life, because whatever was answered is at  *)
(* most fresh.last and only a larger timestamp is admitted.                *)

Counting ==
  /\ clock \in Nat /\ answers \in Nat /\ lifeFrom \in Nat
  /\ lifeFrom <= answers
  /\ fresh \in [last : Nat, required : BOOLEAN]

InitsInv ==
  /\ inits \subseteq [id : Nat, fresh : Nat]
  /\ \A m \in inits : 0 < m.id /\ m.id <= clock /\ m.fresh \in {0, m.id}
  /\ \A m, n \in inits : m.id = n.id => m.fresh = n.fresh

RespsInv ==
  /\ resps \subseteq [id : Nat, key : Nat]
  /\ \A r \in resps : r.id <= clock /\ r.key <= answers
  /\ \A r \in resps : r.key > lifeFrom /\ Timestamped(r.id) => r.id <= fresh.last
  /\ \A r, q \in resps :
       r.id = q.id /\ r.key > lifeFrom /\ q.key > lifeFrom /\ Timestamped(r.id) => r.key = q.key

HeldInv ==
  /\ replies \in Seq(resps)
  /\ lastReply # NoKeys => lastReply \in resps
  /\ \A s \in {dialCurrent, dialPrevious} : s # NoSession => Keys(s) \in resps
  /\ \A s \in {current, pending, previous} :
       s # NoSession => Keys(s) \in resps /\ s.key > lifeFrom

KeysInv == Counting /\ InitsInv /\ RespsInv /\ HeldInv

\* No handshake has been begun, so no keys disagree.
LEMMA InitKeys == Init => KeysInv
  BY DEF Init, KeysInv, Counting, InitsInv, RespsInv, HeldInv

\* A session whose age alone changed is still held under the same keys.
LEMMA OlderHeld ==
  ASSUME NEW s, NEW R, NEW k, s # NoSession => Keys(s) \in R /\ s.key > k
  PROVE  Older(s) # NoSession => Keys(Older(s)) \in R /\ Older(s).key > k
  BY OlderKeys DEF Keys

\* Every step keeps the numbering of handshakes and the keys bound to them.
LEMMA StepKeys == KeysInv /\ [Next]_vars => KeysInv'
<1> SUFFICES ASSUME KeysInv, [Next]_vars PROVE KeysInv'
  OBVIOUS
<1> USE DEF KeysInv
<1>1. CASE negotiate
  <2>1. \A n \in Nat : n <= clock => (Timestamped(n)' <=> Timestamped(n))
    BY <1>1 DEF negotiate, beginHandshakeFresh, Timestamped, Counting
  <2>2. Counting' /\ InitsInv'
    BY <1>1 DEF negotiate, beginHandshakeFresh, initPayload, Counting, InitsInv, bookVars, listenVars
  <2>3. RespsInv'
    BY <1>1, <2>1 DEF negotiate, RespsInv, Counting, bookVars, listenVars
  <2>4. HeldInv'
    BY <1>1 DEF negotiate, HeldInv, bookVars, listenVars
  <2> QED
    BY <2>2, <2>3, <2>4
<1>2. CASE installDialed
  <2>1. Head(replies) \in resps /\ Tail(replies) \in Seq(resps)
    BY <1>2 DEF installDialed, HeldInv
  <2>2. [id |-> attempt, key |-> Head(replies).key] \in resps
    BY <1>2, <2>1 DEF installDialed, RespsInv
  <2>3. HeldInv'
    BY <1>2, <2>1, <2>2 DEF installDialed, complete, HeldInv, newSession, Keys, netVars, listenVars
  <2>4. Counting' /\ InitsInv' /\ RespsInv'
    BY <1>2 DEF installDialed, Counting, InitsInv, RespsInv, Timestamped, netVars, listenVars
  <2> QED
    BY <2>3, <2>4
<1>3. ASSUME NEW m \in inits, NEW from, handleInit(m, from) PROVE KeysInv'
  <2> DEFINE r == [id |-> m.id, key |-> answers + 1]
  <2>1. Timestamped(m.id) => m.fresh = m.id /\ m.fresh # 0 /\ m.id > fresh.last /\ fresh'.last = m.id
    BY <1>3 DEF handleInit, Timestamped, InitsInv, admit, Counting
  <2>2. fresh'.last \in Nat /\ fresh.last <= fresh'.last /\ Counting'
    BY <1>3 DEF handleInit, dialVars, Counting, InitsInv, admit
  <2>3. InitsInv' /\ \A n : Timestamped(n)' <=> Timestamped(n)
    BY <1>3 DEF handleInit, InitsInv, Timestamped, dialVars
  <2>4. /\ resps' = resps \cup {r} /\ lifeFrom' = lifeFrom /\ answers' = answers + 1
        /\ clock' = clock
    BY <1>3 DEF handleInit, respondFresh, dialVars
  <2>5. \A q \in resps : q.id = m.id /\ q.key > lifeFrom /\ Timestamped(m.id) => FALSE
    BY <2>1 DEF RespsInv, Counting, InitsInv
  <2>6. /\ resps' \subseteq [id : Nat, key : Nat]
        /\ \A q \in resps' : q.id <= clock' /\ q.key <= answers'
    BY <2>4 DEF RespsInv, InitsInv, Counting
  <2>7. \A q \in resps' : q.key > lifeFrom' /\ Timestamped(q.id)' => q.id <= fresh'.last
    BY <2>1, <2>2, <2>3, <2>4 DEF RespsInv, InitsInv, Counting
  <2>8. \A p, q \in resps' :
          p.id = q.id /\ p.key > lifeFrom' /\ q.key > lifeFrom' /\ Timestamped(p.id)' => p.key = q.key
    BY <2>3, <2>4, <2>5 DEF RespsInv
  <2>9. HeldInv'
    <3>1. replies' \in Seq(resps')
      BY <1>3, <2>4 DEF handleInit, dialVars, HeldInv
    <3>2. Keys(pending') = r /\ pending'.key > lifeFrom /\ r \in resps' /\ lastReply' = r
      BY <1>3, <2>4 DEF handleInit, respondFresh, newSession, Keys, Counting
    <3> QED
      BY <1>3, <2>4, <3>1, <3>2 DEF handleInit, HeldInv, dialVars
  <2> QED
    BY <2>2, <2>3, <2>6, <2>7, <2>8, <2>9 DEF RespsInv
<1>4. ASSUME NEW m \in resps, handleResp(m) PROVE KeysInv'
  BY <1>4 DEF handleResp, Counting, InitsInv, RespsInv, HeldInv, Timestamped, listenVars, netVars, bookVars
<1>5. CASE StaleReply
  BY <1>5 DEF StaleReply, Counting, InitsInv, RespsInv, HeldInv, Timestamped, listenVars, netVars, bookVars
<1>6. CASE DialRetire \/ DialRestart
  <2>1. ASSUME DialRetire PROVE HeldInv'
    BY <2>1 DEF DialRetire, HeldInv, loopVars, listenVars, netVars, bookVars
  <2>2. ASSUME DialRestart PROVE HeldInv'
    <3>1. replies' \in Seq(resps')
      BY <2>2 DEF DialRestart
    <3> QED
      BY <2>2, <3>1 DEF DialRestart, HeldInv, listenVars, netVars
  <2>3. HeldInv'
    BY <1>6, <2>1, <2>2
  <2> QED
    BY <1>6, <2>3 DEF DialRetire, DialRestart, Counting, InitsInv, RespsInv, Timestamped, loopVars,
         listenVars, netVars, bookVars
<1>7. CASE ListenRestart
  BY <1>7 DEF ListenRestart, Counting, InitsInv, RespsInv, HeldInv, Timestamped, dialVars, netVars
<1>8. ASSUME NEW p, ListenReceive(p) PROVE KeysInv'
  BY <1>8 DEF ListenReceive, promote, Counting, InitsInv, RespsInv, HeldInv, Timestamped, dialVars, bookVars
<1>9. CASE retireSessions
  BY <1>9 DEF retireSessions, Counting, InitsInv, RespsInv, HeldInv, Timestamped, dialVars, netVars, bookVars
<1>10. CASE Tick
  <2>1. HeldInv'
    BY <1>10, OlderHeld, OlderKeys DEF Tick, HeldInv, loopVars, netVars, bookVars
  <2> QED
    BY <1>10, <2>1 DEF Tick, Counting, InitsInv, RespsInv, Timestamped, loopVars, netVars, bookVars
<1>11. ASSUME NEW m, handleInitAgain(m) PROVE KeysInv'
  <2>1. resps' = resps
    BY <1>11 DEF handleInitAgain, HeldInv
  <2> QED
    BY <1>11, <2>1 DEF handleInitAgain, Counting, InitsInv, RespsInv, HeldInv, Timestamped, dialVars,
         listenVars, bookVars
<1>12. CASE UNCHANGED <<dialCurrent, dialPrevious, replies, clock, current, pending, previous,
                        lastReply, fresh, inits, resps, answers, lifeFrom>>
  BY <1>12 DEF Counting, InitsInv, RespsInv, HeldInv, Timestamped
<1>13. ASSUME NEW m, handleInitStale(m) PROVE KeysInv'
  BY <1>13, <1>12 DEF handleInitStale, dialVars, netVars, bookVars
<1>14. ASSUME NEW p, DialReceive(p) \/ ListenSend(p) PROVE KeysInv'
  BY <1>14, <1>12 DEF DialReceive, ListenSend, dialVars, loopVars, listenVars, bookVars
<1>15. CASE \/ handshakeRetry \/ BackoffOver \/ LegacyOver \/ DialSend \/ DialProbe
            \/ DialRunAgain \/ Expire
  BY <1>15, <1>12 DEF handshakeRetry, BackoffOver, LegacyOver, DialSend, DialProbe, DialRunAgain,
       Expire, dialVars, loopVars, listenVars, netVars, bookVars
<1>16. UNCHANGED vars => KeysInv'
  BY <1>12 DEF vars, dialVars, listenVars, netVars, bookVars
<1> QED
  BY <1>1, <1>2, <1>3, <1>4, <1>5, <1>6, <1>7, <1>8, <1>9, <1>10, <1>11, <1>13, <1>14, <1>15, <1>16
  DEF Next

\* Whatever is resent, replayed or reordered, a timestamped handshake both ends
\* know has one set of keys as long as the listener's process lives.
THEOREM OneSetOfKeys == Spec => []KeysAgree
<1>1. KeysInv => KeysAgree
  BY DEF KeysInv, HeldInv, RespsInv, KeysAgree, DialHolds, ListenHolds, Keys
<1> QED
  BY InitKeys, StepKeys, <1>1, PTL DEF Spec

-----------------------------------------------------------------------------
(* DialledIsHeld.  The keys of the newest handshake lie at the listener in  *)
(* the pending slot, or in the current one with nothing pending, and their  *)
(* age there is the age the dialler counts: a round is over before the      *)
(* clock moves, and nothing older is admitted after it.                     *)

SessionTypes ==
  /\ {dialCurrent, dialPrevious, current, pending, previous} \subseteq [id : Nat, key : Nat, age : Nat]
  /\ attempt \in {0, clock}
  /\ fresh.last # 0 => fresh.required

HeldAt(r, a) ==
  \/ pending # NoSession /\ Keys(pending) = r /\ pending.age = a
  \/ pending = NoSession /\ current # NoSession /\ Keys(current) = r /\ current.age = a

Newest(r) == r.id = clock /\ r.key > lifeFrom /\ Timestamped(clock)

NewestHeld ==
  \A r \in resps : Newest(r) =>
    /\ attempt = clock => HeldAt(r, 0)
    /\ dialCurrent # NoSession /\ Keys(dialCurrent) = r /\ dialCurrent.age < rejectAfterTime
         => HeldAt(r, dialCurrent.age)

NewestInv == KeysInv /\ SessionTypes /\ NewestHeld

\* An age that is counted on.
LEMMA OlderAges ==
  ASSUME NEW s \in [id : Nat, key : Nat, age : Nat]
  PROVE  /\ Older(s) \in [id : Nat, key : Nat, age : Nat]
         /\ s = NoSession => Older(s) = NoSession
         /\ s # NoSession => Older(s) # NoSession \/ s.id = 0
         /\ s # NoSession => Older(s).age = s.age + 1
  BY DEF Older, NoSession

\* The head of a sequence is one of its elements.
LEMMA HeadIn ==
  ASSUME NEW S, NEW q \in Seq(S), q # <<>>
  PROVE  Head(q) \in S
  OBVIOUS

\* Both ends begin without sessions.
LEMMA InitTypes == Init => SessionTypes
  BY DEF Init, SessionTypes, NoSession

\* Sessions keep their shape, a round is about the last handshake, and what
\* has accepted a timestamp wants one.
LEMMA StepTypes == KeysInv /\ SessionTypes /\ [Next]_vars => SessionTypes'
<1> SUFFICES ASSUME KeysInv, SessionTypes, [Next]_vars PROVE SessionTypes'
  OBVIOUS
<1> USE DEF SessionTypes
<1>0. NoSession \in [id : Nat, key : Nat, age : Nat] BY DEF NoSession
<1>1. CASE negotiate BY <1>1 DEF negotiate, listenVars
<1>2. CASE installDialed
  <2>1. replies \in Seq(resps) /\ replies # <<>>
    BY <1>2 DEF installDialed, KeysInv, HeldInv
  <2>2. Head(replies) \in resps
    BY <2>1, HeadIn
  <2>3. complete(Head(replies)) \in [id : Nat, key : Nat, age : Nat]
    BY <2>2 DEF complete, newSession, KeysInv, RespsInv, Counting
  <2> QED BY <1>2, <2>3 DEF installDialed, listenVars
<1>3. ASSUME NEW m \in inits, NEW from, handleInit(m, from) PROVE SessionTypes'
  <2>1. pending' \in [id : Nat, key : Nat, age : Nat]
    BY <1>3 DEF handleInit, newSession, respondFresh, KeysInv, InitsInv, Counting
  <2>2. fresh'.last # 0 => fresh'.required BY <1>3 DEF handleInit
  <2> QED BY <1>3, <2>1, <2>2 DEF handleInit, dialVars
<1>4. CASE DialRetire BY <1>0, <1>4 DEF DialRetire, loopVars, listenVars
<1>5. CASE DialRestart BY <1>0, <1>5 DEF DialRestart, listenVars
<1>6. CASE ListenRestart BY <1>0, <1>6 DEF ListenRestart, dialVars
<1>7. ASSUME NEW p, ListenReceive(p) PROVE SessionTypes'
  BY <1>0, <1>7 DEF ListenReceive, promote, dialVars
<1>8. CASE retireSessions BY <1>0, <1>8 DEF retireSessions, dialVars
<1>9. CASE Tick
  <2>1. \A s \in {dialCurrent, dialPrevious, current, pending, previous} :
          Older(s) \in [id : Nat, key : Nat, age : Nat]
    BY OlderAges
  <2> QED BY <1>9, <2>1 DEF Tick, loopVars
<1>10. CASE handshakeRetry \/ StaleReply \/ DialRunAgain
  BY <1>10 DEF handshakeRetry, StaleReply, SendAgain, GiveUp, DialRunAgain, listenVars
<1>11. CASE UNCHANGED <<dialCurrent, dialPrevious, current, pending, previous, attempt, clock, fresh>>
  BY <1>11
<1>12. ASSUME NEW m, handleResp(m) \/ handleInitAgain(m) \/ handleInitStale(m) PROVE SessionTypes'
  BY <1>11, <1>12 DEF handleResp, handleInitAgain, handleInitStale, dialVars, listenVars
<1>13. ASSUME NEW p, DialReceive(p) \/ ListenSend(p) PROVE SessionTypes'
  BY <1>11, <1>13 DEF DialReceive, ListenSend, dialVars, loopVars, listenVars
<1>14. CASE BackoffOver \/ LegacyOver \/ DialSend \/ DialProbe \/ Expire
  BY <1>11, <1>14 DEF BackoffOver, LegacyOver, DialSend, DialProbe, Expire, dialVars, loopVars, listenVars
<1>15. CASE UNCHANGED vars BY <1>11, <1>15 DEF vars, dialVars, listenVars
<1> QED
  BY <1>1, <1>2, <1>3, <1>4, <1>5, <1>6, <1>7, <1>8, <1>9, <1>10, <1>12, <1>13, <1>14, <1>15
  DEF Next

\* Once the newest handshake is answered the listener takes no other first
\* message for new, be it old, resent or without a timestamp.
LEMMA NothingNewer ==
  ASSUME KeysInv, SessionTypes, NEW r \in resps, Newest(r), NEW m \in inits
  PROVE  ~admit(m.fresh)
<1>1. clock \in Nat /\ fresh.last \in Nat /\ m.id \in Nat /\ m.fresh \in Nat
  BY DEF KeysInv, Counting, InitsInv
<1>2. clock <= fresh.last BY DEF KeysInv, RespsInv, Newest
<1>3. m.id <= clock /\ m.fresh \in {0, m.id} /\ clock # 0
  BY <1>1 DEF KeysInv, InitsInv
<1>4. fresh.required BY <1>1, <1>2, <1>3 DEF SessionTypes
<1>5. CASE m.fresh = 0 BY <1>4, <1>5 DEF admit
<1>6. CASE m.fresh # 0
  <2>1. ~(m.fresh > fresh.last) BY <1>1, <1>2, <1>3, <1>6
  <2> QED BY <1>6, <2>1 DEF admit
<1> QED BY <1>5, <1>6

\* A step that changes neither clock nor answers leaves the newest as it was.
LEMMA StepNewest == NewestInv /\ [Next]_vars => NewestHeld'
<1> SUFFICES ASSUME NewestInv, [Next]_vars PROVE NewestHeld'
  OBVIOUS
<1>0. KeysInv /\ SessionTypes /\ NewestHeld BY DEF NewestInv
<1>a. clock \in Nat /\ attempt \in {0, clock} /\ ~Timestamped(0)
  BY <1>0 DEF KeysInv, Counting, SessionTypes, Timestamped, InitsInv
<1>1. CASE negotiate
  <2>1. \A r \in resps : r.id # clock + 1 BY <1>0, <1>a DEF KeysInv, RespsInv
  <2>2. resps' = resps /\ clock' = clock + 1 BY <1>1 DEF negotiate
  <2> QED BY <2>1, <2>2 DEF NewestHeld, Newest
<1>2. CASE installDialed
  <2>1. PICK q \in resps : q = Head(replies) BY <1>0, <1>2 DEF installDialed, KeysInv, HeldInv
  <2>2. /\ attempt = clock /\ q.id = clock /\ dialCurrent' = newSession(clock, q.key)
        /\ attempt' = 0 /\ UNCHANGED <<clock, lifeFrom, inits, resps, pending, current>>
    BY <1>a, <1>2, <2>1 DEF installDialed, complete, netVars, listenVars
  <2>3. \A r : Newest(r)' <=> Newest(r) BY <2>2 DEF Newest, Timestamped
  <2>4. \A r, a : HeldAt(r, a)' <=> HeldAt(r, a) BY <2>2 DEF HeldAt
  <2>5. Keys(dialCurrent') = [id |-> clock, key |-> q.key] /\ dialCurrent'.age = 0
    BY <2>2 DEF newSession, Keys
  <2>6. \A r \in resps : Newest(r) => HeldAt(r, 0) BY <1>0, <2>2 DEF NewestHeld
  <2> QED BY <2>2, <2>3, <2>4, <2>5, <2>6 DEF NewestHeld
<1>3. ASSUME NEW m \in inits, NEW from \in {Home, Away}, handleInit(m, from) PROVE NewestHeld'
  <2>0. PICK q : q = [id |-> m.id, key |-> answers + 1] OBVIOUS
  <2>1. /\ resps' = resps \cup {q} /\ pending' = [id |-> m.id, key |-> answers + 1, age |-> 0]
        /\ UNCHANGED <<clock, attempt, dialCurrent, lifeFrom, inits>> /\ admit(m.fresh)
    BY <1>3, <2>0 DEF handleInit, respondFresh, newSession, dialVars
  <2>2. \A r : Newest(r)' <=> Newest(r) BY <2>1 DEF Newest, Timestamped
  <2>3. \A r \in resps : ~Newest(r) BY <1>0, <2>1, NothingNewer
  <2>4. HeldAt(q, 0)'
    <3>1. pending' # NoSession BY <1>0, <2>1 DEF NoSession, KeysInv, InitsInv
    <3>2. Keys(pending') = q /\ pending'.age = 0 BY <2>0, <2>1 DEF Keys
    <3> QED BY <3>1, <3>2 DEF HeldAt
  <2>5. dialCurrent # NoSession => Keys(dialCurrent) # q
    BY <1>0, <2>0 DEF KeysInv, HeldInv, RespsInv, Counting
  <2> QED BY <2>1, <2>2, <2>3, <2>4, <2>5 DEF NewestHeld
<1>4. ASSUME NEW p \in toListen, ListenReceive(p) PROVE NewestHeld'
  <2>1. UNCHANGED <<clock, attempt, dialCurrent, lifeFrom, inits, resps>>
    BY <1>4 DEF ListenReceive, dialVars, bookVars
  <2>2. \A r : Newest(r)' <=> Newest(r) BY <2>1 DEF Newest, Timestamped
  <2>3. \A r, a : HeldAt(r, a) => HeldAt(r, a)'
    <3>1. \/ UNCHANGED <<current, pending>>
          \/ pending # NoSession /\ current' = pending /\ pending' = NoSession
      BY <1>4 DEF ListenReceive, promote
    <3> QED BY <3>1 DEF HeldAt
  <2> QED BY <1>0, <2>1, <2>2, <2>3 DEF NewestHeld
<1>5. CASE retireSessions
  <2>1. UNCHANGED <<clock, attempt, dialCurrent, lifeFrom, inits, resps>>
    BY <1>5 DEF retireSessions, dialVars, netVars, bookVars
  <2>2. \A r : Newest(r)' <=> Newest(r) BY <2>1 DEF Newest, Timestamped
  <2>3. rejectAfterTime \in Nat \ {0} BY L3Assumption
  <2>4. \A r, a : a < rejectAfterTime /\ HeldAt(r, a) => HeldAt(r, a)'
    <3>1. pending.age \in Nat /\ current.age \in Nat BY <1>0 DEF SessionTypes
    <3>2. /\ pending' = IF expired(pending) THEN NoSession ELSE pending
          /\ current' = IF expired(current) THEN NoSession ELSE current
      BY <1>5 DEF retireSessions
    <3>3. \A a : a < rejectAfterTime => (pending.age = a => ~expired(pending)) /\ (current.age = a => ~expired(current))
      BY <2>3, <3>1 DEF expired
    <3>4. pending = NoSession => ~expired(pending) BY DEF expired
    <3> QED BY <3>2, <3>3, <3>4 DEF HeldAt
  <2>5. 0 < rejectAfterTime BY <2>3
  <2> QED BY <1>0, <2>1, <2>2, <2>4, <2>5 DEF NewestHeld
<1>6. CASE Tick
  <2>1. /\ UNCHANGED <<clock, attempt, lifeFrom, inits, resps>> /\ attempt = 0
        /\ dialCurrent' = Older(dialCurrent) /\ pending' = Older(pending) /\ current' = Older(current)
    BY <1>6 DEF Tick, loopVars, netVars, bookVars
  <2>2. \A r : Newest(r)' <=> Newest(r) BY <2>1 DEF Newest, Timestamped
  <2>3. {dialCurrent, pending, current} \subseteq [id : Nat, key : Nat, age : Nat] BY <1>0 DEF SessionTypes
  <2>4. \A r \in resps : \A a \in Nat : Newest(r) /\ HeldAt(r, a) => HeldAt(r, a + 1)'
    <3> SUFFICES ASSUME NEW r \in resps, NEW a \in Nat, Newest(r), HeldAt(r, a) PROVE HeldAt(r, a + 1)'
      OBVIOUS
    <3>1. r.id # 0 BY <1>a DEF Newest
    <3>2. CASE pending # NoSession /\ Keys(pending) = r /\ pending.age = a
      <4>1. pending.id # 0 BY <3>1, <3>2 DEF Keys
      <4> QED BY <2>1, <2>3, <3>2, <4>1, OlderAges, OlderKeys DEF HeldAt
    <3>3. CASE pending = NoSession /\ current # NoSession /\ Keys(current) = r /\ current.age = a
      <4>1. current.id # 0 BY <3>1, <3>3 DEF Keys
      <4> QED BY <2>1, <2>3, <3>3, <4>1, OlderAges, OlderKeys DEF HeldAt
    <3> QED BY <3>2, <3>3 DEF HeldAt
  <2>5. ASSUME NEW r \in resps, Newest(r), dialCurrent' # NoSession, Keys(dialCurrent') = r,
               dialCurrent'.age < rejectAfterTime
        PROVE  \E b : HeldAt(r, b)' /\ dialCurrent'.age = b
    <3>1. dialCurrent # NoSession /\ Keys(dialCurrent) = r BY <2>1, <2>5, OlderKeys
    <3>2. dialCurrent'.age = dialCurrent.age + 1 /\ dialCurrent.age \in Nat BY <2>1, <2>3, <3>1, OlderAges
    <3>3. dialCurrent.age < rejectAfterTime BY <2>5, <3>2, L3Assumption
    <3>4. HeldAt(r, dialCurrent.age) BY <1>0, <2>5, <3>1, <3>3 DEF NewestHeld
    <3>5. PICK a \in Nat : a = dialCurrent.age BY <3>2
    <3>6. HeldAt(r, a + 1)' BY <2>4, <2>5, <3>4, <3>5
    <3> QED BY <3>2, <3>5, <3>6
  <2>6. \A r : Newest(r) => attempt' # clock'
    BY <1>a, <2>1 DEF Newest
  <2>7. ASSUME NEW r \in resps, Newest(r), dialCurrent' # NoSession, Keys(dialCurrent') = r,
               dialCurrent'.age < rejectAfterTime
        PROVE  HeldAt(r, dialCurrent.age)'
    BY <2>5, <2>7
  <2> QED BY <2>1, <2>2, <2>6, <2>7 DEF NewestHeld
<1>7. CASE ListenRestart
  <2>1. \A r \in resps : ~(r.key > answers) BY <1>0 DEF KeysInv, RespsInv, Counting
  <2>2. resps' = resps /\ lifeFrom' = answers BY <1>7 DEF ListenRestart, netVars
  <2> QED BY <2>1, <2>2 DEF NewestHeld, Newest
<1>8. ASSUME UNCHANGED <<clock, lifeFrom, inits, resps, pending, current>>,
             attempt' \in {attempt, 0}, dialCurrent' \in {dialCurrent, NoSession}
      PROVE  NewestHeld'
  <2>1. \A r : Newest(r)' <=> Newest(r) BY <1>8 DEF Newest, Timestamped
  <2>2. \A r, a : HeldAt(r, a)' <=> HeldAt(r, a) BY <1>8 DEF HeldAt
  <2>3. \A r : Newest(r) => clock # 0 BY <1>a DEF Newest
  <2> QED BY <1>0, <1>8, <2>1, <2>2, <2>3 DEF NewestHeld
<1>9. CASE handshakeRetry \/ StaleReply \/ DialRunAgain \/ DialRetire \/ DialRestart
  BY <1>8, <1>9 DEF handshakeRetry, StaleReply, SendAgain, GiveUp, DialRunAgain, DialRetire, DialRestart,
       loopVars, listenVars, netVars, bookVars
<1>10. ASSUME NEW m, handleResp(m) \/ handleInitStale(m) PROVE NewestHeld'
  BY <1>8, <1>10 DEF handleResp, handleInitStale, dialVars, listenVars, netVars, bookVars
<1>11. ASSUME NEW m, handleInitAgain(m) PROVE NewestHeld'
  <2>1. resps' = resps BY <1>0, <1>11 DEF handleInitAgain, KeysInv, HeldInv
  <2> QED BY <1>8, <1>11, <2>1 DEF handleInitAgain, dialVars, listenVars, bookVars
<1>12. ASSUME NEW p, DialReceive(p) \/ ListenSend(p) PROVE NewestHeld'
  BY <1>8, <1>12 DEF DialReceive, ListenSend, dialVars, loopVars, listenVars, bookVars
<1>13. CASE BackoffOver \/ LegacyOver \/ DialSend \/ DialProbe \/ Expire
  BY <1>8, <1>13 DEF BackoffOver, LegacyOver, DialSend, DialProbe, Expire, dialVars, loopVars, listenVars,
       netVars, bookVars
<1>14. CASE UNCHANGED vars BY <1>8, <1>14 DEF vars, dialVars, listenVars, netVars, bookVars
<1> QED
  BY <1>1, <1>2, <1>3, <1>4, <1>5, <1>6, <1>7, <1>9, <1>10, <1>11, <1>12, <1>13, <1>14
  DEF Next

\* What the dialler seals under in its newest session the listener can open,
\* for every bound, memory and set of ages.
THEOREM DialledHeld == Spec => []DialledIsHeld
<1>1. Init => NewestInv
  BY InitKeys, InitTypes DEF Init, NewestInv, NewestHeld
<1>2. NewestInv /\ [Next]_vars => NewestInv'
  BY StepKeys, StepTypes, StepNewest DEF NewestInv
<1>3. NewestInv => DialledIsHeld
  <2> SUFFICES ASSUME NewestInv, dialCurrent # NoSession, dialCurrent.age < rejectAfterTime,
                      dialCurrent.key > lifeFrom, clock = dialCurrent.id, Timestamped(clock)
               PROVE  Keys(dialCurrent) \in ListenHolds
    BY DEF DialledIsHeld
  <2>1. PICK r \in resps : r = Keys(dialCurrent) BY DEF NewestInv, KeysInv, HeldInv
  <2>2. Newest(r) BY <2>1 DEF Newest, Keys
  <2>3. HeldAt(r, dialCurrent.age) BY <2>1, <2>2 DEF NewestInv, NewestHeld
  <2> QED BY <2>1, <2>3 DEF HeldAt, ListenHolds
<1> QED BY <1>1, <1>2, <1>3, PTL DEF Spec

-----------------------------------------------------------------------------
(* NewestWins.  Handshakes without a timestamp are the older ones, every    *)
(* answer is to a handshake that was begun, and the last timestamp accepted *)
(* is one of them: so it bounds whatever the listener holds.                *)

OrderInv ==
  /\ legacy => \A m \in inits : m.fresh = 0
  /\ \A m, n \in inits : m.fresh = 0 /\ n.fresh # 0 => m.id < n.id
  /\ \A r \in resps : \E m \in inits : m.id = r.id
  /\ fresh.required => \E n \in inits : n.fresh = fresh.last /\ n.fresh # 0

\* There is nothing to be out of order.
LEMMA InitOrder == Init => OrderInv
  BY DEF Init, OrderInv

\* The dialler never goes back to handshakes without timestamps.
LEMMA StepOrder == KeysInv /\ OrderInv /\ [Next]_vars => OrderInv'
<1> SUFFICES ASSUME KeysInv, OrderInv, [Next]_vars PROVE OrderInv'
  OBVIOUS
<1> USE DEF OrderInv
<1>1. CASE negotiate
  <2>1. PICK q : q = beginHandshakeFresh(clock + 1) OBVIOUS
  <2>2. /\ inits' = inits \cup {q} /\ q.id = clock + 1 /\ q.fresh = (IF legacy THEN 0 ELSE clock + 1)
        /\ UNCHANGED <<legacy, resps, fresh>>
    BY <1>1, <2>1 DEF negotiate, beginHandshakeFresh, initPayload, listenVars
  <2>3. clock \in Nat /\ \A m \in inits : m.id \in Nat /\ m.id <= clock
    BY DEF KeysInv, Counting, InitsInv
  <2>4. \A m \in inits : m.id < q.id BY <2>2, <2>3
  <2>5. \A m, n \in inits' : m.fresh = 0 /\ n.fresh # 0 => m.id < n.id
    <3>1. CASE legacy BY <2>2, <3>1
    <3>2. CASE ~legacy
      <4>1. q.fresh # 0 BY <2>2, <2>3, <3>2
      <4> QED BY <2>2, <2>4, <4>1
    <3> QED BY <3>1, <3>2
  <2> QED BY <2>2, <2>5
<1>2. CASE LegacyOver BY <1>2 DEF LegacyOver, listenVars, netVars
<1>3. CASE DialRestart BY <1>3 DEF DialRestart, listenVars, netVars
<1>4. ASSUME NEW m \in inits, NEW from, handleInit(m, from) PROVE OrderInv'
  BY <1>4 DEF handleInit, respondFresh, dialVars
<1>5. CASE ListenRestart BY <1>5 DEF ListenRestart, dialVars, netVars
<1>6. CASE UNCHANGED <<legacy, inits, resps, fresh>> BY <1>6
<1>7. ASSUME NEW m, handleInitAgain(m) PROVE OrderInv'
  <2>1. resps' = resps BY <1>7 DEF handleInitAgain, KeysInv, HeldInv
  <2> QED BY <1>6, <1>7, <2>1 DEF handleInitAgain, dialVars, listenVars
<1>8. ASSUME NEW m, handleResp(m) \/ handleInitStale(m) PROVE OrderInv'
  BY <1>6, <1>8 DEF handleResp, handleInitStale, dialVars, listenVars, netVars
<1>9. ASSUME NEW p, DialReceive(p) \/ ListenSend(p) \/ ListenReceive(p) PROVE OrderInv'
  BY <1>6, <1>9 DEF DialReceive, ListenSend, ListenReceive, dialVars, loopVars, listenVars
<1>10. CASE handshakeRetry \/ StaleReply \/ installDialed \/ BackoffOver \/ DialSend \/ DialProbe \/ DialRetire
            \/ DialRunAgain \/ Expire \/ retireSessions \/ Tick
  BY <1>6, <1>10 DEF handshakeRetry, StaleReply, installDialed, BackoffOver, DialSend, DialProbe, DialRetire,
       DialRunAgain, Expire, retireSessions, Tick, dialVars, loopVars, listenVars, netVars
<1>11. CASE UNCHANGED vars BY <1>6, <1>11 DEF vars, dialVars, listenVars, netVars
<1> QED BY <1>1, <1>2, <1>3, <1>4, <1>5, <1>7, <1>8, <1>9, <1>10, <1>11 DEF Next

\* Everything the listener holds is at most as new as the last timestamp.
LEMMA LastBoundsHeld ==
  ASSUME KeysInv, OrderInv, fresh.required, NEW l \in ListenHolds
  PROVE  l.id <= fresh.last /\ l.id \in Nat
<1>1. l \in resps /\ l.key > lifeFrom
  BY DEF ListenHolds, KeysInv, HeldInv, Keys
<1>2. PICK m \in inits : m.id = l.id BY <1>1 DEF OrderInv
<1>3. PICK n \in inits : n.fresh = fresh.last /\ n.fresh # 0 BY DEF OrderInv
<1>4. m.id \in Nat /\ n.id \in Nat /\ fresh.last \in Nat /\ n.fresh = n.id
  BY <1>3 DEF KeysInv, InitsInv, Counting
<1>5. CASE m.fresh = 0 BY <1>2, <1>3, <1>4, <1>5 DEF OrderInv
<1>6. CASE m.fresh # 0
  <2>1. Timestamped(l.id) BY <1>2, <1>6 DEF Timestamped
  <2> QED BY <1>1, <1>2, <1>4, <2>1 DEF KeysInv, RespsInv
<1> QED BY <1>5, <1>6

\* No late, duplicated or replayed first message displaces the pending session
\* once a timestamp has been accepted.
THEOREM NewestFirst == Spec => NewestWins
<1> DEFINE A == fresh.required /\ pending' # NoSession /\ Keys(pending') # Keys(pending)
                  => \A l \in ListenHolds : pending'.id > l.id
<1>1. Init => KeysInv /\ OrderInv BY InitKeys, InitOrder
<1>2. (KeysInv /\ OrderInv) /\ [Next]_vars => (KeysInv /\ OrderInv)' BY StepKeys, StepOrder
<1>3. KeysInv /\ OrderInv /\ [Next]_vars => [A]_vars
  <2> SUFFICES ASSUME KeysInv, OrderInv, [Next]_vars, fresh.required, pending' # NoSession,
                      Keys(pending') # Keys(pending), NEW l \in ListenHolds
               PROVE  pending'.id > l.id
    OBVIOUS
  <2>1. ASSUME NEW m \in inits, NEW from, handleInit(m, from) PROVE pending'.id > l.id
    <3>1. pending'.id = m.id BY <2>1 DEF handleInit, newSession
    <3>2. m.fresh # 0 /\ m.fresh > fresh.last BY <2>1 DEF handleInit, admit
    <3>3. m.fresh = m.id /\ m.id \in Nat /\ fresh.last \in Nat BY <3>2 DEF KeysInv, InitsInv, Counting
    <3>4. l.id <= fresh.last /\ l.id \in Nat BY LastBoundsHeld
    <3> QED BY <3>1, <3>2, <3>3, <3>4
  <2>2. CASE pending' \in {pending, NoSession, Older(pending)} BY <2>2, OlderKeys
  <2>3. ASSUME NEW p, DialReceive(p) \/ ListenSend(p) \/ ListenReceive(p) PROVE pending' \in {pending, NoSession}
    BY <2>3 DEF DialReceive, ListenSend, ListenReceive, promote, listenVars
  <2>4. ASSUME NEW m, handleResp(m) \/ handleInitAgain(m) \/ handleInitStale(m) PROVE pending' = pending
    BY <2>4 DEF handleResp, handleInitAgain, handleInitStale, listenVars
  <2>5. CASE \/ negotiate \/ handshakeRetry \/ StaleReply \/ installDialed
             \/ BackoffOver \/ LegacyOver \/ DialSend \/ DialProbe \/ DialRetire
             \/ DialRunAgain \/ DialRestart \/ Expire
    BY <2>5 DEF negotiate, handshakeRetry, StaleReply, installDialed, BackoffOver, LegacyOver,
         DialSend, DialProbe, DialRetire, DialRunAgain, DialRestart, Expire, listenVars
  <2>6. CASE retireSessions \/ ListenRestart \/ Tick
    BY <2>2, <2>6 DEF retireSessions, ListenRestart, Tick
  <2>7. CASE UNCHANGED vars BY <2>2, <2>7 DEF vars, listenVars
  <2> QED BY <2>1, <2>2, <2>3, <2>4, <2>5, <2>6, <2>7 DEF Next
<1>4. NewestWins <=> [][A]_vars BY DEF NewestWins
<1> HIDE DEF A
<1> QED BY <1>1, <1>2, <1>3, <1>4, PTL DEF Spec

-----------------------------------------------------------------------------
(* Types.  They are inductive as they stand, in four groups that few steps  *)
(* touch together: a step that sends, sends what a type already bounds, and *)
(* what ages is dropped before it can pass its last age.                    *)

DialTypes ==
  /\ dialCurrent \in Sessions /\ dialPrevious \in Sessions
  /\ dialPrevFrom \in 0 .. previousGrace + 1
  /\ unanswered \in -1 .. peerSilentAfter

LoopTypes ==
  /\ attempt \in Attempts /\ clock \in Attempts
  /\ tries \in 0 .. handshakeAttempts - 1
  /\ replies \in Seq(KeySets) /\ Len(replies) <= replyBuffer
  /\ backoff \in BOOLEAN /\ silentRekey \in BOOLEAN /\ legacy \in BOOLEAN

ListenTypes ==
  /\ current \in Sessions /\ pending \in Sessions /\ previous \in Sessions
  /\ prevFrom \in 0 .. previousGrace + 1
  /\ lastReply \in KeySets \cup {NoKeys}
  /\ seenInits \in Seq(1 .. MaxAttempts) /\ Len(seenInits) <= initMemory
  /\ fresh \in [last : Attempts, required : BOOLEAN]
  /\ peer \in {Home, Away, Nowhere}

CarrierTypes ==
  /\ inits \subseteq [id : 1 .. MaxAttempts, fresh : Attempts]
  /\ resps \subseteq KeySets /\ installed \subseteq KeySets /\ toListen \subseteq KeySets
  /\ toDial \subseteq [kind : {"data", "probe"}, keys : KeySets]
  /\ answers \in 0 .. MaxAnswers /\ lifeFrom \in 0 .. MaxAnswers
  /\ restarts \in 0 .. MaxRestarts

L3Types == DialTypes /\ LoopTypes /\ ListenTypes /\ CarrierTypes

LEMMA TypesAre == L3Types => TypeOK
  BY DEF L3Types, DialTypes, LoopTypes, ListenTypes, CarrierTypes, TypeOK

\* The constants are numbers, in their order.
LEMMA L3Constants ==
  /\ initMemory \in Nat \ {0} /\ handshakeAttempts \in Nat \ {0} /\ replyBuffer \in Nat \ {0}
  /\ peerSilentAfter \in Nat \ {0} /\ rejectAfterTime \in Nat \ {0}
  /\ MaxAttempts \in Nat \ {0} /\ MaxAnswers \in Nat \ {0}
  /\ previousGrace \in Nat /\ MaxRestarts \in Nat /\ StartsLegacy \subseteq BOOLEAN
  BY L3Assumption

\* What is sealed under a session that is held carries proper keys.
LEMMA SessionKeys ==
  ASSUME NEW s \in Sessions, s # NoSession
  PROVE  Keys(s) \in KeySets
  BY DEF Sessions, KeySets, Keys

\* A session that has not expired can age by one.
LEMMA SessionAges ==
  ASSUME NEW s \in Sessions, ~expired(s)
  PROVE  Older(s) \in Sessions
<1>1. CASE s = NoSession BY <1>1 DEF Older
<1>2. CASE s # NoSession
  <2>1. s \in [id : 1 .. MaxAttempts, key : 1 .. MaxAnswers, age : 0 .. rejectAfterTime]
    BY <1>2 DEF Sessions
  <2>2. s.age + 1 \in 0 .. rejectAfterTime
    BY <1>2, <2>1, L3Constants DEF expired
  <2>3. Older(s) = [s EXCEPT !.age = s.age + 1]
    BY <1>2 DEF Older
  <2> QED BY <2>1, <2>2, <2>3 DEF Sessions
<1> QED BY <1>1, <1>2

\* A completed handshake is a session of age zero.
LEMMA SessionBegins ==
  ASSUME NEW i \in 1 .. MaxAttempts, NEW k \in 1 .. MaxAnswers
  PROVE  newSession(i, k) \in Sessions
<1>1. 0 \in 0 .. rejectAfterTime BY L3Constants
<1> QED BY <1>1 DEF newSession, Sessions

\* What opens a packet is a session that is held, so the packet's keys are proper.
LEMMA OpenedKeys ==
  ASSUME NEW p, NEW cur \in Sessions, NEW pend \in Sessions, NEW prev \in Sessions,
         Opens(p, cur, pend, prev)
  PROVE  p \in KeySets
<1>1. sessionFor(p, cur, pend, prev) \in Sessions BY DEF sessionFor, Sessions
<1> QED BY <1>1, SessionKeys DEF Opens

LEMMA InitL3Types == Init => L3Types
<1> SUFFICES ASSUME Init PROVE L3Types
  OBVIOUS
<1>1. NoSession \in Sessions BY DEF Sessions
<1>2. DialTypes BY <1>1, L3Constants DEF Init, DialTypes
<1>3. LoopTypes
  <2>1. replies \in Seq(KeySets) /\ Len(replies) = 0 BY DEF Init
  <2>2. backoff \in BOOLEAN /\ silentRekey \in BOOLEAN /\ legacy \in BOOLEAN
    BY L3Constants, Zenon DEF Init
  <2>3. attempt \in Attempts /\ clock \in Attempts /\ tries \in 0 .. handshakeAttempts - 1
    BY L3Constants DEF Init, Attempts
  <2>4. Len(replies) <= replyBuffer BY <2>1, L3Constants
  <2> QED BY <2>1, <2>2, <2>3, <2>4 DEF LoopTypes
<1>4. ListenTypes
  <2>1. seenInits \in Seq(1 .. MaxAttempts) /\ Len(seenInits) = 0 BY DEF Init
  <2> QED BY <1>1, <2>1, L3Constants DEF Init, ListenTypes, Attempts
<1>5. CarrierTypes BY L3Constants DEF Init, CarrierTypes
<1> QED BY <1>2, <1>3, <1>4, <1>5 DEF L3Types

\* A group that a step leaves alone.
LEMMA DialStays == DialTypes /\ UNCHANGED <<dialCurrent, dialPrevious, dialPrevFrom, unanswered>> => DialTypes'
  BY DEF DialTypes
LEMMA LoopStays == LoopTypes /\ UNCHANGED loopVars => LoopTypes'
  BY DEF LoopTypes, loopVars
LEMMA ListenStays == ListenTypes /\ UNCHANGED listenVars => ListenTypes'
  BY DEF ListenTypes, listenVars
LEMMA CarrierStays == CarrierTypes /\ UNCHANGED <<netVars, bookVars>> => CarrierTypes'
  BY DEF CarrierTypes, netVars, bookVars

\* Another send leaves a round a smaller number of sends, or none.
LEMMA SendAgainTypes ==
  ASSUME LoopTypes, SendAgain
  PROVE  attempt' \in Attempts /\ tries' \in 0 .. handshakeAttempts - 1 /\ backoff' \in BOOLEAN
<1>1. 0 \in Attempts /\ 0 \in 0 .. handshakeAttempts - 1 BY L3Constants DEF Attempts
<1>2. CASE tries > 0 /\ tries' = tries - 1 /\ UNCHANGED <<attempt, backoff>>
  BY <1>2, L3Constants DEF LoopTypes
<1>3. CASE GiveUp BY <1>1, <1>3 DEF GiveUp
<1> QED BY <1>2, <1>3 DEF SendAgain

\* The steps of the dialler's handshake loop.
LEMMA LoopStepTypes ==
  ASSUME L3Types, \/ negotiate \/ handshakeRetry \/ StaleReply \/ installDialed
                  \/ BackoffOver \/ LegacyOver \/ DialRunAgain \/ \E m \in resps : handleResp(m)
  PROVE  L3Types'
<1>0. DialTypes /\ LoopTypes /\ ListenTypes /\ CarrierTypes BY DEF L3Types
<1>a. 0 \in Attempts /\ 0 \in 0 .. handshakeAttempts - 1 BY L3Constants DEF Attempts
<1>b. replies # <<>> => /\ Head(replies) \in KeySets
                        /\ Tail(replies) \in Seq(KeySets) /\ Len(Tail(replies)) <= replyBuffer
  BY <1>0, L3Constants DEF LoopTypes
<1>1. CASE negotiate
  <2>1. clock + 1 \in 1 .. MaxAttempts /\ clock + 1 \in Attempts
    BY <1>0, <1>1, L3Constants DEF negotiate, LoopTypes, Attempts
  <2>2. LoopTypes'
    <3>1. replies' \in Seq(KeySets) /\ Len(replies') = 0 BY <1>1 DEF negotiate
    <3>2. handshakeAttempts - 1 \in 0 .. handshakeAttempts - 1 BY L3Constants
    <3>3. silentRekey' \in BOOLEAN BY <1>0, <1>1 DEF negotiate, LoopTypes
    <3> QED BY <1>0, <1>1, <2>1, <3>1, <3>2, <3>3, L3Constants DEF negotiate, LoopTypes
  <2>3. DialTypes'
    <3>1. unanswered' \in -1 .. peerSilentAfter BY <1>0, <1>1, L3Constants DEF negotiate, DialTypes
    <3> QED BY <1>0, <1>1, <3>1 DEF negotiate, DialTypes
  <2>4. CarrierTypes'
    <3>1. beginHandshakeFresh(clock + 1) \in [id : 1 .. MaxAttempts, fresh : Attempts]
      BY <1>a, <2>1 DEF beginHandshakeFresh, initPayload
    <3> QED BY <1>0, <1>1, <3>1 DEF negotiate, CarrierTypes, bookVars
  <2> QED BY <1>0, <1>1, <2>2, <2>3, <2>4, ListenStays DEF negotiate, L3Types
<1>2. CASE handshakeRetry \/ StaleReply
  <2>1. SendAgain /\ UNCHANGED <<dialCurrent, dialPrevious, dialPrevFrom, unanswered, silentRekey,
                                 clock, legacy, listenVars, netVars, bookVars>>
        /\ (replies' = replies \/ (replies # <<>> /\ replies' = Tail(replies)))
    BY <1>2 DEF handshakeRetry, StaleReply
  <2>2. LoopTypes' BY <1>0, <1>b, <2>1, SendAgainTypes DEF LoopTypes
  <2> QED BY <1>0, <2>1, <2>2, DialStays, ListenStays, CarrierStays DEF L3Types
<1>3. CASE installDialed
  <2> DEFINE r == Head(replies)
  <2>1. attempt \in 1 .. MaxAttempts /\ r \in KeySets
    BY <1>0, <1>b, <1>3, L3Constants DEF installDialed, LoopTypes, Attempts
  <2>2. complete(r) \in Sessions /\ [id |-> attempt, key |-> r.key] \in KeySets
    BY <2>1, SessionBegins DEF complete, KeySets
  <2>3. dialCurrent' = complete(r) /\ installed' = installed \cup {[id |-> attempt, key |-> r.key]}
    BY <1>3 DEF installDialed
  <2> HIDE DEF r
  <2>4. DialTypes'
    BY <1>0, <1>3, <2>2, <2>3, L3Constants DEF installDialed, DialTypes, noteAnswered
  <2>5. LoopTypes' BY <1>0, <1>a, <1>b, <1>3 DEF installDialed, LoopTypes
  <2>6. CarrierTypes' BY <1>0, <1>3, <2>2, <2>3 DEF installDialed, CarrierTypes, netVars
  <2> QED BY <1>0, <1>3, <2>4, <2>5, <2>6, ListenStays DEF installDialed, L3Types
<1>4. CASE BackoffOver \/ LegacyOver \/ DialRunAgain
  <2>1. LoopTypes'
    BY <1>0, <1>a, <1>4 DEF BackoffOver, LegacyOver, DialRunAgain, LoopTypes
  <2>2. UNCHANGED <<dialCurrent, dialPrevious, dialPrevFrom, unanswered, listenVars, netVars, bookVars>>
    BY <1>4 DEF BackoffOver, LegacyOver, DialRunAgain
  <2> QED BY <1>0, <2>1, <2>2, DialStays, ListenStays, CarrierStays DEF L3Types
<1>5. ASSUME NEW m \in resps, handleResp(m) PROVE L3Types'
  <2>1. m \in KeySets BY <1>0 DEF CarrierTypes
  <2>2. Append(replies, m) \in Seq(KeySets) /\ Len(Append(replies, m)) <= replyBuffer
    BY <1>0, <1>5, <2>1, L3Constants DEF handleResp, LoopTypes
  <2>3. LoopTypes' BY <1>0, <1>5, <2>2 DEF handleResp, LoopTypes
  <2>4. UNCHANGED <<dialCurrent, dialPrevious, dialPrevFrom, unanswered, listenVars, netVars, bookVars>>
    BY <1>5 DEF handleResp
  <2> QED BY <1>0, <2>3, <2>4, DialStays, ListenStays, CarrierStays DEF L3Types
<1> QED BY <1>1, <1>2, <1>3, <1>4, <1>5

\* What either end seals and receives.
LEMMA PacketStepTypes ==
  ASSUME L3Types, \/ DialSend \/ DialProbe \/ \E p \in toDial : DialReceive(p)
                  \/ \E p \in toListen : ListenReceive(p)
                  \/ \E kind \in {"data", "probe"} : ListenSend(kind)
  PROVE  L3Types'
<1>0. DialTypes /\ LoopTypes /\ ListenTypes /\ CarrierTypes BY DEF L3Types
<1>n. NoSession \in Sessions BY DEF Sessions
<1>1. CASE DialSend \/ DialProbe
  <2>1. Keys(dialCurrent) \in KeySets
    BY <1>0, <1>1, SessionKeys DEF DialSend, DialProbe, DialTypes
  <2>2. toListen' = Carry(Keys(dialCurrent), toListen)
    BY <1>1 DEF DialSend, DialProbe
  <2>3. toListen' \subseteq KeySets BY <1>0, <2>1, <2>2, CarryBound DEF CarrierTypes
  <2>4. unanswered' \in -1 .. peerSilentAfter
    BY <1>0, <1>1, L3Constants DEF DialSend, DialProbe, noteSent, dialVars, DialTypes
  <2>5. UNCHANGED <<dialCurrent, dialPrevious, dialPrevFrom, loopVars, listenVars, inits, resps, toDial, bookVars>>
    BY <1>1 DEF DialSend, DialProbe, dialVars, loopVars
  <2>6. DialTypes' BY <1>0, <2>4, <2>5 DEF DialTypes
  <2>7. CarrierTypes' BY <1>0, <2>3, <2>5 DEF CarrierTypes, bookVars
  <2> QED BY <1>0, <2>5, <2>6, <2>7, LoopStays, ListenStays DEF L3Types
<1>2. ASSUME NEW p \in toDial, DialReceive(p) PROVE L3Types'
  <2>1. p.keys \in KeySets BY <1>0 DEF CarrierTypes
  <2>2. toListen' \subseteq KeySets
    BY <1>0, <1>2, <2>1, CarryBound DEF DialReceive, answerProbe, CarrierTypes
  <2>3. unanswered' \in -1 .. peerSilentAfter
    BY <1>0, <1>2, L3Constants DEF DialReceive, noteAnswered, DialTypes
  <2>4. toDial' = toDial \ {p} /\ UNCHANGED <<dialCurrent, dialPrevious, dialPrevFrom, loopVars, listenVars, inits, resps, bookVars>>
    BY <1>2 DEF DialReceive
  <2>5. DialTypes' BY <1>0, <2>3, <2>4 DEF DialTypes
  <2>6. CarrierTypes' BY <1>0, <2>2, <2>4 DEF CarrierTypes, bookVars
  <2> QED BY <1>0, <2>4, <2>5, <2>6, LoopStays, ListenStays DEF L3Types
<1>3. ASSUME NEW p \in toListen, ListenReceive(p) PROVE L3Types'
  <2>1. toListen' = toListen \ {p} /\ UNCHANGED <<dialVars, lastReply, seenInits, fresh, inits, resps, toDial, bookVars>>
    BY <1>3 DEF ListenReceive
  <2>2. current' \in Sessions /\ pending' \in Sessions /\ previous' \in Sessions
        /\ prevFrom' \in 0 .. previousGrace + 1
    BY <1>0, <1>n, <1>3, L3Constants DEF ListenReceive, promote, ListenTypes
  <2>3. peer' \in {Home, Away, Nowhere}
    BY <1>0, <1>3 DEF ListenReceive, notePeer, ListenTypes
  <2>4. ListenTypes' BY <1>0, <2>1, <2>2, <2>3 DEF ListenTypes
  <2>5. CarrierTypes' BY <1>0, <2>1 DEF CarrierTypes, bookVars
  <2>6. UNCHANGED <<dialCurrent, dialPrevious, dialPrevFrom, unanswered, loopVars>>
    BY <2>1 DEF dialVars, loopVars
  <2> QED BY <1>0, <2>4, <2>5, <2>6, DialStays, LoopStays DEF L3Types
<1>4. ASSUME NEW kind \in {"data", "probe"}, ListenSend(kind) PROVE L3Types'
  <2> DEFINE s == sendSession(current, pending)
  <2>1. s \in Sessions /\ s # NoSession
    BY <1>0, <1>4 DEF ListenSend, sendSession, ListenTypes
  <2>2. [kind |-> kind, keys |-> Keys(s)] \in [kind : {"data", "probe"}, keys : KeySets]
    BY <2>1, SessionKeys
  <2>3. toDial' \subseteq toDial \cup {[kind |-> kind, keys |-> Keys(s)]}
    BY <1>4, CarryBound DEF ListenSend
  <2>4. UNCHANGED <<dialVars, listenVars, inits, resps, toListen, bookVars>>
    BY <1>4 DEF ListenSend
  <2> HIDE DEF s
  <2>5. CarrierTypes' BY <1>0, <2>2, <2>3, <2>4 DEF CarrierTypes, bookVars
  <2>6. UNCHANGED <<dialCurrent, dialPrevious, dialPrevFrom, unanswered, loopVars>>
    BY <2>4 DEF dialVars, loopVars
  <2> QED BY <1>0, <2>4, <2>5, <2>6, DialStays, LoopStays, ListenStays DEF L3Types
<1> QED BY <1>1, <1>2, <1>3, <1>4

\* The memory of handled handshakes never passes its capacity.
LEMMA RememberTypes ==
  ASSUME ListenTypes, NEW i \in 1 .. MaxAttempts
  PROVE  Remember(i) \in Seq(1 .. MaxAttempts) /\ Len(Remember(i)) <= initMemory
<1> DEFINE ids == Append(seenInits, i)
<1>1. ids \in Seq(1 .. MaxAttempts) /\ Len(ids) = Len(seenInits) + 1 /\ ids # <<>> /\ Len(seenInits) \in Nat
  BY DEF ListenTypes
<1>2. Tail(ids) \in Seq(1 .. MaxAttempts) /\ Len(Tail(ids)) = Len(ids) - 1
  BY <1>1
<1>3. Len(seenInits) <= initMemory BY DEF ListenTypes
<1>4. Remember(i) = IF Len(ids) > initMemory THEN Tail(ids) ELSE ids BY DEF Remember
<1> HIDE DEF ids
<1>5. CASE Len(ids) > initMemory BY <1>1, <1>2, <1>3, <1>4, <1>5, L3Constants
<1>6. CASE ~(Len(ids) > initMemory) BY <1>1, <1>4, <1>6, L3Constants
<1> QED BY <1>5, <1>6

\* What the listener does with a handshake datagram.
LEMMA HandshakeStepTypes ==
  ASSUME L3Types, NEW m \in inits,
         handleInitAgain(m) \/ handleInitStale(m) \/ \E from \in {Home, Away} : handleInit(m, from)
  PROVE  L3Types'
<1>0. DialTypes /\ LoopTypes /\ ListenTypes /\ CarrierTypes BY DEF L3Types
<1>m. m \in [id : 1 .. MaxAttempts, fresh : Attempts] /\ m.id \in 1 .. MaxAttempts /\ m.fresh \in Attempts
  BY <1>0 DEF CarrierTypes
<1>r. Remember(m.id) \in Seq(1 .. MaxAttempts) /\ Len(Remember(m.id)) <= initMemory
  BY <1>0, <1>m, RememberTypes
<1>d. UNCHANGED <<dialCurrent, dialPrevious, dialPrevFrom, unanswered, loopVars>>
  BY DEF handleInitAgain, handleInitStale, handleInit, dialVars, loopVars
<1>1. CASE handleInitAgain(m)
  <2>1. lastReply \in KeySets BY <1>0, <1>1 DEF handleInitAgain, ListenTypes
  <2>2. CarrierTypes' BY <1>0, <1>1, <2>1 DEF handleInitAgain, CarrierTypes, bookVars
  <2> QED BY <1>0, <1>d, <1>1, <2>2, DialStays, LoopStays, ListenStays DEF handleInitAgain, L3Types
<1>2. CASE handleInitStale(m)
  <2>1. ListenTypes' BY <1>0, <1>r, <1>2 DEF handleInitStale, ListenTypes
  <2> QED BY <1>0, <1>d, <1>2, <2>1, DialStays, LoopStays, CarrierStays DEF handleInitStale, L3Types
<1>3. ASSUME NEW from \in {Home, Away}, handleInit(m, from) PROVE L3Types'
  <2>1. answers + 1 \in 1 .. MaxAnswers
    BY <1>0, <1>3, L3Constants DEF handleInit, CarrierTypes
  <2>2. respondFresh(m) \in KeySets /\ respondFresh(m).key = answers + 1
    BY <1>m, <2>1 DEF respondFresh, KeySets
  <2>3. newSession(m.id, respondFresh(m).key) \in Sessions
    BY <1>m, <2>1, <2>2, SessionBegins
  <2>4. fresh' \in [last : Attempts, required : BOOLEAN]
    BY <1>0, <1>m, <1>3 DEF handleInit, ListenTypes
  <2>5. peer' \in {Home, Away, Nowhere}
    BY <1>0, <1>3 DEF handleInit, ProvisionalPeer, ListenTypes
  <2>6. ListenTypes'
    BY <1>0, <1>r, <1>3, <2>2, <2>3, <2>4, <2>5 DEF handleInit, ListenTypes
  <2>7. CarrierTypes'
    BY <1>0, <1>3, <2>1, <2>2, L3Constants DEF handleInit, CarrierTypes
  <2> QED BY <1>0, <1>d, <2>6, <2>7, DialStays, LoopStays DEF L3Types
<1> QED BY <1>1, <1>2, <1>3

\* What age, forgetting and restarts do.
LEMMA AgeStepTypes ==
  ASSUME L3Types, DialRetire \/ retireSessions \/ Expire \/ DialRestart \/ ListenRestart \/ Tick
  PROVE  L3Types'
<1>0. DialTypes /\ LoopTypes /\ ListenTypes /\ CarrierTypes BY DEF L3Types
<1>n. NoSession \in Sessions BY DEF Sessions
<1>1. CASE DialRetire
  <2>1. DialTypes' BY <1>0, <1>n, <1>1 DEF DialRetire, DialTypes
  <2> QED BY <1>0, <1>1, <2>1, LoopStays, ListenStays, CarrierStays DEF DialRetire, L3Types
<1>2. CASE retireSessions \/ Expire
  <2>1. ListenTypes'
    <3>1. CASE retireSessions BY <1>0, <1>n, <3>1 DEF retireSessions, ListenTypes
    <3>2. CASE Expire
      <4>1. Tail(seenInits) \in Seq(1 .. MaxAttempts) /\ Len(Tail(seenInits)) <= initMemory
        BY <1>0, <3>2, L3Constants DEF Expire, ListenTypes
      <4> QED BY <1>0, <3>2, <4>1 DEF Expire, ListenTypes
    <3> QED BY <1>2, <3>1, <3>2
  <2>2. UNCHANGED <<dialCurrent, dialPrevious, dialPrevFrom, unanswered, loopVars, netVars, bookVars>>
    BY <1>2 DEF retireSessions, Expire, dialVars, loopVars
  <2> QED BY <1>0, <2>1, <2>2, DialStays, LoopStays, CarrierStays DEF L3Types
<1>3. CASE DialRestart
  <2>1. DialTypes' BY <1>0, <1>n, <1>3, L3Constants DEF DialRestart, DialTypes
  <2>2. LoopTypes'
    <3>1. replies' \in Seq(KeySets) /\ Len(replies') = 0 BY <1>3 DEF DialRestart
    <3>2. backoff' \in BOOLEAN /\ silentRekey' \in BOOLEAN /\ legacy' \in BOOLEAN
      BY <1>3, Zenon DEF DialRestart
    <3>3. attempt' \in Attempts /\ clock' \in Attempts /\ tries' \in 0 .. handshakeAttempts - 1
      BY <1>0, <1>3, L3Constants DEF DialRestart, LoopTypes, Attempts
    <3>4. Len(replies') <= replyBuffer BY <3>1, L3Constants
    <3> QED BY <3>1, <3>2, <3>3, <3>4 DEF LoopTypes
  <2>3. CarrierTypes' BY <1>0, <1>3, L3Constants DEF DialRestart, CarrierTypes, netVars
  <2> QED BY <1>0, <1>3, <2>1, <2>2, <2>3, ListenStays DEF DialRestart, L3Types
<1>4. CASE ListenRestart
  <2>1. ListenTypes'
    <3>1. seenInits' \in Seq(1 .. MaxAttempts) /\ Len(seenInits') = 0 BY <1>4 DEF ListenRestart
    <3> QED BY <1>0, <1>n, <1>4, <3>1, L3Constants DEF ListenRestart, ListenTypes, Attempts
  <2>2. CarrierTypes' BY <1>0, <1>4, L3Constants DEF ListenRestart, CarrierTypes, netVars
  <2>3. UNCHANGED <<dialCurrent, dialPrevious, dialPrevFrom, unanswered, loopVars>>
    BY <1>4 DEF ListenRestart, dialVars, loopVars
  <2> QED BY <1>0, <2>1, <2>2, <2>3, DialStays, LoopStays DEF L3Types
<1>5. CASE Tick
  <2>1. ~DialRetireDue /\ ~RetireDue BY <1>5 DEF Tick
  <2>2. \A s \in {dialCurrent, dialPrevious, current, pending, previous} : s \in Sessions /\ ~expired(s)
    BY <1>0, <2>1 DEF DialRetireDue, RetireDue, expired, DialTypes, ListenTypes
  <2>3. \A s \in {dialCurrent, dialPrevious, current, pending, previous} : Older(s) \in Sessions
    BY <2>2, SessionAges
  <2>4. dialPrevFrom' \in 0 .. previousGrace + 1
    BY <1>0, <1>5, <2>1, L3Constants DEF Tick, DialRetireDue, DialTypes
  <2>5. prevFrom' \in 0 .. previousGrace + 1
    BY <1>0, <1>5, <2>1, L3Constants DEF Tick, RetireDue, ListenTypes
  <2>6. unanswered' \in -1 .. peerSilentAfter
    BY <1>0, <1>5, L3Constants DEF Tick, peerSilent, DialTypes
  <2>7. DialTypes' BY <1>5, <2>3, <2>4, <2>6 DEF Tick, DialTypes
  <2>8. ListenTypes' BY <1>0, <1>5, <2>3, <2>5 DEF Tick, ListenTypes
  <2> QED BY <1>0, <1>5, <2>7, <2>8, LoopStays, CarrierStays DEF Tick, L3Types
<1> QED BY <1>1, <1>2, <1>3, <1>4, <1>5

LEMMA StepL3Types == L3Types /\ [Next]_vars => L3Types'
<1> SUFFICES ASSUME L3Types, [Next]_vars PROVE L3Types'
  OBVIOUS
<1>1. CASE UNCHANGED vars
  BY <1>1, DialStays, LoopStays, ListenStays, CarrierStays DEF vars, dialVars, loopVars, L3Types
<1> QED BY <1>1, LoopStepTypes, PacketStepTypes, HandshakeStepTypes, AgeStepTypes DEF Next

\* Every variable of both ends keeps its type, and every queue its capacity: the
\* replies channel of negotiate, the memory of seenInits, and the ages, because
\* retireSessions drops a session before the clock takes it past rejectAfterTime.
THEOREM SessionsTypeCorrect == Spec => []TypeOK
  BY InitL3Types, StepL3Types, TypesAre, PTL DEF Spec

-----------------------------------------------------------------------------
(***************************************************************************)
(* The direct tunnel.                                                      *)
(*                                                                         *)
(* The limiter counts every conversation that is neither idle nor over.    *)
(***************************************************************************)
Resting == {"idle", "over"}
Busy == {c \in Convs : stage[c] \notin Resting}

LEMMA ConvsFinite == IsFiniteSet(Convs) /\ Cardinality(Convs) \in Nat
<1>1. 1 \in Int /\ MaxConvs \in Int
  BY DirectAssumption
<1>2. IsFiniteSet(1..MaxConvs)
  BY <1>1, FS_Interval, Zenon
<1> QED BY <1>2, FS_CardinalityType DEF Convs

\* How many are busy is a number, and no more than there are conversations.
LEMMA BusyFinite == IsFiniteSet(Busy) /\ Cardinality(Busy) \in 0..Cardinality(Convs)
<1>1. Busy \subseteq Convs
  BY DEF Busy
<1>2. IsFiniteSet(Busy) /\ Cardinality(Busy) <= Cardinality(Convs)
  BY <1>1, ConvsFinite, FS_Subset
<1>3. Cardinality(Busy) \in Nat
  BY <1>2, FS_CardinalityType
<1> QED BY <1>2, <1>3, ConvsFinite

\* A conversation that begins makes one more busy,
LEMMA Begins ==
  ASSUME NEW c \in Convs, NEW s \in Stages \ Resting, stage \in [Convs -> Stages],
         stage[c] = "idle", stage' = [stage EXCEPT ![c] = s]
  PROVE  Cardinality(Busy') = Cardinality(Busy) + 1
<1>1. Busy' = Busy \cup {c}
  BY DEF Busy, Resting
<1>2. c \notin Busy
  BY DEF Busy, Resting
<1> QED BY <1>1, <1>2, BusyFinite, FS_AddElement

\* one that ends makes one fewer,
LEMMA Ends ==
  ASSUME NEW c \in Convs, stage \in [Convs -> Stages],
         stage[c] \notin Resting, stage' = [stage EXCEPT ![c] = "over"]
  PROVE  Cardinality(Busy') = Cardinality(Busy) - 1
<1>1. Busy' = Busy \ {c}
  BY DEF Busy, Resting
<1>2. c \in Busy
  BY DEF Busy
<1> QED BY <1>1, <1>2, BusyFinite, FS_RemoveElement

\* and one that goes on leaves them as they are.
LEMMA GoesOn ==
  ASSUME NEW c \in Convs, NEW s \in Stages \ Resting, stage \in [Convs -> Stages],
         stage[c] \notin Resting, stage' = [stage EXCEPT ![c] = s]
  PROVE  Busy' = Busy
BY DEF Busy

-----------------------------------------------------------------------------
(***************************************************************************)
(* Type correctness, the limiter's count, and that no stream has been      *)
(* opened to a target still to be tried.                                   *)
(***************************************************************************)
DirectSessionTypes ==
    /\ keeper \in [Slots -> SessionIds \cup {0}] /\ listed \subseteq SessionIds
    /\ near \in [SessionIds -> {"none", "hello", "up", "dead"}]
    /\ far \in [SessionIds -> {"none", "hello", "replied", "serving", "ended"}]
    /\ cut \subseteq SessionIds

ConvTypes == /\ stage \in [Convs -> Stages] /\ client \in [Convs -> Clients \cup {None}]
             /\ on \in [Convs -> SessionIds \cup {0}] /\ at \in [Convs -> Targets \cup {None}]
             /\ left \in [Convs -> SUBSET Targets]
             /\ stream \in [Convs -> [Targets -> StreamStates]] /\ closed \subseteq Convs
             /\ flows \in [Clients -> Convs \cup {0}]

CountHolds == active = Cardinality(Busy)

Untried == \A c \in Convs : \A t \in left[c] : stream[c][t] = "none"

DInv == DirectSessionTypes /\ ConvTypes /\ CountHolds /\ Untried

LEMMA InitDInv == DirectInit => DInv
<1> SUFFICES ASSUME DirectInit PROVE DInv
  OBVIOUS
<1>1. DirectSessionTypes
  BY DEF DirectInit, DirectSessionTypes
<1>2. ConvTypes
  BY DEF DirectInit, ConvTypes, Stages, StreamStates
<1>3. CountHolds
  <2>1. Busy = {}
    BY DEF DirectInit, Busy, Resting
  <2> QED BY <2>1, FS_EmptySet DEF CountHolds, DirectInit
<1>4. Untried
  BY DEF DirectInit, Untried
<1> QED BY <1>1, <1>2, <1>3, <1>4 DEF DInv

\* Sessions come and go without the conversations.
LEMMA SessionStep ==
  ASSUME DInv, UNCHANGED convs, DirectSessionTypes'
  PROVE  DInv'
<1>1. Busy' = Busy
  BY DEF convs, Busy
<1> QED BY <1>1 DEF DInv, convs, ConvTypes, CountHolds, Untried

LEMMA KeeperStep ==
  ASSUME DInv, NEW i \in Slots, Dial(i) \/ addSession(i) \/ dialFails(i) \/ removeSession(i)
  PROVE  DInv' /\ UNCHANGED convs
<1>1. keeper[i] \in SessionIds \cup {0}
  BY DEF DInv, DirectSessionTypes
<1>2. CASE Dial(i)
  BY <1>2, SessionStep DEF Dial, DInv, DirectSessionTypes
<1>3. CASE addSession(i)
  <2>1. keeper[i] \in SessionIds
    BY <1>1, <1>3 DEF addSession
  <2> QED BY <1>3, <2>1, SessionStep DEF addSession, DInv, DirectSessionTypes
<1>4. CASE dialFails(i)
  <2>1. keeper[i] \in SessionIds
    BY <1>1, <1>4 DEF dialFails
  <2> QED BY <1>4, <2>1, SessionStep DEF dialFails, DInv, DirectSessionTypes
<1>5. CASE removeSession(i)
  BY <1>5, SessionStep DEF removeSession, DInv, DirectSessionTypes
<1> QED BY <1>2, <1>3, <1>4, <1>5

LEMMA EndsStep ==
  ASSUME DInv, NEW s \in SessionIds,
         \/ acceptSession(s) \/ originReplies(s) \/ originServes(s) \/ Cut(s)
         \/ markDead(s) \/ originLoses(s)
  PROVE  DInv' /\ UNCHANGED convs
BY SessionStep DEF acceptSession, originReplies, originServes, Cut, markDead, originLoses,
                   DInv, DirectSessionTypes

\* A conversation's steps leave the sessions alone.
LEMMA ConvStep ==
  ASSUME DInv, UNCHANGED ends, ConvTypes', CountHolds', Untried'
  PROVE  DInv'
BY DEF DInv, ends, DirectSessionTypes

\* Acquire: the count goes up with the conversation it is for.
LEMMA AcquireStep ==
  ASSUME DInv, NEW c \in Convs, Fresh(c), Acquire(c)
  PROVE  stage' \in [Convs -> Stages] /\ CountHolds'
<1> DEFINE s == IF active + 1 > Limit THEN "counted" ELSE "held"
<1>1. s \in Stages \ Resting
  BY DEF Stages, Resting
<1>2. stage' = [stage EXCEPT ![c] = s] /\ active' = active + 1
  BY DEF Acquire
<1>3. stage \in [Convs -> Stages] /\ stage[c] = "idle" /\ active = Cardinality(Busy)
  BY DEF DInv, ConvTypes, CountHolds, Fresh
<1> HIDE DEF s
<1>4. Cardinality(Busy') = Cardinality(Busy) + 1
  BY <1>1, <1>2, <1>3, Begins
<1> QED BY <1>1, <1>2, <1>3, <1>4 DEF CountHolds

\* Release: it goes down with the end of one.
LEMMA ReleaseStep ==
  ASSUME DInv, NEW c \in Convs, stage[c] \notin Resting,
         stage' = [stage EXCEPT ![c] = "over"], active' = active - 1
  PROVE  stage' \in [Convs -> Stages] /\ CountHolds'
<1>1. stage \in [Convs -> Stages] /\ active = Cardinality(Busy)
  BY DEF DInv, ConvTypes, CountHolds
<1>2. Cardinality(Busy') = Cardinality(Busy) - 1
  BY <1>1, Ends
<1> QED BY <1>1, <1>2 DEF CountHolds, Stages

\* Between the two it stays.
LEMMA BetweenStep ==
  ASSUME DInv, NEW c \in Convs, stage[c] \notin Resting, NEW s \in Stages \ Resting,
         stage' = [stage EXCEPT ![c] = s], UNCHANGED active
  PROVE  stage' \in [Convs -> Stages] /\ CountHolds'
<1>1. stage \in [Convs -> Stages] /\ active = Cardinality(Busy)
  BY DEF DInv, ConvTypes, CountHolds
<1>2. Busy' = Busy
  BY <1>1, GoesOn
<1> QED BY <1>1, <1>2 DEF CountHolds

LEMMA BeginsDInv ==
  ASSUME DInv, NEW c \in Convs, handle(c) \/ \E k \in Clients : udpFlowFor(c, k)
  PROVE  DInv'
<1>1. Fresh(c) /\ Acquire(c) /\ UNCHANGED ends /\ UNCHANGED <<on, at, left, stream, closed, flows>>
  BY DEF handle, udpFlowFor
<1>2. client' \in [Convs -> Clients \cup {None}]
  BY DEF handle, udpFlowFor, DInv, ConvTypes
<1>3. stage' \in [Convs -> Stages] /\ CountHolds'
  BY <1>1, AcquireStep
<1>4. ConvTypes'
  BY <1>1, <1>2, <1>3 DEF DInv, ConvTypes
<1>5. Untried'
  BY <1>1 DEF DInv, Untried
<1> QED BY <1>1, <1>3, <1>4, <1>5, ConvStep

LEMMA EndsDInv ==
  ASSUME DInv, NEW c \in Convs,
         \/ giveBack(c) \/ refuse(c) \/ pipeEnds(c) \/ pumpReleases(c)
         \/ pickSession(c) /\ Usable = {}
  PROVE  DInv'
<1>1. /\ stage[c] \notin Resting /\ stage' = [stage EXCEPT ![c] = "over"]
      /\ active' = active - 1
      /\ UNCHANGED ends /\ UNCHANGED <<on, left, stream, flows>>
  BY DEF giveBack, refuse, pipeEnds, pumpReleases, pickSession, Over, Resting
<1>2. /\ client' = client \/ client' = [client EXCEPT ![c] = None]
      /\ at' = at \/ at' = [at EXCEPT ![c] = None]
      /\ closed' \subseteq closed
  BY DEF giveBack, refuse, pipeEnds, pumpReleases, pickSession, Over
<1>3. stage' \in [Convs -> Stages] /\ CountHolds'
  BY <1>1, ReleaseStep
<1>4. ConvTypes'
  BY <1>1, <1>2, <1>3 DEF DInv, ConvTypes
<1>5. Untried'
  BY <1>1 DEF DInv, Untried
<1> QED BY <1>1, <1>3, <1>4, <1>5, ConvStep

\* pickSession finds one, or a joined conversation's flow goes first.
LEMMA PicksDInv ==
  ASSUME DInv, NEW c \in Convs, (pickSession(c) /\ Usable # {}) \/ join(c) \/ pumpEnds(c)
  PROVE  DInv'
<1>1. PICK s \in {"opening", "joined", "deleted"} : stage' = [stage EXCEPT ![c] = s]
  BY DEF pickSession, join, pumpEnds
<1>2. s \in Stages \ Resting
  BY DEF Stages, Resting
<1>3. /\ stage[c] \notin Resting /\ UNCHANGED ends
      /\ UNCHANGED <<client, at, left, stream, closed, active>>
  BY DEF pickSession, join, pumpEnds, Resting
<1>4. stage' \in [Convs -> Stages] /\ CountHolds'
  BY <1>1, <1>2, <1>3, BetweenStep
<1>5. on' \in [Convs -> SessionIds \cup {0}]
  <2>1. Usable \subseteq SessionIds
    BY DEF Usable, DInv, DirectSessionTypes
  <2> QED BY <2>1 DEF pickSession, join, pumpEnds, DInv, ConvTypes
<1>6. flows' \in [Clients -> Convs \cup {0}]
  <2>1. flows \in [Clients -> Convs \cup {0}]
    BY DEF DInv, ConvTypes
  <2>2. CASE pickSession(c)
    BY <2>1, <2>2 DEF pickSession
  <2>3. CASE join(c)
    BY <2>1, <2>3 DEF join
  <2>4. CASE pumpEnds(c)
    BY <2>1, <2>4 DEF pumpEnds
  <2> QED BY <2>2, <2>3, <2>4
<1>7. ConvTypes'
  BY <1>3, <1>4, <1>5, <1>6 DEF DInv, ConvTypes
<1>8. Untried'
  BY <1>3 DEF DInv, Untried
<1> QED BY <1>3, <1>4, <1>7, <1>8, ConvStep

\* The stages stay, and the count with them.
LEMMA CountStays == ASSUME DInv, UNCHANGED <<stage, active>> PROVE CountHolds'
BY DEF DInv, CountHolds, Busy

LEMMA AsksDInv ==
  ASSUME DInv, NEW c \in Convs, openStream(c) \/ nextTarget(c)
  PROVE  DInv'
<1>1. UNCHANGED ends /\ UNCHANGED <<stage, client, on, closed, active, flows>>
  BY DEF openStream, nextTarget
<1>2. CountHolds'
  BY <1>1, CountStays
<1>3. CASE openStream(c)
  <2>1. PICK t \in left[c] :
           /\ left' = [left EXCEPT ![c] = @ \ {t}]
           /\ \/ at' = [at EXCEPT ![c] = t] /\ stream' = [stream EXCEPT ![c][t] = "asked"]
              \/ UNCHANGED <<at, stream>>
    BY <1>3 DEF openStream
  <2>2. t \in Targets /\ "asked" \in StreamStates
    BY DEF DInv, ConvTypes, StreamStates
  <2>5. left' \in [Convs -> SUBSET Targets] /\ at' \in [Convs -> Targets \cup {None}]
    BY <2>1, <2>2 DEF DInv, ConvTypes
  <2>6. stream' \in [Convs -> [Targets -> StreamStates]]
    <3>1. stream \in [Convs -> [Targets -> StreamStates]]
      BY DEF DInv, ConvTypes
    <3>2. [stream EXCEPT ![c][t] = "asked"] \in [Convs -> [Targets -> StreamStates]]
      BY <2>2, <3>1
    <3> QED BY <2>1, <3>1, <3>2
  <2>3. ConvTypes'
    BY <1>1, <2>5, <2>6 DEF DInv, ConvTypes
  <2>4. Untried'
    BY <2>1, <2>2 DEF DInv, ConvTypes, Untried
  <2> QED BY <1>1, <1>2, <2>3, <2>4, ConvStep
<1>4. CASE nextTarget(c)
  <2>1. ConvTypes' /\ Untried'
    BY <1>1, <1>4 DEF nextTarget, DInv, ConvTypes, Untried
  <2> QED BY <1>1, <1>2, <2>1, ConvStep
<1> QED BY <1>3, <1>4

\* The origin moves a stream that was asked for.
LEMMA OriginDInv ==
  ASSUME DInv, NEW c \in Convs, NEW t \in Targets, NEW from, NEW to \in StreamStates,
         "none" \notin from, Becomes(c, t, from, to)
  PROVE  DInv'
<1>1. UNCHANGED ends /\ UNCHANGED <<stage, client, on, at, left, closed, active, flows>>
  BY DEF Becomes
<1>2. stream' = [stream EXCEPT ![c][t] = to] /\ stream[c][t] # "none"
  BY DEF Becomes
<1>3. ConvTypes'
  BY <1>1, <1>2 DEF DInv, ConvTypes
<1>4. Untried'
  BY <1>1, <1>2 DEF DInv, ConvTypes, Untried
<1> QED BY <1>1, <1>3, <1>4, CountStays, ConvStep

LEMMA ClosesDInv ==
  ASSUME DInv, NEW k \in Clients, forward(k) \/ reapUDPFlows(k)
  PROVE  DInv'
<1>1. /\ UNCHANGED ends
      /\ UNCHANGED <<stage, client, on, at, left, stream, active, flows>>
  BY DEF forward, reapUDPFlows
<1>2. flows[k] \in Convs \cup {0}
  BY DEF DInv, ConvTypes
<1>3. closed' \subseteq closed \cup {flows[k]} /\ flows[k] # 0
  BY DEF forward, reapUDPFlows
<1>4. ConvTypes'
  BY <1>1, <1>2, <1>3 DEF DInv, ConvTypes
<1>5. Untried'
  BY <1>1 DEF DInv, Untried
<1> QED BY <1>1, <1>4, <1>5, CountStays, ConvStep

LEMMA OriginSteps ==
  ASSUME DInv, NEW c \in Convs, NEW t \in Targets,
         \/ serveStream(c, t) \/ requestLost(c, t) \/ reachBackend(c, t)
         \/ missBackend(c, t) \/ relayEnds(c, t)
  PROVE  DInv'
<1>1. {"dialing", "failed", "ok", "done"} \subseteq StreamStates
  BY DEF StreamStates
<1>2. \E from \in {{"asked"}, {"dialing"}, {"ok"}}, to \in {"dialing", "failed", "ok", "done"} :
         Becomes(c, t, from, to)
  BY DEF serveStream, requestLost, reachBackend, missBackend, relayEnds
<1> QED BY <1>1, <1>2, OriginDInv

LEMMA StepDInv == DInv /\ [DirectNext]_directVars => DInv'
<1> SUFFICES ASSUME DInv, [DirectNext]_directVars PROVE DInv'
  OBVIOUS
<1>1. CASE \E i \in Slots : Dial(i) \/ addSession(i) \/ dialFails(i) \/ removeSession(i)
  BY <1>1, KeeperStep
<1>2. CASE \E s \in SessionIds : \/ acceptSession(s) \/ originReplies(s) \/ originServes(s)
                               \/ Cut(s) \/ markDead(s) \/ originLoses(s)
  BY <1>2, EndsStep
<1>3. ASSUME NEW c \in Convs,
             \/ giveBack(c) \/ handle(c) \/ pickSession(c) \/ openStream(c) \/ nextTarget(c)
             \/ refuse(c) \/ join(c) \/ pipeEnds(c) \/ pumpEnds(c) \/ pumpReleases(c)
             \/ \E k \in Clients : udpFlowFor(c, k)
      PROVE  DInv'
  BY <1>3, BeginsDInv, EndsDInv, PicksDInv, AsksDInv
<1>4. ASSUME NEW c \in Convs, NEW t \in Targets,
             \/ serveStream(c, t) \/ requestLost(c, t) \/ reachBackend(c, t)
             \/ missBackend(c, t) \/ relayEnds(c, t)
      PROVE  DInv'
  BY <1>4, OriginSteps
<1>5. CASE \E k \in Clients : forward(k) \/ reapUDPFlows(k)
  BY <1>5, ClosesDInv
<1>6. CASE UNCHANGED directVars
  <2>1. UNCHANGED convs /\ DirectSessionTypes'
    BY <1>6 DEF directVars, convs, DInv, DirectSessionTypes
  <2> QED BY <2>1, SessionStep
<1> QED BY <1>1, <1>2, <1>3, <1>4, <1>5, <1>6 DEF DirectNext

\* Every variable of the direct tunnel keeps its type, and the limiter never
\* counts below nothing or above the conversations there are.
THEOREM DirectTypeCorrect == DirectSpec => []DirectTypeOK
<1>1. DInv => DirectTypeOK
  BY BusyFinite DEF DInv, DirectSessionTypes, ConvTypes, CountHolds, DirectTypeOK
<1> QED BY <1>1, InitDInv, StepDInv, PTL DEF DirectSpec

-----------------------------------------------------------------------------
(***************************************************************************)
(* The flows of datagrams.                                                 *)
(***************************************************************************)
\* c is a flow that the reader of the port is opening.
Opening(c) == client[c] # None /\ stage[c] \in {"counted", "held", "opening"}

OneOpening == \A c, d \in Convs : Opening(c) /\ Opening(d) => c = d

NotYetListed == \A c \in Convs : Opening(c) => flows[client[c]] = 0

IdleAreNobodys == \A c \in Convs : stage[c] = "idle" => client[c] = None

JoinedAreListed == \A c \in Convs : stage[c] = "joined" /\ client[c] # None => flows[client[c]] = c

ListedAreJoined == \A k \in Clients : flows[k] # 0 =>
                       stage[flows[k]] = "joined" /\ client[flows[k]] = k

FlowInv == OneOpening /\ NotYetListed /\ IdleAreNobodys /\ JoinedAreListed /\ ListedAreJoined

LEMMA InitFlowInv == DirectInit => FlowInv
BY DEF DirectInit, FlowInv, OneOpening, NotYetListed, IdleAreNobodys, JoinedAreListed,
       ListedAreJoined, Opening

\* What touches neither stages, clients nor the table disturbs nothing.
LEMMA FlowsUntouched ==
  ASSUME FlowInv, UNCHANGED <<stage, client, flows>>
  PROVE  FlowInv'
BY DEF FlowInv, OneOpening, NotYetListed, IdleAreNobodys, JoinedAreListed, ListedAreJoined, Opening

\* A user's connection begins.
LEMMA HandleFlow ==
  ASSUME DInv, FlowInv, NEW c \in Convs, handle(c)
  PROVE  FlowInv'
<1>1. PICK s \in {"counted", "held"} : stage' = [stage EXCEPT ![c] = s]
  BY DEF handle, Acquire
<1>2. stage[c] = "idle" /\ client[c] = None /\ UNCHANGED <<client, flows>>
  BY DEF handle, Fresh, FlowInv, IdleAreNobodys
<1>3. stage \in [Convs -> Stages] /\ flows \in [Clients -> Convs \cup {0}]
  BY DEF DInv, ConvTypes
<1>4. \A d \in Convs : d # c => stage'[d] = stage[d]
  BY <1>1, <1>3
<1>5. stage'[c] = s
  BY <1>1, <1>3
<1>6. OneOpening' /\ NotYetListed' /\ IdleAreNobodys' /\ JoinedAreListed'
  BY <1>2, <1>4, <1>5 DEF FlowInv, OneOpening, NotYetListed, IdleAreNobodys, JoinedAreListed, Opening
<1>7. ListedAreJoined'
  BY <1>2, <1>3, <1>4 DEF FlowInv, ListedAreJoined
<1> QED BY <1>6, <1>7 DEF FlowInv

\* A datagram from a client without a flow: no other flow is being opened.
LEMMA UdpFlowForFlow ==
  ASSUME DInv, FlowInv, NEW c \in Convs, NEW k \in Clients, udpFlowFor(c, k)
  PROVE  FlowInv'
<1>1. PICK s \in {"counted", "held"} : stage' = [stage EXCEPT ![c] = s]
  BY DEF udpFlowFor, Acquire
<1>2. /\ stage[c] = "idle" /\ client' = [client EXCEPT ![c] = k] /\ UNCHANGED flows
      /\ flows[k] = 0
  BY DEF udpFlowFor, Fresh
<1>3. /\ stage \in [Convs -> Stages] /\ flows \in [Clients -> Convs \cup {0}]
      /\ client \in [Convs -> Clients \cup {None}]
  BY DEF DInv, ConvTypes
<1>4. \A d \in Convs : d # c => stage'[d] = stage[d] /\ client'[d] = client[d]
  BY <1>1, <1>2, <1>3
<1>5. stage'[c] = s /\ client'[c] = k
  BY <1>1, <1>2, <1>3
<1>6. \A d \in Convs : ~Opening(d)
  BY DEF udpFlowFor, Reading, Opening
<1>7. \A d \in Convs : d # c => ~Opening(d)'
  BY <1>4, <1>6 DEF Opening
<1>8. OneOpening' /\ NotYetListed'
  BY <1>2, <1>5, <1>7 DEF OneOpening, NotYetListed
<1>9. IdleAreNobodys' /\ JoinedAreListed'
  BY <1>2, <1>4, <1>5 DEF FlowInv, IdleAreNobodys, JoinedAreListed
<1>10. ListedAreJoined'
  BY <1>2, <1>3, <1>4 DEF FlowInv, ListedAreJoined
<1> QED BY <1>8, <1>9, <1>10 DEF FlowInv

\* A conversation that was never put in the table, or has left it, ends.
LEMMA EndsFlow ==
  ASSUME DInv, FlowInv, NEW c \in Convs,
         \/ giveBack(c) \/ refuse(c) \/ pipeEnds(c) \/ pumpReleases(c)
         \/ pickSession(c) /\ Usable = {}
  PROVE  FlowInv'
<1>1. stage' = [stage EXCEPT ![c] = "over"] /\ UNCHANGED flows
  BY DEF giveBack, refuse, pipeEnds, pumpReleases, pickSession, Over
<1>2. client' = client \/ client' = [client EXCEPT ![c] = None]
  BY DEF giveBack, refuse, pipeEnds, pumpReleases, pickSession, Over
<1>3. /\ stage \in [Convs -> Stages] /\ flows \in [Clients -> Convs \cup {0}]
      /\ client \in [Convs -> Clients \cup {None}]
  BY DEF DInv, ConvTypes
<1>4. \A d \in Convs : d # c => stage'[d] = stage[d] /\ client'[d] = client[d]
  BY <1>1, <1>2, <1>3
<1>5. stage'[c] = "over"
  BY <1>1, <1>3
<1>6. \A k \in Clients : flows[k] # c
  <2>1. stage[c] # "joined" \/ client[c] = None
    BY DEF giveBack, refuse, pipeEnds, pumpReleases, pickSession
  <2>2. c # 0 /\ None \notin Clients
    BY DirectAssumption DEF Convs
  <2> QED BY <2>1, <2>2 DEF FlowInv, ListedAreJoined
<1>7. OneOpening' /\ NotYetListed' /\ IdleAreNobodys' /\ JoinedAreListed'
  BY <1>1, <1>4, <1>5 DEF FlowInv, OneOpening, NotYetListed, IdleAreNobodys, JoinedAreListed, Opening
<1>8. ListedAreJoined'
  BY <1>1, <1>3, <1>4, <1>6 DEF FlowInv, ListedAreJoined
<1> QED BY <1>7, <1>8 DEF FlowInv

\* A session is found for one that is being opened already.
LEMMA PicksFlow ==
  ASSUME DInv, FlowInv, NEW c \in Convs, pickSession(c), Usable # {}
  PROVE  FlowInv'
<1>1. /\ stage[c] = "held" /\ stage' = [stage EXCEPT ![c] = "opening"]
      /\ UNCHANGED <<client, flows>>
  BY DEF pickSession
<1>3. stage \in [Convs -> Stages] /\ flows \in [Clients -> Convs \cup {0}]
  BY DEF DInv, ConvTypes
<1>4. \A d \in Convs : Opening(d)' <=> Opening(d)
  BY <1>1, <1>3 DEF Opening
<1>5. \A d \in Convs : d # c => stage'[d] = stage[d]
  BY <1>1, <1>3
<1>6. stage'[c] = "opening"
  BY <1>1, <1>3
<1>7. OneOpening' /\ NotYetListed'
  BY <1>1, <1>4 DEF FlowInv, OneOpening, NotYetListed
<1>8. IdleAreNobodys' /\ JoinedAreListed'
  BY <1>1, <1>5, <1>6 DEF FlowInv, IdleAreNobodys, JoinedAreListed
<1>9. ListedAreJoined'
  BY <1>1, <1>3, <1>5 DEF FlowInv, ListedAreJoined
<1> QED BY <1>7, <1>8, <1>9 DEF FlowInv

\* The flow that was being opened is put in the table, where its client had none.
LEMMA JoinFlow ==
  ASSUME DInv, FlowInv, NEW c \in Convs, join(c)
  PROVE  FlowInv'
<1>1. /\ stage[c] = "opening" /\ stage' = [stage EXCEPT ![c] = "joined"] /\ UNCHANGED client
      /\ flows' = [k \in Clients |-> IF k = client[c] THEN c ELSE flows[k]]
  BY DEF join
<1>2. /\ stage \in [Convs -> Stages] /\ flows \in [Clients -> Convs \cup {0}]
      /\ client \in [Convs -> Clients \cup {None}] /\ 0 \notin Convs
  BY DEF DInv, ConvTypes, Convs
<1>3. \A d \in Convs : d # c => stage'[d] = stage[d]
  BY <1>1, <1>2
<1>4. stage'[c] = "joined"
  BY <1>1, <1>2
<1>5. Opening(c) <=> client[c] # None
  BY <1>1 DEF Opening
<1>6. \A d \in Convs : Opening(d)' => Opening(d) /\ d # c /\ client[c] = None
  BY <1>1, <1>3, <1>4, <1>5 DEF Opening, FlowInv, OneOpening
<1>7. OneOpening' /\ NotYetListed'
  BY <1>1, <1>2, <1>6 DEF FlowInv, OneOpening, NotYetListed, Opening
<1>8. IdleAreNobodys'
  BY <1>1, <1>3, <1>4 DEF FlowInv, IdleAreNobodys
<1>9. JoinedAreListed'
  <2> SUFFICES ASSUME NEW d \in Convs, stage'[d] = "joined", client[d] # None
               PROVE  flows'[client[d]] = d
    BY <1>1 DEF JoinedAreListed
  <2>1. client[d] \in Clients
    BY <1>2
  <2>2. CASE d = c
    BY <1>1, <2>1, <2>2
  <2>3. CASE d # c
    <3>1. flows[client[d]] = d
      BY <1>3, <2>3 DEF FlowInv, JoinedAreListed
    <3>2. client[d] # client[c]
      BY <3>1, <1>2, <1>5 DEF FlowInv, NotYetListed
    <3> QED BY <1>1, <2>1, <3>1, <3>2
  <2> QED BY <2>2, <2>3
<1>10. ListedAreJoined'
  <2> SUFFICES ASSUME NEW k \in Clients, flows'[k] # 0
               PROVE  stage'[flows'[k]] = "joined" /\ client[flows'[k]] = k
    BY <1>1 DEF ListedAreJoined
  <2>1. CASE k = client[c]
    BY <1>1, <1>4, <2>1
  <2>2. CASE k # client[c]
    <3>1. flows'[k] = flows[k] /\ flows[k] \in Convs
      BY <1>1, <1>2, <2>2
    <3>2. stage[flows[k]] = "joined" /\ client[flows[k]] = k
      BY <3>1, <1>2 DEF FlowInv, ListedAreJoined
    <3>3. flows[k] # c
      BY <3>2, <1>1
    <3> QED BY <1>3, <3>1, <3>2, <3>3
  <2> QED BY <2>1, <2>2
<1> QED BY <1>7, <1>8, <1>9, <1>10 DEF FlowInv

\* The pump of a flow ends, and takes its own entry with it.
LEMMA PumpFlow ==
  ASSUME DInv, FlowInv, NEW c \in Convs, pumpEnds(c)
  PROVE  FlowInv'
<1>1. /\ stage[c] = "joined" /\ client[c] # None /\ UNCHANGED client
      /\ stage' = [stage EXCEPT ![c] = "deleted"]
      /\ flows' = [flows EXCEPT ![client[c]] = 0]
  BY DEF pumpEnds
<1>2. /\ stage \in [Convs -> Stages] /\ flows \in [Clients -> Convs \cup {0}]
      /\ client \in [Convs -> Clients \cup {None}] /\ 0 \notin Convs
  BY DEF DInv, ConvTypes, Convs
<1>3. \A d \in Convs : d # c => stage'[d] = stage[d]
  BY <1>1, <1>2
<1>4. stage'[c] = "deleted" /\ client[c] \in Clients /\ flows[client[c]] = c
  BY <1>1, <1>2 DEF FlowInv, JoinedAreListed
<1>5. \A d \in Convs : Opening(d)' => Opening(d)
  BY <1>1, <1>3, <1>4 DEF Opening
<1>6. OneOpening' /\ NotYetListed'
  BY <1>1, <1>2, <1>5 DEF FlowInv, OneOpening, NotYetListed, Opening
<1>7. IdleAreNobodys'
  BY <1>1, <1>3, <1>4 DEF FlowInv, IdleAreNobodys
<1>8. JoinedAreListed'
  <2> SUFFICES ASSUME NEW d \in Convs, stage'[d] = "joined", client[d] # None
               PROVE  flows'[client[d]] = d
    BY <1>1 DEF JoinedAreListed
  <2>1. d # c /\ client[d] \in Clients
    BY <1>2, <1>4
  <2>2. flows[client[d]] = d
    BY <1>3, <2>1 DEF FlowInv, JoinedAreListed
  <2>3. client[d] # client[c]
    BY <1>4, <2>1, <2>2
  <2> QED BY <1>1, <1>2, <2>1, <2>2, <2>3
<1>9. ListedAreJoined'
  <2> SUFFICES ASSUME NEW k \in Clients, flows'[k] # 0
               PROVE  stage'[flows'[k]] = "joined" /\ client[flows'[k]] = k
    BY <1>1 DEF ListedAreJoined
  <2>1. k # client[c] /\ flows'[k] = flows[k]
    BY <1>1, <1>2
  <2>2. flows[k] \in Convs /\ stage[flows[k]] = "joined" /\ client[flows[k]] = k
    BY <1>2, <2>1 DEF FlowInv, ListedAreJoined
  <2>3. flows[k] # c
    BY <2>1, <2>2
  <2> QED BY <1>3, <2>1, <2>2, <2>3
<1> QED BY <1>6, <1>7, <1>8, <1>9 DEF FlowInv

LEMMA StepFlowInv == DInv /\ FlowInv /\ [DirectNext]_directVars => FlowInv'
<1> SUFFICES ASSUME DInv, FlowInv, [DirectNext]_directVars PROVE FlowInv'
  OBVIOUS
<1>1. CASE \E i \in Slots : Dial(i) \/ addSession(i) \/ dialFails(i) \/ removeSession(i)
  BY <1>1, KeeperStep, FlowsUntouched DEF convs
<1>2. CASE \E s \in SessionIds : \/ acceptSession(s) \/ originReplies(s) \/ originServes(s)
                               \/ Cut(s) \/ markDead(s) \/ originLoses(s)
  BY <1>2, EndsStep, FlowsUntouched DEF convs
<1>3. ASSUME NEW c \in Convs,
             \/ giveBack(c) \/ handle(c) \/ pickSession(c) \/ refuse(c) \/ join(c)
             \/ pipeEnds(c) \/ pumpEnds(c) \/ pumpReleases(c)
             \/ \E k \in Clients : udpFlowFor(c, k)
      PROVE  FlowInv'
  BY <1>3, EndsFlow, HandleFlow, PicksFlow, JoinFlow, PumpFlow, UdpFlowForFlow
<1>4. ASSUME NEW c \in Convs,
             \/ openStream(c) \/ nextTarget(c)
             \/ \E t \in Targets : \/ serveStream(c, t) \/ requestLost(c, t)
                                   \/ reachBackend(c, t) \/ missBackend(c, t) \/ relayEnds(c, t)
      PROVE  FlowInv'
  BY <1>4, FlowsUntouched DEF openStream, nextTarget, serveStream, requestLost, reachBackend,
                              missBackend, relayEnds, Becomes
<1>5. CASE \E k \in Clients : forward(k) \/ reapUDPFlows(k)
  BY <1>5, FlowsUntouched DEF forward, reapUDPFlows
<1>6. CASE UNCHANGED directVars
  BY <1>6, FlowsUntouched DEF directVars
<1> QED BY <1>1, <1>2, <1>3, <1>4, <1>5, <1>6 DEF DirectNext

\* Replies come only from the flow a client's datagrams go to, and every flow
\* in the table of udpFlowFor has a pump that will take it out again, for any
\* number of clients, flows and sessions.
THEOREM FlowsAlwaysReachable == DirectSpec => []FlowsReachable
<1>1. FlowInv => FlowsReachable
  BY DEF FlowInv, JoinedAreListed, ListedAreJoined, FlowsReachable
<1> QED BY <1>1, InitDInv, StepDInv, InitFlowInv, StepFlowInv, PTL DEF DirectSpec

-----------------------------------------------------------------------------
(***************************************************************************)
(* Direct implements Forwarding.                                           *)
(***************************************************************************)
LEMMA PhaseValues ==
  /\ PhaseOf("idle") = "idle" /\ PhaseOf("counted") = "idle"
  /\ PhaseOf("held") = "held" /\ PhaseOf("opening") = "held"
  /\ PhaseOf("joined") = "joined" /\ PhaseOf("deleted") = "joined"
  /\ PhaseOf("over") = "over"
BY DEF PhaseOf

LEMMA LinkValues ==
  /\ LinkOf("none") = "none" /\ LinkOf("asked") = "asked" /\ LinkOf("dialing") = "asked"
  /\ LinkOf("ok") = "reached" /\ LinkOf("done") = "ended" /\ LinkOf("failed") = "refused"
BY DEF LinkOf

\* One conversation's stage moves, and its phase with it.
LEMMA StageMoves ==
  ASSUME NEW c \in Convs, NEW s, stage \in [Convs -> Stages], stage' = [stage EXCEPT ![c] = s]
  PROVE  phaseOf' = [phaseOf EXCEPT ![c] = PhaseOf(s)]
BY DEF phaseOf

\* A stage of the same phase is no move.
LEMMA SamePhase ==
  ASSUME NEW c \in Convs, NEW s, stage \in [Convs -> Stages], stage' = [stage EXCEPT ![c] = s],
         PhaseOf(s) = PhaseOf(stage[c])
  PROVE  phaseOf' = phaseOf
BY DEF phaseOf

\* One stream moves, and its link with it.
LEMMA StreamMoves ==
  ASSUME NEW c \in Convs, NEW t \in Targets, NEW s,
         stream \in [Convs -> [Targets -> StreamStates]], stream' = [stream EXCEPT ![c][t] = s]
  PROVE  linkOf' = [linkOf EXCEPT ![c][t] = LinkOf(s)]
BY DEF linkOf

LEMMA SameLinks == ASSUME UNCHANGED stream PROVE linkOf' = linkOf
BY DEF linkOf

Joins(s) == s \in {"joined", "deleted"}

\* Who is joined, and to what, stays.
LEMMA SameJoined ==
  ASSUME \A d \in Convs : (Joins(stage'[d]) <=> Joins(stage[d]))
                          /\ (Joins(stage[d]) => at'[d] = at[d])
  PROVE  joinedTo' = joinedTo
BY DEF joinedTo, Joins

\* Forwarding counts as Direct does.
LEMMA SameCount == F!Cardinality(F!Held) = Cardinality(F!Held)
BY DEF F!Cardinality, Cardinality

\* The limiter lets no more in than the cap: it counts whoever is held.
LEMMA RoomToAdmit ==
  ASSUME DInv, active + 1 <= Limit
  PROVE  Cardinality(F!Held) < Limit
<1>1. F!Held \subseteq Busy
  BY PhaseValues DEF F!Held, phaseOf, Busy, Resting
<1>2. Cardinality(F!Held) <= Cardinality(Busy) /\ Cardinality(F!Held) \in Nat
  BY <1>1, BusyFinite, FS_Subset, FS_CardinalityType
<1> QED BY <1>2, BusyFinite, DirectAssumption DEF DInv, CountHolds

\* A step of Forwarding, or nothing it can see.
Promises == F!FNext \/ UNCHANGED F!fvars

\* Any of Forwarding's actions will do.
LEMMA AnyAction ==
  ASSUME NEW c \in Convs,
         \/ F!Admit(c) \/ F!Leave(c)
         \/ \E t \in Targets : F!Ask(c, t) \/ F!Reach(c, t) \/ F!Fail(c, t)
                               \/ F!Hangup(c, t) \/ F!Join(c, t)
  PROVE  Promises
BY DEF Promises, F!FNext

\* Acquire admits, or counts what it will refuse.
LEMMA AcquireMaps ==
  ASSUME DInv, NEW c \in Convs, Fresh(c), Acquire(c), UNCHANGED <<at, stream>>
  PROVE  Promises
<1>1. stage \in [Convs -> Stages] /\ stage[c] = "idle"
  BY DEF DInv, ConvTypes, Fresh
<1>2. linkOf' = linkOf
  BY SameLinks
<1>3. joinedTo' = joinedTo
  <2>1. PICK s \in {"counted", "held"} : stage' = [stage EXCEPT ![c] = s]
    BY DEF Acquire
  <2>2. \A d \in Convs : Joins(stage'[d]) <=> Joins(stage[d])
    BY <1>1, <2>1 DEF Joins
  <2> QED BY <2>2, SameJoined
<1>4. CASE active + 1 > Limit
  <2>1. stage' = [stage EXCEPT ![c] = "counted"]
    BY <1>4 DEF Acquire
  <2>2. phaseOf' = phaseOf
    BY <1>1, <2>1, SamePhase, PhaseValues
  <2> QED BY <1>2, <1>3, <2>2 DEF Promises, F!fvars
<1>5. CASE ~(active + 1 > Limit)
  <2>1. stage' = [stage EXCEPT ![c] = "held"]
    BY <1>5 DEF Acquire
  <2>2. phaseOf' = [phaseOf EXCEPT ![c] = "held"]
    <3>1. phaseOf' = [phaseOf EXCEPT ![c] = PhaseOf("held")]
      BY <1>1, <2>1, StageMoves, Zenon
    <3> QED BY <3>1, PhaseValues
  <2>3. phaseOf[c] = "idle"
    BY <1>1, PhaseValues DEF phaseOf
  <2>4. active \in Nat /\ Limit \in Nat
    BY BusyFinite, DirectAssumption DEF DInv, CountHolds
  <2>5. Cardinality(F!Held) < Limit
    BY <1>5, <2>4, RoomToAdmit
  <2>6. F!Admit(c)
    BY <1>2, <1>3, <2>2, <2>3, <2>5, SameCount DEF F!Admit
  <2> QED BY <2>6, AnyAction
<1> QED BY <1>4, <1>5

\* Whatever ends a conversation is its leaving.
LEMMA LeaveMaps ==
  ASSUME DInv, NEW c \in Convs, stage[c] # "over", stage' = [stage EXCEPT ![c] = "over"],
         at' = at \/ at' = [at EXCEPT ![c] = None], UNCHANGED stream
  PROVE  Promises
<1>1. stage \in [Convs -> Stages] /\ at \in [Convs -> Targets \cup {None}]
  BY DEF DInv, ConvTypes
<1>2. phaseOf' = [phaseOf EXCEPT ![c] = "over"]
  <2>1. phaseOf' = [phaseOf EXCEPT ![c] = PhaseOf("over")]
    BY <1>1, StageMoves, Zenon
  <2> QED BY <2>1, PhaseValues
<1>3. phaseOf[c] # "over"
  BY <1>1, PhaseValues DEF phaseOf, Stages
<1>4. joinedTo' = [joinedTo EXCEPT ![c] = {}]
  BY <1>1 DEF joinedTo
<1>5. F!Leave(c)
  BY <1>2, <1>3, <1>4, SameLinks DEF F!Leave
<1> QED BY <1>5, AnyAction

LEMMA EndsMaps ==
  ASSUME DInv, NEW c \in Convs,
         \/ giveBack(c) \/ refuse(c) \/ pipeEnds(c) \/ pumpReleases(c)
         \/ pickSession(c) /\ Usable = {}
  PROVE  Promises
<1>1. /\ stage[c] # "over" /\ stage' = [stage EXCEPT ![c] = "over"]
      /\ at' = at \/ at' = [at EXCEPT ![c] = None]
      /\ UNCHANGED stream
  BY DEF giveBack, refuse, pipeEnds, pumpReleases, pickSession, Over
<1> QED BY <1>1, LeaveMaps

\* A session is picked, or a flow leaves the table: nothing to be seen.
LEMMA PicksMaps ==
  ASSUME DInv, NEW c \in Convs, (pickSession(c) /\ Usable # {}) \/ pumpEnds(c)
  PROVE  Promises
<1>1. UNCHANGED <<at, stream>>
  BY DEF pickSession, pumpEnds
<1>2. \/ stage[c] = "held" /\ stage' = [stage EXCEPT ![c] = "opening"]
      \/ stage[c] = "joined" /\ stage' = [stage EXCEPT ![c] = "deleted"]
  BY DEF pickSession, pumpEnds
<1>3. stage \in [Convs -> Stages]
  BY DEF DInv, ConvTypes
<1>4. phaseOf' = phaseOf
  BY <1>2, <1>3, SamePhase, PhaseValues
<1>5. \A d \in Convs : Joins(stage'[d]) <=> Joins(stage[d])
  BY <1>2, <1>3 DEF Joins
<1>6. joinedTo' = joinedTo
  BY <1>1, <1>5, SameJoined
<1> QED BY <1>1, <1>4, <1>6, SameLinks DEF Promises, F!fvars

\* A target is asked for, for the first time; on a dead session nobody notices.
LEMMA OpenStreamMaps ==
  ASSUME DInv, NEW c \in Convs, openStream(c)
  PROVE  Promises
<1>1. PICK t \in left[c] :
         \/ at' = [at EXCEPT ![c] = t] /\ stream' = [stream EXCEPT ![c][t] = "asked"]
         \/ UNCHANGED <<at, stream>>
  BY DEF openStream
<1>2. stage[c] = "opening" /\ UNCHANGED stage
  BY DEF openStream
<1>3. /\ t \in Targets /\ stream[c][t] = "none"
      /\ stream \in [Convs -> [Targets -> StreamStates]] /\ at \in [Convs -> Targets \cup {None}]
  BY DEF DInv, ConvTypes, Untried
<1>4. phaseOf' = phaseOf /\ phaseOf[c] = "held"
  BY <1>2, PhaseValues DEF phaseOf
<1>5. \A d \in Convs : Joins(stage[d]) => at'[d] = at[d]
  BY <1>1, <1>2, <1>3 DEF Joins
<1>6. joinedTo' = joinedTo
  BY <1>2, <1>5, SameJoined
<1>7. CASE stream' = [stream EXCEPT ![c][t] = "asked"]
  <2>1. linkOf' = [linkOf EXCEPT ![c][t] = LinkOf("asked")]
    BY <1>3, <1>7, StreamMoves, Zenon
  <2>2. linkOf[c][t] = "none"
    BY <1>3, LinkValues DEF linkOf
  <2>3. F!Ask(c, t)
    BY <1>4, <1>6, <2>1, <2>2, LinkValues DEF F!Ask
  <2> QED BY <1>3, <2>3, AnyAction
<1>8. CASE UNCHANGED stream
  BY <1>4, <1>6, <1>8, SameLinks DEF Promises, F!fvars
<1> QED BY <1>1, <1>7, <1>8

LEMMA NextTargetMaps ==
  ASSUME DInv, NEW c \in Convs, nextTarget(c)
  PROVE  Promises
<1>1. /\ stage[c] = "opening" /\ UNCHANGED <<stage, stream>>
      /\ at' = [at EXCEPT ![c] = None]
  BY DEF nextTarget
<1>2. \A d \in Convs : Joins(stage[d]) => at'[d] = at[d]
  BY <1>1 DEF DInv, ConvTypes, Joins
<1>3. joinedTo' = joinedTo /\ phaseOf' = phaseOf
  BY <1>1, <1>2, SameJoined DEF phaseOf
<1> QED BY <1>1, <1>3, SameLinks DEF Promises, F!fvars

\* The user is joined to the target that answered, and to no other.
LEMMA JoinMaps ==
  ASSUME DInv, NEW c \in Convs, join(c)
  PROVE  Promises
<1>1. /\ stage[c] = "opening" /\ at[c] # None /\ stream[c][at[c]] \in {"ok", "done"}
      /\ stage' = [stage EXCEPT ![c] = "joined"] /\ UNCHANGED <<at, stream>>
  BY DEF join, answered
<1>2. PICK t \in Targets : t = at[c]
  BY <1>1 DEF DInv, ConvTypes
<1>3. stage \in [Convs -> Stages]
  BY DEF DInv, ConvTypes
<1>4. phaseOf[c] = "held" /\ phaseOf' = [phaseOf EXCEPT ![c] = "joined"]
  BY <1>1, <1>3, StageMoves, PhaseValues DEF phaseOf
<1>5. linkOf[c][t] \in {"reached", "ended"}
  BY <1>1, <1>2, LinkValues DEF linkOf
<1>6. joinedTo[c] = {}
  BY <1>1 DEF joinedTo
<1>7. joinedTo' = [joinedTo EXCEPT ![c] = {t}]
  BY <1>1, <1>2, <1>3 DEF joinedTo
<1>8. F!Join(c, t)
  BY <1>1, <1>4, <1>5, <1>6, <1>7, SameLinks DEF F!Join
<1> QED BY <1>8, AnyAction

\* The origin's steps on a stream, one by one.
LEMMA OriginMaps ==
  ASSUME DInv, NEW c \in Convs, NEW t \in Targets,
         \/ serveStream(c, t) \/ requestLost(c, t) \/ reachBackend(c, t)
         \/ missBackend(c, t) \/ relayEnds(c, t)
  PROVE  Promises
<1>1. UNCHANGED <<stage, at>>
  BY DEF serveStream, requestLost, reachBackend, missBackend, relayEnds, Becomes
<1>2. phaseOf' = phaseOf /\ joinedTo' = joinedTo
  BY <1>1 DEF phaseOf, joinedTo
<1>3. stream \in [Convs -> [Targets -> StreamStates]]
  BY DEF DInv, ConvTypes
<1>4. linkOf[c][t] = LinkOf(stream[c][t])
  BY DEF linkOf
<1>5. CASE serveStream(c, t)
  <2>1. stream[c][t] = "asked" /\ stream' = [stream EXCEPT ![c][t] = "dialing"]
    BY <1>5 DEF serveStream, Becomes
  <2>2. linkOf' = [linkOf EXCEPT ![c][t] = LinkOf("dialing")]
    BY <1>3, <2>1, StreamMoves, Zenon
  <2>3. linkOf' = linkOf
    BY <1>4, <2>1, <2>2, LinkValues DEF linkOf
  <2> QED BY <1>2, <2>3 DEF Promises, F!fvars
<1>6. CASE requestLost(c, t) \/ missBackend(c, t)
  <2>1. stream[c][t] \in {"asked", "dialing"} /\ stream' = [stream EXCEPT ![c][t] = "failed"]
    BY <1>6 DEF requestLost, missBackend, Becomes
  <2>2. linkOf' = [linkOf EXCEPT ![c][t] = LinkOf("failed")]
    BY <1>3, <2>1, StreamMoves, Zenon
  <2>4. linkOf[c][t] = "asked"
    BY <1>4, <2>1, LinkValues
  <2>3. F!Fail(c, t)
    BY <1>2, <2>2, <2>4, LinkValues DEF F!Fail
  <2> QED BY <2>3, AnyAction
<1>7. CASE reachBackend(c, t)
  <2>1. /\ t \notin Forbidden /\ stream[c][t] = "dialing"
        /\ stream' = [stream EXCEPT ![c][t] = "ok"]
    BY <1>7 DEF reachBackend, vetTarget, Becomes
  <2>2. linkOf' = [linkOf EXCEPT ![c][t] = LinkOf("ok")]
    BY <1>3, <2>1, StreamMoves, Zenon
  <2>4. linkOf[c][t] = "asked"
    BY <1>4, <2>1, LinkValues
  <2>3. F!Reach(c, t)
    BY <1>2, <2>1, <2>2, <2>4, LinkValues DEF F!Reach
  <2> QED BY <2>3, AnyAction
<1>8. CASE relayEnds(c, t)
  <2>1. stream[c][t] = "ok" /\ stream' = [stream EXCEPT ![c][t] = "done"]
    BY <1>8 DEF relayEnds, Becomes
  <2>2. linkOf' = [linkOf EXCEPT ![c][t] = LinkOf("done")]
    BY <1>3, <2>1, StreamMoves, Zenon
  <2>4. linkOf[c][t] = "reached"
    BY <1>4, <2>1, LinkValues
  <2>3. F!Hangup(c, t)
    BY <1>2, <2>2, <2>4, LinkValues DEF F!Hangup
  <2> QED BY <2>3, AnyAction
<1> QED BY <1>5, <1>6, <1>7, <1>8

LEMMA NothingSeen == ASSUME UNCHANGED <<stage, at, stream>> PROVE Promises
BY DEF Promises, F!fvars, phaseOf, linkOf, joinedTo

LEMMA StepMaps == DInv /\ [DirectNext]_directVars => Promises
<1> SUFFICES ASSUME DInv, [DirectNext]_directVars PROVE Promises
  OBVIOUS
<1>1. CASE \E i \in Slots : Dial(i) \/ addSession(i) \/ dialFails(i) \/ removeSession(i)
  BY <1>1, KeeperStep, NothingSeen DEF convs
<1>2. CASE \E s \in SessionIds : \/ acceptSession(s) \/ originReplies(s) \/ originServes(s)
                               \/ Cut(s) \/ markDead(s) \/ originLoses(s)
  BY <1>2, EndsStep, NothingSeen DEF convs
<1>3. ASSUME NEW c \in Convs, handle(c) \/ \E k \in Clients : udpFlowFor(c, k)
      PROVE  Promises
  BY <1>3, AcquireMaps DEF handle, udpFlowFor
<1>4. ASSUME NEW c \in Convs,
             \/ giveBack(c) \/ pickSession(c) \/ refuse(c)
             \/ pipeEnds(c) \/ pumpEnds(c) \/ pumpReleases(c)
      PROVE  Promises
  BY <1>4, EndsMaps, PicksMaps
<1>5. ASSUME NEW c \in Convs, openStream(c) \/ nextTarget(c) \/ join(c)
      PROVE  Promises
  BY <1>5, OpenStreamMaps, NextTargetMaps, JoinMaps
<1>6. ASSUME NEW c \in Convs, NEW t \in Targets,
             \/ serveStream(c, t) \/ requestLost(c, t) \/ reachBackend(c, t)
             \/ missBackend(c, t) \/ relayEnds(c, t)
      PROVE  Promises
  BY <1>6, OriginMaps
<1>7. CASE \E k \in Clients : forward(k) \/ reapUDPFlows(k)
  BY <1>7, NothingSeen DEF forward, reapUDPFlows
<1>8. CASE UNCHANGED directVars
  BY <1>8, NothingSeen DEF directVars
<1> QED BY <1>1, <1>2, <1>3, <1>4, <1>5, <1>6, <1>7, <1>8 DEF DirectNext

LEMMA InitMaps == DirectInit => F!FInit
BY PhaseValues, LinkValues DEF DirectInit, F!FInit, phaseOf, linkOf, joinedTo

\* The direct tunnel forwards as Forwarding promises, for any number of
\* conversations, targets, sessions and cuts, and any cap: every step of the
\* edge or the origin is one of Forwarding's or changes nothing it speaks of.
THEOREM DirectForwards == DirectSpec => Forwards /\ F!FSpec
<1>1. Promises => [F!FNext]_F!fvars /\ [UNCHANGED directVars \/ F!FNext]_F!fvars
  BY DEF Promises
<1> QED BY <1>1, InitDInv, StepDInv, InitMaps, StepMaps, PTL DEF DirectSpec, Forwards, F!FSpec

-----------------------------------------------------------------------------
(***************************************************************************)
(* What follows from Forwarding, of the direct tunnel.                     *)
(***************************************************************************)
\* Only backends that may be reached are.
Vetted == \A c \in Convs : \A t \in Targets :
             linkOf[c][t] \in {"reached", "ended"} => t \notin Forbidden

\* What a user is joined to was reached for it, and it is one backend.
WellJoined == \A c \in Convs : \A t \in joinedTo[c] :
                /\ joinedTo[c] = {t} /\ phaseOf[c] = "joined" /\ t \in Targets
                /\ linkOf[c][t] \in {"reached", "ended"}

MapTypes == /\ phaseOf \in [Convs -> {"idle", "held", "joined", "over"}]
            /\ linkOf \in [Convs -> [Targets -> {"none", "asked", "reached", "ended", "refused"}]]
            /\ joinedTo \in [Convs -> SUBSET (Targets \cup {None})]

CapHolds == Cardinality(F!Held) <= Limit

LEMMA DInvMapTypes == DInv => MapTypes
<1> SUFFICES ASSUME DInv PROVE MapTypes
  OBVIOUS
<1>1. \A s \in Stages : PhaseOf(s) \in {"idle", "held", "joined", "over"}
  BY PhaseValues DEF Stages
<1>2. \A s \in StreamStates : LinkOf(s) \in {"none", "asked", "reached", "ended", "refused"}
  BY LinkValues DEF StreamStates
<1>3. phaseOf \in [Convs -> {"idle", "held", "joined", "over"}]
  BY <1>1 DEF DInv, ConvTypes, phaseOf
<1>4. linkOf \in [Convs -> [Targets -> {"none", "asked", "reached", "ended", "refused"}]]
  BY <1>2 DEF DInv, ConvTypes, linkOf
<1>5. joinedTo \in [Convs -> SUBSET (Targets \cup {None})]
  BY DEF DInv, ConvTypes, joinedTo
<1> QED BY <1>3, <1>4, <1>5 DEF MapTypes

LEMMA HeldFinite == IsFiniteSet(F!Held) /\ Cardinality(F!Held) \in Nat
<1>1. F!Held \subseteq Convs
  BY DEF F!Held
<1> QED BY <1>1, ConvsFinite, FS_Subset, FS_CardinalityType

PInv == CapHolds /\ WellJoined /\ Vetted

LEMMA InitPInv == F!FInit => PInv
<1> SUFFICES ASSUME F!FInit PROVE PInv
  OBVIOUS
<1>1. F!Held = {}
  BY DEF F!FInit, F!Held
<1>2. CapHolds
  BY <1>1, FS_EmptySet, DirectAssumption DEF CapHolds
<1>3. WellJoined /\ Vetted
  BY DEF F!FInit, WellJoined, Vetted
<1> QED BY <1>2, <1>3 DEF PInv

\* An admission takes a place that was free; every other step keeps or frees one.
LEMMA CapStep ==
  ASSUME MapTypes, MapTypes', CapHolds, Promises
  PROVE  CapHolds'
<1>1. CASE UNCHANGED F!fvars
  <2>1. F!Held' = F!Held
    BY <1>1 DEF F!fvars, F!Held
  <2> QED BY <2>1 DEF CapHolds
<1>2. ASSUME NEW c \in Convs, F!Admit(c)
      PROVE  CapHolds'
  <2>1. F!Held' = F!Held \cup {c} /\ c \notin F!Held
    BY <1>2 DEF F!Admit, F!Held, MapTypes
  <2>2. Cardinality(F!Held) < Limit
    BY <1>2, SameCount DEF F!Admit
  <2>3. Cardinality(F!Held') = Cardinality(F!Held) + 1
    BY <2>1, HeldFinite, FS_AddElement
  <2> QED BY <2>2, <2>3, HeldFinite, DirectAssumption DEF CapHolds
<1>3. ASSUME NEW c \in Convs,
             \/ F!Leave(c)
             \/ \E t \in Targets : F!Ask(c, t) \/ F!Reach(c, t) \/ F!Fail(c, t)
                                   \/ F!Hangup(c, t) \/ F!Join(c, t)
      PROVE  CapHolds'
  <2>1. F!Held' \subseteq F!Held
    BY <1>3 DEF F!Leave, F!Ask, F!Reach, F!Fail, F!Hangup, F!Join, F!Held, MapTypes
  <2>2. Cardinality(F!Held') <= Cardinality(F!Held) /\ Cardinality(F!Held') \in Nat
    BY <2>1, HeldFinite, FS_Subset, FS_CardinalityType
  <2> QED BY <2>2, HeldFinite, DirectAssumption DEF CapHolds
<1> QED BY <1>1, <1>2, <1>3 DEF Promises, F!FNext

LEMMA VettedStep ==
  ASSUME MapTypes, Vetted, Promises
  PROVE  Vetted'
<1>1. CASE UNCHANGED linkOf
  BY <1>1 DEF Vetted
<1>2. ASSUME NEW c \in Convs, NEW t \in Targets,
             F!Ask(c, t) \/ F!Reach(c, t) \/ F!Fail(c, t) \/ F!Hangup(c, t)
      PROVE  Vetted'
  <2>1. PICK v \in {"asked", "reached", "refused", "ended"} :
          /\ linkOf' = [linkOf EXCEPT ![c][t] = v]
          /\ v = "reached" => t \notin Forbidden
          /\ v = "ended" => linkOf[c][t] = "reached"
    BY <1>2 DEF F!Ask, F!Reach, F!Fail, F!Hangup
  <2> QED BY <2>1 DEF Vetted, MapTypes
<1> QED BY <1>1, <1>2 DEF Promises, F!FNext, F!fvars, F!Admit, F!Leave, F!Join

LEMMA JoinedStep ==
  ASSUME MapTypes, WellJoined, Promises
  PROVE  WellJoined'
<1>1. CASE UNCHANGED F!fvars
  BY <1>1 DEF WellJoined, F!fvars
<1>2. ASSUME NEW c \in Convs, F!Admit(c) \/ F!Leave(c)
      PROVE  WellJoined'
  <2>1. /\ UNCHANGED linkOf
        /\ \A d \in Convs \ {c} : phaseOf'[d] = phaseOf[d] /\ joinedTo'[d] = joinedTo[d]
    BY <1>2 DEF F!Admit, F!Leave, MapTypes
  <2>2. joinedTo'[c] = {}
    BY <1>2 DEF F!Admit, F!Leave, MapTypes, WellJoined
  <2> QED BY <2>1, <2>2 DEF WellJoined
<1>3. ASSUME NEW c \in Convs, NEW t \in Targets,
             F!Ask(c, t) \/ F!Reach(c, t) \/ F!Fail(c, t) \/ F!Hangup(c, t)
      PROVE  WellJoined'
  <2>1. PICK v \in {"asked", "reached", "refused", "ended"} :
          linkOf' = [linkOf EXCEPT ![c][t] = v]
    BY <1>3 DEF F!Ask, F!Reach, F!Fail, F!Hangup
  <2>2. /\ UNCHANGED <<phaseOf, joinedTo>>
        /\ linkOf[c][t] \in {"reached", "ended"} => v \in {"reached", "ended"}
    BY <1>3, <2>1 DEF F!Ask, F!Reach, F!Fail, F!Hangup, MapTypes
  <2> QED BY <2>1, <2>2 DEF WellJoined, MapTypes
<1>4. ASSUME NEW c \in Convs, NEW t \in Targets, F!Join(c, t)
      PROVE  WellJoined'
  <2>1. /\ UNCHANGED linkOf
        /\ \A d \in Convs \ {c} : phaseOf'[d] = phaseOf[d] /\ joinedTo'[d] = joinedTo[d]
    BY <1>4 DEF F!Join, MapTypes
  <2>2. /\ joinedTo'[c] = {t} /\ phaseOf'[c] = "joined"
        /\ linkOf[c][t] \in {"reached", "ended"}
    BY <1>4 DEF F!Join, MapTypes
  <2> QED BY <2>1, <2>2 DEF WellJoined
<1> QED BY <1>1, <1>2, <1>3, <1>4 DEF Promises, F!FNext

\* Of the direct tunnel, for every value of the constants: at most Limit users
\* are held at once, whatever refusals are in flight; a user is joined to one
\* backend, the one its own stream asked for and reached; and never to an
\* address vetTarget refuses.
THEOREM DirectKeepsPromise == DirectSpec => []F!Promised
<1>1. PInv => F!Promised
  <2>1. SUFFICES ASSUME PInv PROVE F!Promised
    OBVIOUS
  <2>2. F!Cardinality(F!Held) <= Limit
    BY <2>1, SameCount DEF PInv, CapHolds
  <2>3. ASSUME NEW c \in Convs, NEW t \in joinedTo[c]
        PROVE  /\ joinedTo[c] = {t} /\ phaseOf[c] = "joined"
               /\ linkOf[c][t] \in {"reached", "ended"}
               /\ t \in Targets \ Forbidden
    BY <2>1, <2>3 DEF PInv, WellJoined, Vetted
  <2> QED BY <2>2, <2>3 DEF F!Promised
<1>2. DInv /\ MapTypes /\ MapTypes' /\ PInv /\ [DirectNext]_directVars => PInv'
  BY StepMaps, CapStep, VettedStep, JoinedStep DEF PInv
<1>3. DInv => MapTypes
  BY DInvMapTypes
<1> QED BY <1>1, <1>2, <1>3, InitDInv, StepDInv, InitMaps, InitPInv, PTL DEF DirectSpec
=============================================================================
