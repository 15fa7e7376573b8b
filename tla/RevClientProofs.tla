--------------------------- MODULE RevClientProofs ---------------------------
(***************************************************************************)
(* Proofs about RevClient, for any pool, growth limit, window, channel     *)
(* sizes and number of generations: nobody is short of a connection        *)
(* because the pool shrinks, the counter of open connections never shows   *)
(* too many, and a nonce once proven is never given up.                    *)
(***************************************************************************)
EXTENDS RevClient, TLAPS

(* The numbers, and what one generation leaves to the next.                  *)
Numbers ==
    /\ control \in {"dialling", "up", "ending", "stopped"} /\ run \in 1..MaxRuns
    /\ misses \in 0..LegacyMissThreshold /\ nonce \in 0..MaxRuns
    /\ open \in Int /\ taken \in Nat /\ shrink \in 0..FlowRoom
    /\ size \in ConnPoolSize..(ConnPoolSize * GrowthLimit)
    /\ openSum \in Int /\ second \in 0..Window
    /\ pool \in Nat /\ old \in Nat /\ dials \in Nat /\ stale \in Nat
    /\ waiting \in Nat /\ requests \in 0..ChannelSize /\ lost \in Nat
    /\ outages \in 0..MaxOutages

(* A generation that is not up has nobody waiting and a pool of the          *)
(* configured size to come, and a new one has withheld nothing; one that     *)
(* ends while the tunnel lives is followed by another.                       *)
Between ==
    /\ control # "up" => waiting = 0 /\ size = ConnPoolSize
    /\ control = "dialling" => shrink = 0
    /\ control = "ending" => run < MaxRuns \/ ~parent

(* While up, what waits, is dialled or asked for covers everyone who waits,  *)
(* the requests withheld and the size the sizer aims at: a step down of that *)
(* size is a request withheld.                                               *)
Covered == control = "up" => waiting + shrink + size <= pool + dials + requests + lost

NumInv == Numbers /\ Between

------------------------------------------------------------------------------
\* The size the sizer may grow to.
LEMMA Limits ==
  /\ ConnPoolSize \in Nat \ {0} /\ ConnPoolSize * GrowthLimit \in Nat
  /\ ConnPoolSize <= ConnPoolSize * GrowthLimit
BY SizesAssumption DEF SizesAssumption

\* An average of integers is one.
LEMMA PerSecond == ASSUME NEW n \in Int PROVE perSecond(n) \in Int
BY SizesAssumption DEF perSecond, SizesAssumption

\* The numbers keep their range, and generations hand over as they should.
LEMMA NumStep == NumInv /\ [Next]_vars => NumInv'
<1> SUFFICES ASSUME NumInv, [Next]_vars PROVE NumInv'
  OBVIOUS
<1>0. /\ ConnPoolSize \in Nat \ {0} /\ FlowRoom \in Nat \ {0} /\ ChannelSize \in Nat \ {0}
      /\ LegacyMissThreshold \in Nat \ {0} /\ MaxRuns \in Nat \ {0} /\ Window \in Nat \ {0}
      /\ MaxOutages \in Nat
  BY SizesAssumption DEF SizesAssumption
<1> DEFINE Top == ConnPoolSize * GrowthLimit
<1>a. Top \in Nat /\ ConnPoolSize <= Top
  BY Limits
<1> USE <1>0, <1>a DEF NumInv, Numbers, Between, probe, sizer, world, demand, conns
<1>1. CASE UNCHANGED vars \/ DialFails
  BY <1>1 DEF vars, DialFails
<1>2. CASE HandshakeClosed
  BY <1>2 DEF HandshakeClosed, miss
<1>3. CASE HandshakeRefused
  BY <1>3 DEF HandshakeRefused, ack
<1>4. CASE HandshakeAnswered
  BY <1>4 DEF HandshakeAnswered, ack
<1>5. CASE RestartBegins
  BY <1>5 DEF RestartBegins
<1>6. CASE RestartEnds
  BY <1>6 DEF RestartEnds
<1>7. CASE RestartAbandoned
  BY <1>7 DEF RestartAbandoned
<1>8. CASE ChanSignal
  BY <1>8 DEF ChanSignal
<1>9. CASE ParentEnds
  BY <1>9 DEF ParentEnds
<1>10. CASE StopsWithParent
  BY <1>10 DEF StopsWithParent
<1>11. CASE TunnelUp \/ TunnelFails
  BY <1>11 DEF TunnelUp, TunnelFails
<1>12. CASE StaleDialEnds
  BY <1>12 DEF StaleDialEnds
<1>13. CASE ConnectionLost \/ OldConnectionEnds
  BY <1>13 DEF ConnectionLost, OldConnectionEnds
<1>14. CASE Paired
  BY <1>14 DEF Paired
<1>15. CASE Sample
  BY <1>15 DEF Sample, Halt
<1>16. CASE Decide
  BY <1>16 DEF Decide, Halt, wantsMore, poolCanGrow, wantsLess
<1>17. CASE UserArrives
  BY <1>17 DEF UserArrives
<1>18. CASE UserGivesUp
  BY <1>18 DEF UserGivesUp
<1>19. CASE PathFails \/ PathReturns \/ ServerUpgraded
  BY <1>19 DEF PathFails, PathReturns, ServerUpgraded
<1> QED BY <1>1, <1>2, <1>3, <1>4, <1>5, <1>6, <1>7, <1>8, <1>9, <1>10, <1>11, <1>12, <1>13,
           <1>14, <1>15, <1>16, <1>17, <1>18, <1>19 DEF Next

\* The invariant of the numbers, in every reachable state.
LEMMA NumAlways == Spec => []NumInv
<1>1. Init => NumInv
  <2> SUFFICES ASSUME Init PROVE NumInv
    OBVIOUS
  <2>1. /\ FlowRoom \in Nat \ {0} /\ ChannelSize \in Nat \ {0} /\ LegacyMissThreshold \in Nat \ {0}
        /\ MaxRuns \in Nat \ {0} /\ Window \in Nat \ {0} /\ MaxOutages \in Nat
    BY SizesAssumption DEF SizesAssumption
  <2> QED BY <2>1, Limits DEF Init, NumInv, Numbers, Between
<1> QED BY <1>1, NumStep, PTL DEF Spec

(* The flags are flags.                                                      *)
Flags == {parent, legacy, answered, peer, path, serverV2} \subseteq BOOLEAN

LEMMA FlagStep == Flags /\ [Next]_vars => Flags'
<1> SUFFICES ASSUME Flags, [Next]_vars PROVE Flags'
  OBVIOUS
<1> USE DEF Flags, probe, sizer, world, demand, conns
<1>1. CASE UNCHANGED vars \/ DialFails
  BY <1>1 DEF vars, DialFails
<1>2. CASE HandshakeClosed
  BY <1>2 DEF HandshakeClosed, miss
<1>3. CASE HandshakeRefused
  BY <1>3 DEF HandshakeRefused, ack
<1>4. CASE HandshakeAnswered
  BY <1>4 DEF HandshakeAnswered, ack
<1>5. CASE RestartBegins \/ RestartAbandoned \/ StopsWithParent
  BY <1>5 DEF RestartBegins, RestartAbandoned, StopsWithParent
<1>9. CASE RestartEnds
  BY <1>9 DEF RestartEnds
<1>6. CASE ChanSignal \/ ParentEnds \/ TunnelUp \/ TunnelFails \/ StaleDialEnds
  BY <1>6 DEF ChanSignal, ParentEnds, TunnelUp, TunnelFails, StaleDialEnds
<1>7. CASE ConnectionLost \/ OldConnectionEnds \/ Paired \/ Sample \/ Decide
  BY <1>7 DEF ConnectionLost, OldConnectionEnds, Paired, Sample, Decide, Halt
<1>8. CASE UserArrives \/ UserGivesUp \/ PathFails \/ PathReturns \/ ServerUpgraded
  BY <1>8 DEF UserArrives, UserGivesUp, PathFails, PathReturns, ServerUpgraded
<1> QED BY <1>1, <1>2, <1>3, <1>4, <1>5, <1>6, <1>7, <1>8, <1>9 DEF Next

\* Type correctness (TypeOK), with it that the size the sizer aims at stays
\* between the configured pool and poolGrowthLimit times it (poolmaintain.go),
\* that the tokens withheld fit controlFlow, and that a generation follows only
\* while the tunnel lives.
THEOREM ClientTypeCorrect == Spec => []TypeOK
<1>1. Init => Flags
  BY SizesAssumption DEF Init, Flags, SizesAssumption
<1>2. NumInv /\ Flags => TypeOK
  BY DEF NumInv, Numbers, Flags, TypeOK
<1> QED BY <1>1, <1>2, NumAlways, FlagStep, PTL DEF Spec

------------------------------------------------------------------------------
(* Nobody is short                                                          *)

\* Every step keeps those who wait covered.
LEMMA CoveredStep == NumInv /\ Covered /\ [Next]_vars => Covered'
<1> SUFFICES ASSUME NumInv, Covered, [Next]_vars, control' = "up" PROVE Covered'
  BY DEF Covered
<1>0. /\ waiting \in Nat /\ shrink \in Nat /\ size \in Nat /\ pool \in Nat /\ dials \in Nat
      /\ requests \in Nat /\ lost \in Nat
  BY Limits, SizesAssumption DEF NumInv, Numbers, SizesAssumption
<1> USE <1>0 DEF Covered, probe, sizer, world, demand, conns
<1>1. CASE UNCHANGED vars \/ DialFails
  BY <1>1 DEF vars, DialFails
<1>2. CASE HandshakeClosed \/ HandshakeRefused
  BY <1>2 DEF HandshakeClosed, HandshakeRefused
<1>4. CASE HandshakeAnswered
  <2>1. waiting = 0 /\ size = ConnPoolSize /\ shrink = 0 /\ ConnPoolSize \in Nat
    BY <1>4, Limits DEF HandshakeAnswered, NumInv, Between
  <2> QED BY <1>4, <2>1 DEF HandshakeAnswered
<1>5. CASE RestartBegins \/ RestartEnds \/ RestartAbandoned \/ StopsWithParent
  BY <1>5 DEF RestartBegins, RestartEnds, RestartAbandoned, StopsWithParent
<1>8. CASE ChanSignal
  BY <1>8 DEF ChanSignal
<1>9. CASE ParentEnds
  BY <1>9 DEF ParentEnds
<1>11. CASE TunnelUp
  BY <1>11 DEF TunnelUp
<1>12. CASE TunnelFails
  BY <1>12 DEF TunnelFails
<1>13. CASE StaleDialEnds
  BY <1>13 DEF StaleDialEnds
<1>14. CASE ConnectionLost \/ OldConnectionEnds
  BY <1>14 DEF ConnectionLost, OldConnectionEnds
<1>15. CASE Paired
  BY <1>15 DEF Paired
<1>16. CASE Sample
  BY <1>16 DEF Sample, Halt
<1>17. CASE Decide
  <2>1. control = "up" /\ UNCHANGED <<pool, waiting, requests, lost>>
    BY <1>17 DEF Decide, Halt
  <2>2. \/ size' = size + 1 /\ dials' = dials + 1 /\ shrink' = shrink
        \/ size' = size - 1 /\ dials' = dials /\ shrink' = shrink + 1
        \/ size' = size /\ dials' = dials /\ shrink' = shrink
    BY <1>17 DEF Decide
  <2> QED BY <2>1, <2>2
<1>18. CASE UserArrives
  BY <1>18 DEF UserArrives
<1>19. CASE UserGivesUp
  BY <1>19 DEF UserGivesUp
<1>20. CASE PathFails \/ PathReturns \/ ServerUpgraded
  BY <1>20 DEF PathFails, PathReturns, ServerUpgraded
<1> QED BY <1>1, <1>2, <1>4, <1>5, <1>8, <1>9, <1>11, <1>12, <1>13, <1>14, <1>15, <1>16, <1>17,
           <1>18, <1>19, <1>20 DEF Next

\* No user is short of a connection because the pool shrinks (NobodyIsShort;
\* poolSizer.maintain, poolmaintain.go, and the requests channelHandler uses up):
\* for any pool, growth limit, factors and channel sizes.
THEOREM PoolCoversAll == Spec => []NobodyIsShort
<1>1. Init => Covered
  BY DEF Init, Covered
<1>2. NumInv /\ Covered => NobodyIsShort
  <2> SUFFICES ASSUME NumInv, Covered, control = "up"
               PROVE  waiting + shrink + ConnPoolSize <= pool + dials + requests + lost
    BY DEF NobodyIsShort
  <2>1. /\ waiting \in Nat /\ shrink \in Nat /\ size \in Nat /\ pool \in Nat /\ dials \in Nat
        /\ requests \in Nat /\ lost \in Nat /\ ConnPoolSize \in Nat /\ ConnPoolSize <= size
    BY Limits, SizesAssumption DEF NumInv, Numbers, SizesAssumption
  <2> QED BY <2>1 DEF Covered
<1> QED BY <1>1, <1>2, NumAlways, CoveredStep, PTL DEF Spec

------------------------------------------------------------------------------
(* The counter of open connections                                          *)

\* Every connection that leaves is counted out, and Restart counts none in.
LEMMA OpenStep == NumInv /\ OpenNeverOver /\ [Next]_vars => OpenNeverOver'
<1> SUFFICES ASSUME NumInv, OpenNeverOver, [Next]_vars PROVE OpenNeverOver'
  OBVIOUS
<1>0. open \in Int /\ pool \in Nat /\ old \in Nat
  BY DEF NumInv, Numbers
<1> USE <1>0 DEF OpenNeverOver, probe, sizer, world, demand, conns
<1>1. CASE UNCHANGED vars \/ DialFails
  BY <1>1 DEF vars, DialFails
<1>2. CASE HandshakeClosed \/ HandshakeRefused \/ HandshakeAnswered
  BY <1>2 DEF HandshakeClosed, HandshakeRefused, HandshakeAnswered
<1>3. CASE RestartBegins \/ StopsWithParent
  BY <1>3 DEF RestartBegins, StopsWithParent
<1>4. CASE RestartEnds \/ RestartAbandoned
  BY <1>4 DEF RestartEnds, RestartAbandoned
<1>5. CASE ChanSignal \/ ParentEnds \/ TunnelFails
  BY <1>5 DEF ChanSignal, ParentEnds, TunnelFails
<1>6. CASE TunnelUp
  BY <1>6 DEF TunnelUp
<1>7. CASE StaleDialEnds
  BY <1>7 DEF StaleDialEnds
<1>8. CASE ConnectionLost \/ OldConnectionEnds \/ Paired
  BY <1>8 DEF ConnectionLost, OldConnectionEnds, Paired
<1>9. CASE Sample \/ Decide
  BY <1>9 DEF Sample, Decide, Halt
<1>10. CASE UserArrives \/ UserGivesUp \/ PathFails \/ PathReturns \/ ServerUpgraded
  BY <1>10 DEF UserArrives, UserGivesUp, PathFails, PathReturns, ServerUpgraded
<1> QED BY <1>1, <1>2, <1>3, <1>4, <1>5, <1>6, <1>7, <1>8, <1>9, <1>10 DEF Next

\* poolConnections never shows more connections than wait (OpenNeverOver), over
\* any number of generations and whatever each of them leaves behind.
THEOREM CounterNeverOver == Spec => []OpenNeverOver
<1>1. Init => OpenNeverOver
  BY DEF Init, OpenNeverOver
<1> QED BY <1>1, NumAlways, OpenStep, PTL DEF Spec

------------------------------------------------------------------------------
(* The nonce                                                                *)

(* The old handshake is in use only with a server that has never issued a    *)
(* nonce.                                                                    *)
Proven ==
    /\ legacy \in BOOLEAN /\ answered \in BOOLEAN
    /\ ~(legacy /\ answered)
    /\ NonceOnceProven

\* Nothing makes the client forget that the server issues nonces.
LEMMA ProvenStep == Proven /\ [Next]_vars => Proven'
<1> SUFFICES ASSUME Proven, [Next]_vars PROVE Proven'
  OBVIOUS
<1> USE DEF Proven, NonceOnceProven, probe, sizer, world, demand, conns
<1>1. CASE UNCHANGED vars \/ DialFails
  BY <1>1 DEF vars, DialFails
<1>2. CASE HandshakeClosed
  BY <1>2 DEF HandshakeClosed, miss
<1>3. CASE HandshakeRefused
  BY <1>3 DEF HandshakeRefused, ack
<1>4. CASE HandshakeAnswered
  BY <1>4 DEF HandshakeAnswered, ack
<1>5. CASE RestartBegins \/ RestartAbandoned \/ StopsWithParent
  BY <1>5 DEF RestartBegins, RestartAbandoned, StopsWithParent
<1>9. CASE RestartEnds
  BY <1>9 DEF RestartEnds
<1>6. CASE ChanSignal \/ ParentEnds \/ TunnelUp \/ TunnelFails \/ StaleDialEnds
  BY <1>6 DEF ChanSignal, ParentEnds, TunnelUp, TunnelFails, StaleDialEnds
<1>7. CASE ConnectionLost \/ OldConnectionEnds \/ Paired \/ Sample \/ Decide
  BY <1>7 DEF ConnectionLost, OldConnectionEnds, Paired, Sample, Decide, Halt
<1>8. CASE UserArrives \/ UserGivesUp \/ PathFails \/ PathReturns \/ ServerUpgraded
  BY <1>8 DEF UserArrives, UserGivesUp, PathFails, PathReturns, ServerUpgraded
<1> QED BY <1>1, <1>2, <1>3, <1>4, <1>5, <1>6, <1>7, <1>8, <1>9 DEF Next

\* A server that has ever issued a nonce is never again talked to without one
\* (NonceOnceProven; legacyProbe, miss and ack), for any miss threshold and any
\* number of generations.
THEOREM NonceKept == Spec => []NonceOnceProven
<1>1. Init => Proven
  BY DEF Init, Proven, NonceOnceProven
<1>2. Proven => NonceOnceProven
  BY DEF Proven
<1> QED BY <1>1, <1>2, ProvenStep, PTL DEF Spec
==============================================================================
