---------------------------- MODULE RevMuxProofs -----------------------------
(***************************************************************************)
(* Proofs about RevMux, for any number of sessions, streams per session,   *)
(* connections and runs: the two counters count what they are meant to,    *)
(* and there is always room, there or asked for, for one stream more.      *)
(***************************************************************************)
EXTENDS RevMux, FiniteSetTheorems, TLAPS

(* A session takes a connection only into a free slot, and a run that ends   *)
(* is followed by another.                                                   *)
MuxInv ==
    /\ TypeOK
    /\ \A s \in Sessions : at[s] = "holding" => slots[s] < MuxCon
    /\ live = FALSE => run < MaxRuns

------------------------------------------------------------------------------
(* How the sets that are counted change                                     *)

\* They are finite.
LEMMA Finite ==
  /\ IsFiniteSet(Streams) /\ IsFiniteSet(Holding) /\ IsFiniteSet(Active)
  /\ Cardinality(Streams) \in Nat /\ Cardinality(Holding) \in Nat /\ Cardinality(Active) \in Nat
<1>0. IsFiniteSet(Sessions) /\ IsFiniteSet(1 .. MuxCon)
  BY MuxAssumption, FS_Interval DEF MuxAssumption
<1>1. IsFiniteSet(Sessions \X (1 .. MuxCon))
  BY <1>0, FS_Product, Zenon
<1>2. Streams \in SUBSET (Sessions \X (1 .. MuxCon))
  BY DEF Streams
<1>3. Holding \in SUBSET Sessions /\ Active \in SUBSET Sessions
  BY DEF Holding, Active
<1>4. IsFiniteSet(Streams) /\ IsFiniteSet(Holding) /\ IsFiniteSet(Active)
  BY <1>1, <1>2, <1>3, FS_Subset, MuxAssumption DEF MuxAssumption
<1> QED BY <1>4, FS_CardinalityType

\* There are n numbers from 1 to n.
LEMMA FirstNumbers ==
  ASSUME NEW n \in Nat
  PROVE  Cardinality(1 .. n) = n /\ IsFiniteSet(1 .. n)
<1>1. 1 \in Int /\ n \in Int
  OBVIOUS
<1>2. IsFiniteSet(1 .. n) /\ Cardinality(1 .. n) = IF 1 > n THEN 0 ELSE n - 1 + 1
  BY <1>1, FS_Interval, Zenon
<1> QED BY <1>2

\* A stream more, a stream less, and all the streams of a session at once.
LEMMA StreamOpened ==
  ASSUME MuxInv, NEW s \in Sessions, slots[s] < MuxCon, slots' = [slots EXCEPT ![s] = @ + 1]
  PROVE  Cardinality(Streams)' = Cardinality(Streams) + 1
<1>1. Streams' = Streams \cup {<<s, slots[s] + 1>>} /\ <<s, slots[s] + 1>> \notin Streams
  BY MuxAssumption DEF Streams, MuxInv, TypeOK, MuxAssumption
<1> QED BY <1>1, Finite, FS_AddElement

LEMMA StreamClosed ==
  ASSUME MuxInv, NEW s \in Sessions, slots[s] > 0, slots' = [slots EXCEPT ![s] = @ - 1]
  PROVE  Cardinality(Streams)' = Cardinality(Streams) - 1
<1>1. Streams' = Streams \ {<<s, slots[s]>>} /\ <<s, slots[s]>> \in Streams
  BY MuxAssumption DEF Streams, MuxInv, TypeOK, MuxAssumption
<1> QED BY <1>1, Finite, FS_RemoveElement

LEMMA StreamsDropped ==
  ASSUME MuxInv, NEW s \in Sessions, slots' = [slots EXCEPT ![s] = 0]
  PROVE  Cardinality(Streams)' = Cardinality(Streams) - slots[s]
<1> DEFINE Own == {s} \X (1 .. slots[s])
<1>1. Streams' = Streams \ Own /\ Streams \cap Own = Own
  BY MuxAssumption DEF Streams, MuxInv, TypeOK, MuxAssumption
<1>2. slots[s] \in Nat
  BY MuxAssumption DEF MuxInv, TypeOK, MuxAssumption
<1>3. Cardinality(1 .. slots[s]) = slots[s] /\ IsFiniteSet(1 .. slots[s])
  BY <1>2, FirstNumbers
<1>4. Cardinality({s}) = 1 /\ IsFiniteSet({s})
  BY FS_Singleton
<1>5. Cardinality(Own) = slots[s]
  <2>1. Cardinality(Own) = Cardinality({s}) * Cardinality(1 .. slots[s])
    BY <1>3, <1>4, FS_Product, Zenon
  <2> QED BY <1>2, <1>3, <1>4, <2>1
<1> HIDE DEF Own
<1>6. Cardinality(Streams \ Own) = Cardinality(Streams) - Cardinality(Streams \cap Own)
  BY Finite, FS_Difference
<1> QED BY <1>1, <1>5, <1>6

\* A session comes to hold a connection, or lets it go.
LEMMA HeldOne ==
  ASSUME MuxInv, NEW s \in Sessions, at[s] # "holding", at' = [at EXCEPT ![s] = "holding"]
  PROVE  Cardinality(Holding)' = Cardinality(Holding) + 1
<1>1. Holding' = Holding \cup {s} /\ s \notin Holding
  BY DEF Holding, MuxInv, TypeOK
<1> QED BY <1>1, Finite, FS_AddElement

LEMMA LetGo ==
  ASSUME MuxInv, NEW s \in Sessions, at[s] = "holding", NEW a, a # "holding",
         at' = [at EXCEPT ![s] = a]
  PROVE  Cardinality(Holding)' = Cardinality(Holding) - 1
<1>1. Holding' = Holding \ {s} /\ s \in Holding
  BY DEF Holding, MuxInv, TypeOK
<1> QED BY <1>1, Finite, FS_RemoveElement

\* A session begins, ends, or stays.
LEMMA Joined ==
  ASSUME MuxInv, NEW s \in Sessions, at[s] = "none", at' = [at EXCEPT ![s] = "taking"]
  PROVE  Cardinality(Active)' = Cardinality(Active) + 1 /\ Holding' = Holding
<1>1. Active' = Active \cup {s} /\ s \notin Active /\ Holding' = Holding
  BY DEF Active, Holding, MuxInv, TypeOK
<1> QED BY <1>1, Finite, FS_AddElement

LEMMA Left ==
  ASSUME MuxInv, NEW s \in Sessions, at[s] # "none", at' = [at EXCEPT ![s] = "none"]
  PROVE  Cardinality(Active)' = Cardinality(Active) - 1
<1>1. Active' = Active \ {s} /\ s \in Active
  BY DEF Active, MuxInv, TypeOK
<1> QED BY <1>1, Finite, FS_RemoveElement

LEMMA Stays ==
  ASSUME MuxInv, NEW s \in Sessions, at[s] # "none", NEW a, a # "none", at' = [at EXCEPT ![s] = a]
  PROVE  Active' = Active
BY DEF Active, MuxInv, TypeOK

------------------------------------------------------------------------------
(* The type invariant                                                       *)

\* Type correctness, and no session ever carries more than MuxCon streams.
LEMMA MuxInvStep == MuxInv /\ [Next]_vars => MuxInv'
<1> SUFFICES ASSUME MuxInv, [Next]_vars PROVE MuxInv'
  OBVIOUS
<1> USE MuxAssumption DEF MuxAssumption, MuxInv, TypeOK
<1> USE DEF channels, counters, past, history
<1>1. CASE UNCHANGED vars
  BY <1>1 DEF vars
<1>2. CASE Accept
  BY <1>2 DEF Accept, Ask
<1>3. CASE AcceptFlow
  BY <1>3 DEF AcceptFlow, Ask
<1>4. CASE SendChan
  BY <1>4 DEF SendChan
<1>5. CASE deliverTunnelConn
  BY <1>5 DEF deliverTunnelConn
<1>6. CASE DialLost
  BY <1>6 DEF DialLost
<1>7. ASSUME NEW s \in Sessions, handleLoop(s) PROVE MuxInv'
  BY <1>7 DEF handleLoop
<1>8. ASSUME NEW s \in Sessions, Breaks(s) PROVE MuxInv'
  BY <1>8 DEF Breaks
<1>9. ASSUME NEW s \in Sessions, Takes(s) PROVE MuxInv'
  BY <1>9 DEF Takes
<1>10. ASSUME NEW s \in Sessions, Expires(s) PROVE MuxInv'
  BY <1>10 DEF Expires
<1>11. ASSUME NEW s \in Sessions, failed(s) PROVE MuxInv'
  BY <1>11 DEF failed, requeueLocal, Ask
<1>12. ASSUME NEW s \in Sessions, AnnounceFails(s) PROVE MuxInv'
  BY <1>12 DEF AnnounceFails, requeueLocal
<1>13. ASSUME NEW s \in Sessions, Carries(s) PROVE MuxInv'
  BY <1>13 DEF Carries
<1>14. ASSUME NEW s \in Sessions, StreamEnds(s) PROVE MuxInv'
  BY <1>14 DEF StreamEnds
<1>15. CASE LooseStreamEnds
  BY <1>15 DEF LooseStreamEnds
<1>16. CASE RunEnds
  BY <1>16 DEF RunEnds
<1>17. CASE Restart
  BY <1>17, Finite DEF Restart
<1>18. CASE LeftoverEnds
  BY <1>18 DEF LeftoverEnds
<1>19. CASE HeldOverEnds
  BY <1>19 DEF HeldOverEnds
<1> QED BY <1>1, <1>2, <1>3, <1>4, <1>5, <1>6, <1>7, <1>8, <1>9, <1>10, <1>11, <1>12, <1>13,
           <1>14, <1>15, <1>16, <1>17, <1>18, <1>19 DEF Next

\* Type correctness (TypeOK) for any number of sessions, runs and connections:
\* the queue, the requests and the sessions waiting stay within their channels,
\* and no session ever carries more than MuxCon streams (muxSession.run).
THEOREM MuxTypeCorrect == Spec => []TypeOK
<1>1. Init => MuxInv
  BY MuxAssumption DEF Init, MuxInv, TypeOK, MuxAssumption
<1>2. MuxInv => TypeOK
  BY DEF MuxInv
<1> QED BY <1>1, <1>2, MuxInvStep, PTL DEF Spec

LEMMA MuxInvAlways == Spec => []MuxInv
<1>1. Init => MuxInv
  BY MuxAssumption DEF Init, MuxInv, TypeOK, MuxAssumption
<1> QED BY <1>1, MuxInvStep, PTL DEF Spec

------------------------------------------------------------------------------
(* The counters                                                             *)

\* No step counts a connection or a session twice, or forgets one.
LEMMA CountedStep == MuxInv /\ Counted /\ [Next]_vars => Counted'
<1> SUFFICES ASSUME MuxInv, Counted, [Next]_vars PROVE Counted'
  OBVIOUS
<1> DEFINE S == Cardinality(Streams)
           H == Cardinality(Holding)
           A == Cardinality(Active)
<1>0. /\ queued \in Nat /\ loose \in Nat /\ streamCounter \in Int /\ sessionCounter \in Int
      /\ drift \in Nat /\ under \in Nat /\ slots \in [Sessions -> 0 .. MuxCon] /\ MuxCon \in Nat
  BY MuxAssumption DEF MuxInv, TypeOK, MuxAssumption
<1>a. S \in Nat /\ H \in Nat /\ A \in Nat
  BY Finite
<1>b. live => /\ streamCounter + drift = queued + H + S + loose
              /\ sessionCounter + under = A
  BY DEF Counted, UnderWay
<1> DEFINE Goal == live' => /\ streamCounter' + drift' = queued' + H' + S' + loose'
                            /\ sessionCounter' + under' = A'
<1>c. SUFFICES Goal
  BY DEF Counted, UnderWay
<1>d. ASSUME slots' = slots PROVE S' = S
  BY <1>d DEF Streams
<1>e. ASSUME at' = at PROVE H' = H /\ A' = A
  BY <1>e DEF Holding, Active
<1> HIDE DEF S, H, A
<1> USE <1>0, <1>a, <1>b DEF channels, counters, past, history
<1>1. CASE UNCHANGED vars
  BY <1>1, <1>d, <1>e DEF vars
<1>2. CASE Accept
  BY <1>2, <1>d, <1>e DEF Accept
<1>3. CASE AcceptFlow
  BY <1>3, <1>d, <1>e DEF AcceptFlow
<1>4. CASE SendChan \/ deliverTunnelConn \/ DialLost
  BY <1>4, <1>d, <1>e DEF SendChan, deliverTunnelConn, DialLost
<1>7. ASSUME NEW s \in Sessions, handleLoop(s) PROVE Goal
  <2>1. A' = A + 1 /\ H' = H
    BY <1>7, Joined DEF handleLoop, A, H
  <2> QED BY <1>7, <2>1, <1>d DEF handleLoop
<1>8. ASSUME NEW s \in Sessions, Breaks(s) PROVE Goal
  BY <1>8, <1>d, <1>e DEF Breaks
<1>9. ASSUME NEW s \in Sessions, Takes(s) PROVE Goal
  <2>1. H' = H + 1 /\ A' = A
    BY <1>9, HeldOne, Stays DEF Takes, H, A
  <2> QED BY <1>9, <2>1, <1>d DEF Takes
<1>10. ASSUME NEW s \in Sessions, Expires(s) PROVE Goal
  <2>1. H' = H - 1 /\ A' = A
    BY <1>10, LetGo, Stays DEF Expires, H, A
  <2> QED BY <1>10, <2>1, <1>d DEF Expires
<1>11. ASSUME NEW s \in Sessions, failed(s) PROVE Goal
  <2>1. H' = H - 1 /\ A' = A - 1
    BY <1>11, LetGo, Left DEF failed, H, A
  <2>2. S' = S - slots[s]
    BY <1>11, StreamsDropped DEF failed, S
  <2>3. slots[s] \in Nat
    OBVIOUS
  <2> QED BY <1>11, <2>1, <2>2, <2>3 DEF failed, requeueLocal
<1>12. ASSUME NEW s \in Sessions, AnnounceFails(s) PROVE Goal
  <2>1. H' = H - 1 /\ A' = A
    BY <1>12, LetGo, Stays DEF AnnounceFails, H, A
  <2> QED BY <1>12, <2>1, <1>d DEF AnnounceFails, requeueLocal
<1>13. ASSUME NEW s \in Sessions, Carries(s) PROVE Goal
  <2>1. H' = H - 1 /\ A' = A
    BY <1>13, LetGo, Stays DEF Carries, H, A
  <2>2. S' = S + 1
    BY <1>13, StreamOpened DEF Carries, S, MuxInv
  <2> QED BY <1>13, <2>1, <2>2 DEF Carries
<1>14. ASSUME NEW s \in Sessions, StreamEnds(s) PROVE Goal
  <2>1. S' = S - 1
    BY <1>14, StreamClosed DEF StreamEnds, S
  <2> QED BY <1>14, <2>1, <1>e DEF StreamEnds
<1>15. CASE LooseStreamEnds
  BY <1>15, <1>d, <1>e DEF LooseStreamEnds
<1>16. CASE RunEnds
  BY <1>16 DEF RunEnds
<1>17. CASE Restart
  <2>1. Streams' = {} /\ Holding' = {} /\ Active' = {}
    BY <1>17, MuxAssumption DEF Restart, Streams, Holding, Active, MuxAssumption
  <2>2. S' = 0 /\ H' = 0 /\ A' = 0
    BY <2>1, FS_EmptySet DEF S, H, A
  <2> QED BY <1>17, <2>2 DEF Restart
<1>18. CASE LeftoverEnds
  BY <1>18, <1>d, <1>e DEF LeftoverEnds
<1>19. CASE HeldOverEnds
  BY <1>19, <1>d, <1>e DEF HeldOverEnds
<1> QED BY <1>1, <1>2, <1>3, <1>4, <1>7, <1>8, <1>9, <1>10, <1>11, <1>12, <1>13,
           <1>14, <1>15, <1>16, <1>17, <1>18, <1>19 DEF Next

\* What the stream and the session counter count (Counted, muxsession.go), for
\* any number of sessions and through every way a session, a stream or a run ends.
THEOREM CountersRight == Spec => []Counted
<1>1. Init => Counted
  <2> SUFFICES ASSUME Init PROVE Counted
    OBVIOUS
  <2>1. Streams = {} /\ Holding = {} /\ Active = {}
    BY MuxAssumption DEF Init, Streams, Holding, Active, MuxAssumption
  <2> QED BY <2>1, FS_EmptySet DEF Init, Counted, UnderWay
<1> QED BY <1>1, MuxInvAlways, CountedStep, PTL DEF Spec

------------------------------------------------------------------------------
(* Room for all                                                             *)

\* Products of a session's room.
LEMMA Rooms ==
  ASSUME NEW a \in Int, NEW b \in Nat, NEW k \in Nat
  PROVE  a * k <= (a + b) * k /\ a * k \in Int /\ (a + b) * k \in Int
OBVIOUS

LEMMA OneMore == ASSUME NEW a \in Int, NEW k \in Nat PROVE (a + 1) * k = a * k + k
OBVIOUS

\* No step lets the connections outgrow the sessions there, on their way, asked
\* for or lost.
LEMMA RoomStep == MuxInv /\ RoomForAll /\ [Next]_vars => RoomForAll'
<1> SUFFICES ASSUME MuxInv, RoomForAll, [Next]_vars, live', drift' = 0, under' = 0
             PROVE  RoomForAll'
  BY DEF RoomForAll
<1> DEFINE T == sessionCounter + requests + dialled + arrived + lost
<1>1. /\ sessionCounter \in Int /\ requests \in Nat /\ dialled \in Nat /\ arrived \in Nat
      /\ lost \in Nat /\ streamCounter \in Int /\ drift \in Nat /\ under \in Nat
      /\ MuxCon \in Nat \ {0} /\ T \in Int
      /\ ConnPoolSize \in Nat \ {0}
  BY MuxAssumption DEF MuxInv, TypeOK, MuxAssumption
<1>2. ASSUME live, drift = 0, under = 0 PROVE streamCounter < T * MuxCon
  BY <1>2 DEF RoomForAll
<1>3. ASSUME live, drift = 0, under = 0, T' = T, streamCounter' \in Int,
             streamCounter' <= streamCounter
      PROVE  RoomForAll'
  BY <1>1, <1>2, <1>3 DEF RoomForAll
<1> USE <1>1 DEF channels, counters, past, history
<1>4. CASE Accept
  <2>1. live /\ drift = 0 /\ under = 0 /\ streamCounter' = streamCounter + 1
    BY <1>4 DEF Accept
  <2>2. CASE full
    <3>1. T' = T + 1
      BY <1>4, <2>2 DEF Accept, Ask
    <3>2. T' * MuxCon = T * MuxCon + MuxCon
      BY <3>1, OneMore
    <3>3. streamCounter' < T' * MuxCon
      BY <2>1, <3>2, <1>2
    <3> QED BY <3>3 DEF RoomForAll
  <2>3. CASE ~full
    <3>1. T' = T
      BY <1>4, <2>3 DEF Accept
    <3>2. streamCounter' < sessionCounter * MuxCon
      BY <2>1, <2>3 DEF full
    <3> DEFINE b == requests + dialled + arrived + lost
    <3>3. T = sessionCounter + b /\ b \in Nat
      OBVIOUS
    <3>4. sessionCounter * MuxCon <= T * MuxCon
      BY <3>3, Rooms
    <3>5. streamCounter' < T' * MuxCon
      BY <3>1, <3>2, <3>4, <2>1
    <3> QED BY <3>5 DEF RoomForAll
  <2> QED BY <2>2, <2>3
<1>5. CASE Restart
  <2>1. T' = ConnPoolSize /\ streamCounter' = 0
    BY <1>5 DEF Restart
  <2>2. 0 < ConnPoolSize * MuxCon
    OBVIOUS
  <2> QED BY <2>1, <2>2 DEF RoomForAll
<1>6. CASE UNCHANGED vars
  BY <1>6, <1>3 DEF vars
<1>7. ~AcceptFlow /\ ~LeftoverEnds
  <2>1. drift + 1 # 0
    OBVIOUS
  <2> QED BY <2>1 DEF AcceptFlow, LeftoverEnds
<1>8. CASE SendChan \/ deliverTunnelConn \/ DialLost \/ LooseStreamEnds
  <2>1. live /\ drift = 0 /\ under = 0
    BY <1>8 DEF SendChan, deliverTunnelConn, DialLost, LooseStreamEnds
  <2>3. streamCounter' = streamCounter \/ streamCounter' = streamCounter - 1
    BY <1>8 DEF SendChan, deliverTunnelConn, DialLost, LooseStreamEnds
  <2>4. streamCounter' \in Int /\ streamCounter' <= streamCounter
    BY <2>3
  <2>2. T' = T
    <3>1. CASE SendChan
      BY <3>1 DEF SendChan
    <3>2. CASE deliverTunnelConn
      BY <3>2 DEF deliverTunnelConn
    <3>3. CASE DialLost
      BY <3>3 DEF DialLost
    <3>4. CASE LooseStreamEnds
      BY <3>4 DEF LooseStreamEnds
    <3> QED BY <1>8, <3>1, <3>2, <3>3, <3>4
  <2> HIDE DEF T
  <2> QED BY <1>3, <2>1, <2>2, <2>4
<1>9. ASSUME NEW s \in Sessions,
             \/ handleLoop(s) \/ Breaks(s) \/ Takes(s) \/ Expires(s) \/ failed(s)
             \/ AnnounceFails(s) \/ Carries(s) \/ StreamEnds(s)
      PROVE  RoomForAll'
  <2>1. live /\ drift = 0 /\ under = 0
    BY <1>9 DEF handleLoop, Breaks, Takes, Expires, failed, AnnounceFails, Carries, StreamEnds
  <2>2. T' = T
    <3>1. CASE handleLoop(s)
      BY <3>1 DEF handleLoop
    <3>2. CASE failed(s)
      BY <3>2 DEF failed, Ask
    <3>3. CASE Breaks(s) \/ Takes(s) \/ Expires(s) \/ AnnounceFails(s) \/ Carries(s) \/ StreamEnds(s)
      <4>1. UNCHANGED <<sessionCounter, requests, dialled, arrived, lost>>
        BY <3>3 DEF Breaks, Takes, Expires, AnnounceFails, Carries, StreamEnds
      <4> QED BY <4>1
    <3> QED BY <1>9, <3>1, <3>2, <3>3
  <2>3. streamCounter' = streamCounter \/ streamCounter' = streamCounter - 1
    BY <1>9 DEF handleLoop, Breaks, Takes, Expires, failed, AnnounceFails, Carries, StreamEnds,
                requeueLocal
  <2>4. streamCounter' \in Int /\ streamCounter' <= streamCounter
    BY <2>3
  <2> HIDE DEF T
  <2> QED BY <1>3, <2>1, <2>2, <2>4
<1>10. CASE HeldOverEnds
  <2>1. live /\ drift = 0 /\ under = 0 /\ T' = T /\ streamCounter' = streamCounter
    BY <1>10 DEF HeldOverEnds
  <2> QED BY <1>3, <2>1
<1>11. CASE RunEnds
  BY <1>11 DEF RunEnds
<1> QED BY <1>4, <1>5, <1>6, <1>7, <1>8, <1>9, <1>10, <1>11 DEF Next

\* Nobody waits behind full sessions without another being asked for
\* (RoomForAll; acceptLocalConn and failed, muxsession.go), as long as the
\* counters have missed nothing, for any pool, MuxCon and channel size.
THEOREM AlwaysRoom == Spec => []RoomForAll
<1>1. Init => RoomForAll
  <2> SUFFICES ASSUME Init PROVE RoomForAll
    OBVIOUS
  <2>1. 0 < ConnPoolSize * MuxCon
    BY MuxAssumption DEF MuxAssumption
  <2>2. sessionCounter + requests + dialled + arrived + lost = ConnPoolSize /\ streamCounter = 0
    BY MuxAssumption DEF Init, MuxAssumption
  <2> QED BY <2>1, <2>2 DEF RoomForAll
<1> QED BY <1>1, MuxInvAlways, RoomStep, PTL DEF Spec
==============================================================================
