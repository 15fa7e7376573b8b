--------------------------- MODULE RevForwardProofs --------------------------
(***************************************************************************)
(* Whatever the number of users, runs, handle loops and queue places: the  *)
(* connection limiter counts exactly the connections that hold a slot, and *)
(* never admits more than max_connections.                                 *)
(*                                                                         *)
(* The count stays right when the handle loop takes a connection off the   *)
(* queue because a queue holds only waiting connections of its own run,    *)
(* each once: taking one, and releasing its slot, changes no other entry.  *)
(*                                                                         *)
(* Every variable keeps its type.  For the handle loops that is a count    *)
(* again: a loop that pairs a connection is away from its select, so the   *)
(* loops of a run at their select and its paired connections together are  *)
(* never more than the run started, and each pairing that ends puts one    *)
(* loop back.                                                              *)
(***************************************************************************)
EXTENDS RevForward, FiniteSetTheorems, TLAPS

SlotTypes == /\ active \in Int /\ at \in [Users -> Stages] /\ of \in [Users -> Runs]
             /\ run \in Int /\ queue \in [Runs -> Seq(Users)]

(* What waits in a queue is a queued connection of that run, and waits once. *)
QueueHolds == \A g \in Runs : \A i \in 1..Len(queue[g]) :
                  at[queue[g][i]] = "queued" /\ of[queue[g][i]] = g
QueuedOnce == \A g \in Runs : \A i, j \in 1..Len(queue[g]) :
                  queue[g][i] = queue[g][j] => i = j

FInv == SlotTypes /\ QueueHolds /\ QueuedOnce /\ Accounted /\ LimitHolds

------------------------------------------------------------------------------
(* The three things a step can do to the set of slot holders                 *)

(* Both sets are finite, and whoever is admitted holds a slot.               *)
LEMMA Finite ==
    /\ IsFiniteSet(Holders) /\ IsFiniteSet(Admitted)
    /\ Cardinality(Holders) \in Nat /\ Cardinality(Admitted) \in Nat
    /\ Cardinality(Admitted) <= Cardinality(Holders)
<1>1. IsFiniteSet(Holders)
  BY UsersAssumption, FS_Subset DEF Holders
<1>2. Admitted \subseteq Holders
  BY DEF Admitted, Holders
<1> QED
  BY <1>1, <1>2, FS_Subset, FS_CardinalityType

(* acquire: one more is counted, and admitted only within the limit.         *)
LEMMA Gains ==
    ASSUME SlotTypes, Accounted, LimitHolds, NEW u \in Users,
           at[u] = "away", active' = active + 1,
           at' = [at EXCEPT ![u] = IF active + 1 > MaxConnections THEN "over" ELSE "admitted"]
    PROVE  Accounted' /\ LimitHolds'
<1>1. Holders' = Holders \cup {u} /\ u \notin Holders
  BY DEF Holders, SlotTypes, Stages
<1>2. Cardinality(Holders') = Cardinality(Holders) + 1
  BY <1>1, Finite, FS_AddElement
<1>3. Accounted'
  BY <1>2 DEF Accounted
<1>4. CASE active + 1 > MaxConnections
  <2>1. Admitted' = Admitted
    BY <1>4 DEF Admitted, SlotTypes
  <2> QED
    BY <1>3, <2>1 DEF LimitHolds
<1>5. CASE ~(active + 1 > MaxConnections)
  <2>1. Admitted' = Admitted \cup {u} /\ u \notin Admitted
    BY <1>5 DEF Admitted, SlotTypes
  <2>2. Cardinality(Admitted') = Cardinality(Admitted) + 1
    BY <2>1, Finite, FS_AddElement
  <2>3. Cardinality(Admitted') <= active + 1
    BY <2>2, Finite DEF Accounted
  <2> QED
    BY <1>3, <1>5, <2>2, <2>3, Finite, SizesAssumption DEF LimitHolds, SlotTypes
<1> QED
  BY <1>4, <1>5

(* release: a holder's slot is given back.                                   *)
LEMMA Loses ==
    ASSUME SlotTypes, Accounted, LimitHolds, NEW u \in Users, at[u] # "away", release(u)
    PROVE  Accounted' /\ LimitHolds'
<1>1. Holders' = Holders \ {u} /\ u \in Holders
  BY DEF Holders, SlotTypes, release
<1>2. Cardinality(Holders') = Cardinality(Holders) - 1
  BY <1>1, Finite, FS_RemoveElement
<1>3. Admitted' \subseteq Admitted
  BY DEF Admitted, SlotTypes, release
<1>4. Cardinality(Admitted') <= Cardinality(Admitted) /\ Cardinality(Admitted') \in Nat
  BY <1>3, Finite, FS_Subset, FS_CardinalityType
<1> QED
  BY <1>2, <1>4, Finite, SizesAssumption DEF Accounted, LimitHolds, release

(* An admitted connection goes on to the next stage.                         *)
LEMMA Moves ==
    ASSUME SlotTypes, Accounted, LimitHolds, NEW u \in Users, NEW s \in Stages \ {"away", "over"},
           at[u] \notin {"away", "over"}, at' = [at EXCEPT ![u] = s], UNCHANGED active
    PROVE  Accounted' /\ LimitHolds'
<1>1. Holders' = Holders /\ Admitted' = Admitted
  BY DEF Holders, Admitted, SlotTypes
<1> QED
  BY <1>1 DEF Accounted, LimitHolds

(* A step that leaves the queues alone and takes a connection that is not    *)
(* queued to another stage disturbs no queue.                                *)
LEMMA QueuesKept ==
    ASSUME SlotTypes, QueueHolds, QueuedOnce, NEW u \in Users, NEW s \in Stages,
           at[u] # "queued", at' = [at EXCEPT ![u] = s], UNCHANGED queue,
           \A v \in Users : v # u => of'[v] = of[v]
    PROVE  QueueHolds' /\ QueuedOnce'
<1>1. ASSUME NEW g \in Runs, NEW i \in 1..Len(queue[g])
      PROVE  at'[queue[g][i]] = "queued" /\ of'[queue[g][i]] = g
  <2>1. queue[g] \in Seq(Users)
    BY DEF SlotTypes
  <2>2. queue[g][i] \in Users
    BY <1>1, <2>1
  <2>3. queue[g][i] # u
    BY <1>1 DEF QueueHolds
  <2> QED
    BY <1>1, <2>2, <2>3 DEF QueueHolds, SlotTypes
<1>2. QueueHolds'
  BY <1>1 DEF QueueHolds
<1> QED
  BY <1>2 DEF QueuedOnce

------------------------------------------------------------------------------
(* Every step keeps the invariant                                            *)

(* No connection, no queue, no slot.                                         *)
LEMMA InitFInv == Init => FInv
<1> SUFFICES ASSUME Init
             PROVE  FInv
  OBVIOUS
<1>1. SlotTypes
  BY SizesAssumption DEF Init, SlotTypes, Stages, Runs
<1>2. QueueHolds /\ QueuedOnce
  BY DEF Init, QueueHolds, QueuedOnce
<1>3. Holders = {} /\ Admitted = {}
  BY DEF Init, Holders, Admitted
<1>4. Accounted /\ LimitHolds
  BY <1>3, FS_EmptySet, SizesAssumption DEF Init, Accounted, LimitHolds
<1> QED
  BY <1>1, <1>2, <1>4 DEF FInv

(* A step that touches neither users, queues nor the counter.                *)
LEMMA Elsewhere ==
    ASSUME FInv, UNCHANGED <<active, at, of, run, queue>> PROVE FInv'
<1>1. Holders' = Holders /\ Admitted' = Admitted
  BY DEF Holders, Admitted
<1> QED
  BY <1>1 DEF FInv, SlotTypes, QueueHolds, QueuedOnce, Accounted, LimitHolds

(* acceptLocalConn asks the limiter.                                         *)
LEMMA AcquireFInv ==
    ASSUME FInv, NEW u \in Users, NEW g \in Runs, acquire(u, g)
    PROVE  FInv'
<1>1. SlotTypes'
  BY DEF FInv, SlotTypes, acquire, Stages
<1>2. Accounted' /\ LimitHolds'
  BY Gains DEF FInv, acquire
<1>3. PICK s \in Stages : at' = [at EXCEPT ![u] = s]
  BY DEF acquire, Stages
<1>4. QueueHolds' /\ QueuedOnce'
  BY <1>3, QueuesKept DEF FInv, SlotTypes, acquire
<1> QED
  BY <1>1, <1>2, <1>4 DEF FInv

(* A connection that is not queued gives its slot back.                      *)
LEMMA ReleaseFInv ==
    ASSUME FInv, NEW u \in Users, at[u] \notin {"away", "queued"}, release(u),
           UNCHANGED <<of, run, queue>>
    PROVE  FInv'
<1>1. SlotTypes'
  BY DEF FInv, SlotTypes, release, Stages
<1>2. Accounted' /\ LimitHolds'
  BY Loses DEF FInv
<1>3. QueueHolds' /\ QueuedOnce'
  <2>1. "away" \in Stages
    BY DEF Stages
  <2> QED
    BY <2>1, QueuesKept DEF FInv, release
<1> QED
  BY <1>1, <1>2, <1>3 DEF FInv

(* A connection that is not queued goes on.                                  *)
LEMMA MoveFInv ==
    ASSUME FInv, NEW u \in Users, NEW s \in Stages \ {"away", "over"},
           at[u] \notin {"away", "over", "queued"}, at' = [at EXCEPT ![u] = s],
           UNCHANGED <<active, of, run, queue>>
    PROVE  FInv'
<1>1. SlotTypes'
  BY DEF FInv, SlotTypes
<1>2. Accounted' /\ LimitHolds'
  BY Moves DEF FInv
<1>3. QueueHolds' /\ QueuedOnce'
  BY QueuesKept DEF FInv
<1> QED
  BY <1>1, <1>2, <1>3 DEF FInv

(* The connection joins the queue of its run, where it is not yet, or finds  *)
(* it full and gives its slot back.                                          *)
LEMMA EnqueueFInv ==
    ASSUME FInv, NEW u \in Users, Enqueue(u)
    PROVE  FInv'
<1>1. CASE Len(queue[of[u]]) >= ChannelSize
  <2>1. queue[of[u]] \in Seq(Users) /\ Len(queue[of[u]]) \in Nat
    BY DEF FInv, SlotTypes
  <2>2. release(u) /\ UNCHANGED <<of, run, queue>>
    BY <1>1, <2>1, SizesAssumption DEF Enqueue
  <2> QED
    BY <2>2, ReleaseFInv DEF Enqueue
<1>2. CASE ~(Len(queue[of[u]]) >= ChannelSize)
  <2> DEFINE h == of[u]
  <2>1. h \in Runs /\ queue[h] \in Seq(Users) /\ at[u] = "admitted"
    BY DEF FInv, SlotTypes, Enqueue
  <2>2. /\ queue' = [queue EXCEPT ![h] = Append(@, u)]
        /\ at' = [at EXCEPT ![u] = "queued"]
        /\ UNCHANGED <<active, of, run>>
    BY <1>2 DEF Enqueue
  <2> HIDE DEF h
  <2>3. SlotTypes'
    BY <2>1, <2>2 DEF FInv, SlotTypes, Stages
  <2>4. Accounted' /\ LimitHolds'
    BY <2>1, <2>2, Moves DEF FInv, Stages
  <2>5. ASSUME NEW g \in Runs, NEW i \in 1..Len(queue[g])
        PROVE  queue[g][i] \in Users /\ queue[g][i] # u /\ at[queue[g][i]] = "queued" /\ of[queue[g][i]] = g
    <3>1. queue[g] \in Seq(Users)
      BY DEF FInv, SlotTypes
    <3> QED
      BY <2>1, <2>5, <3>1 DEF FInv, QueueHolds
  <2>6. ASSUME NEW g \in Runs, NEW i \in 1..Len(queue'[g])
        PROVE  \/ i \in 1..Len(queue[g]) /\ queue'[g][i] = queue[g][i]
               \/ g = h /\ i = Len(queue[h]) + 1 /\ queue'[g][i] = u
    <3>1. CASE g # h
      BY <2>2, <2>6, <3>1 DEF FInv, SlotTypes
    <3>2. CASE g = h
      <4>1. queue'[g] = Append(queue[h], u)
        BY <2>1, <2>2, <3>2 DEF FInv, SlotTypes
      <4> QED
        BY <2>1, <2>6, <3>2, <4>1
    <3> QED
      BY <3>1, <3>2
  <2>7. QueueHolds'
    <3> SUFFICES ASSUME NEW g \in Runs, NEW i \in 1..Len(queue'[g])
                 PROVE  at'[queue'[g][i]] = "queued" /\ of'[queue'[g][i]] = g
      BY DEF QueueHolds
    <3>1. CASE i \in 1..Len(queue[g]) /\ queue'[g][i] = queue[g][i]
      BY <2>2, <2>5, <3>1 DEF FInv, SlotTypes
    <3>2. CASE g = h /\ queue'[g][i] = u
      BY <2>2, <3>2 DEF FInv, SlotTypes, h
    <3> QED
      BY <2>6, <3>1, <3>2
  <2>8. QueuedOnce'
    <3> SUFFICES ASSUME NEW g \in Runs, NEW i \in 1..Len(queue'[g]), NEW j \in 1..Len(queue'[g]),
                        queue'[g][i] = queue'[g][j]
                 PROVE  i = j
      BY DEF QueuedOnce
    <3>1. CASE i \in 1..Len(queue[g]) /\ j \in 1..Len(queue[g])
      <4>1. queue[g][i] = queue[g][j]
        BY <2>6, <3>1
      <4> QED
        BY <3>1, <4>1 DEF FInv, QueuedOnce
    <3>2. CASE i \notin 1..Len(queue[g]) \/ j \notin 1..Len(queue[g])
      BY <2>5, <2>6, <3>2
    <3> QED
      BY <3>1, <3>2
  <2> QED
    BY <2>3, <2>4, <2>7, <2>8 DEF FInv
<1> QED
  BY <1>1, <1>2

(* A handle loop takes the head of a queue: no other entry is that one.      *)
LEMMA LoopTakesFInv ==
    ASSUME FInv, NEW g \in Runs, LoopTakes(g)
    PROVE  FInv'
<1> DEFINE u == Head(queue[g])
<1>1. /\ queue[g] \in Seq(Users) /\ queue[g] # <<>> /\ Len(queue[g]) \in Nat
      /\ queue' = [queue EXCEPT ![g] = Tail(queue[g])]
      /\ u = queue[g][1] /\ u \in Users /\ 1 \in 1..Len(queue[g])
  BY DEF FInv, SlotTypes, LoopTakes
<1>2. at[u] = "queued" /\ of[u] = g
  BY <1>1 DEF FInv, QueueHolds
<1>3. \/ release(u)
      \/ at' = [at EXCEPT ![u] = "pairing"] /\ UNCHANGED active
  BY DEF LoopTakes
<1>4. UNCHANGED <<of, run>>
  BY DEF LoopTakes
<1> HIDE DEF u
<1>5. SlotTypes' /\ Accounted' /\ LimitHolds'
  <2>1. queue' \in [Runs -> Seq(Users)]
    BY <1>1 DEF FInv, SlotTypes
  <2>2. CASE release(u)
    <3>1. SlotTypes'
      BY <1>1, <1>4, <2>1, <2>2 DEF FInv, SlotTypes, release, Stages
    <3>2. Accounted' /\ LimitHolds'
      BY <1>1, <1>2, <2>2, Loses DEF FInv
    <3> QED
      BY <3>1, <3>2
  <2>3. CASE at' = [at EXCEPT ![u] = "pairing"] /\ UNCHANGED active
    BY <1>1, <1>2, <1>4, <2>1, <2>3, Moves DEF FInv, SlotTypes, Stages
  <2> QED
    BY <1>3, <2>2, <2>3
<1>6. \A v \in Users : v # u => at'[v] = at[v]
  BY <1>3 DEF release, FInv, SlotTypes
<1>7. ASSUME NEW h \in Runs, NEW i \in 1..Len(queue'[h])
      PROVE  \E k \in 1..Len(queue[h]) : /\ k = (IF h = g THEN i + 1 ELSE i)
                                         /\ queue'[h][i] = queue[h][k]
  <2>1. CASE h # g
    BY <1>1, <1>7, <2>1 DEF FInv, SlotTypes
  <2>2. CASE h = g
    <3>1. queue'[h] = Tail(queue[g])
      BY <1>1, <2>2 DEF FInv, SlotTypes
    <3>2. Len(queue'[h]) = Len(queue[g]) - 1 /\ i \in 1..(Len(queue[g]) - 1)
      <4>1. Len(Tail(queue[g])) = Len(queue[g]) - 1
        BY <1>1
      <4>2. i \in 1..Len(queue'[h])
        BY <1>7
      <4> QED
        BY <3>1, <4>1, <4>2
    <3>3. i + 1 \in 1..Len(queue[h]) /\ queue'[h][i] = queue[h][i + 1]
      BY <1>1, <2>2, <3>1, <3>2
    <3> QED
      BY <2>2, <3>3
  <2> QED
    BY <2>1, <2>2
<1>8. QueueHolds'
  <2> SUFFICES ASSUME NEW h \in Runs, NEW i \in 1..Len(queue'[h])
               PROVE  at'[queue'[h][i]] = "queued" /\ of'[queue'[h][i]] = h
    BY DEF QueueHolds
  <2>1. PICK k \in 1..Len(queue[h]) : /\ k = (IF h = g THEN i + 1 ELSE i)
                                      /\ queue'[h][i] = queue[h][k]
    BY <1>7
  <2>2. queue[h] \in Seq(Users) /\ queue[h][k] \in Users
    BY <2>1 DEF FInv, SlotTypes
  <2>3. at[queue[h][k]] = "queued" /\ of[queue[h][k]] = h
    BY <2>1 DEF FInv, QueueHolds
  <2>4. queue[h][k] # u
    <3>1. CASE h # g
      BY <1>2, <2>3, <3>1
    <3>2. CASE h = g
      <4>1. k # 1
        BY <1>7, <2>1, <3>2
      <4> QED
        BY <1>1, <2>1, <3>2, <4>1 DEF FInv, QueuedOnce
    <3> QED
      BY <3>1, <3>2
  <2> QED
    BY <1>4, <1>6, <2>1, <2>2, <2>3, <2>4
<1>9. QueuedOnce'
  <2> SUFFICES ASSUME NEW h \in Runs, NEW i \in 1..Len(queue'[h]), NEW j \in 1..Len(queue'[h]),
                      queue'[h][i] = queue'[h][j]
               PROVE  i = j
    BY DEF QueuedOnce
  <2>1. PICK k \in 1..Len(queue[h]) : k = (IF h = g THEN i + 1 ELSE i) /\ queue'[h][i] = queue[h][k]
    BY <1>7
  <2>2. PICK l \in 1..Len(queue[h]) : l = (IF h = g THEN j + 1 ELSE j) /\ queue'[h][j] = queue[h][l]
    BY <1>7
  <2>3. k = l
    BY <2>1, <2>2 DEF FInv, QueuedOnce
  <2> QED
    BY <2>1, <2>2, <2>3
<1> QED
  BY <1>5, <1>8, <1>9 DEF FInv

(* One case per action.                                                      *)
LEMMA StepFInv == FInv /\ [Next]_vars => FInv'
<1> SUFFICES ASSUME FInv, [Next]_vars
             PROVE  FInv'
  OBVIOUS
<1>1. ASSUME NEW g \in Runs, PortStep(g) \/ LoopEnds(g) \/ deliverTunnelConn(g) \/ RequestSent(g)
      PROVE  FInv'
  BY <1>1, Elsewhere DEF PortStep, PortHolds, PortBinds, PortReleases, LoopEnds,
                         deliverTunnelConn, RequestSent
<1>2. ASSUME NEW u \in Users, Refuse(u) \/ PairingEnded(u) \/ PairingTimeout(u) \/ RelayEnds(u)
      PROVE  FInv'
  BY <1>2, ReleaseFInv DEF Refuse, PairingEnded, PairingTimeout, RelayEnds, abandon
<1>3. ASSUME NEW u \in Users, PairingTakes(u) \/ AnnounceFails(u) \/ Relay(u)
      PROVE  FInv'
  BY <1>3, MoveFInv DEF PairingTakes, AnnounceFails, Relay, Stages
<1>4. CASE RunEnds \/ UNCHANGED vars
  BY <1>4, Elsewhere DEF RunEnds, vars
<1>5. CASE NextRun
  <2>1. Holders' = Holders /\ Admitted' = Admitted
    BY <1>5 DEF NextRun, Holders, Admitted
  <2> QED
    BY <1>5, <2>1 DEF NextRun, FInv, SlotTypes, QueueHolds, QueuedOnce, Accounted, LimitHolds
<1> QED
  BY <1>1, <1>2, <1>3, <1>4, <1>5, AcquireFInv, EnqueueFInv, LoopTakesFInv
     DEF Next, LoopStep, UserStep

(* For every number of users, runs, loops and places: the limiter's counter  *)
(* is the number of connections that hold a slot.                            *)
THEOREM SlotsAccounted == Spec => []Accounted
<1>1. FInv => Accounted
  BY DEF FInv
<1> QED
  BY InitFInv, StepFInv, <1>1, PTL DEF Spec

(* And max_connections is never exceeded, although acquire counts before it  *)
(* looks.                                                                    *)
THEOREM LimitNeverExceeded == Spec => []LimitHolds
<1>1. FInv => LimitHolds
  BY DEF FInv
<1> QED
  BY InitFInv, StepFInv, <1>1, PTL DEF Spec


------------------------------------------------------------------------------
(* Types, and the handle loops: one that pairs is away from its select       *)

(* The connections that keep a loop of run g busy.                           *)
Busy(g) == {u \in Users : at[u] \in {"pairing", "announcing"} /\ of[u] = g}

RunTypes == /\ run \in Runs /\ ctx \in [Runs -> {"unmade", "live", "done"}]
            /\ pool \in [Runs -> 0..ChannelSize] /\ requests \in [Runs -> 0..ChannelSize]
            /\ loops \in [Runs -> Nat]
            /\ port \in [Runs -> {"none", "spawned", "held", "bound", "failed"}]

(* Nothing is accepted by a run that has not begun.                          *)
NotBegun == /\ \A g \in Runs : port[g] # "none" => g <= run
            /\ \A u \in Users : of[u] <= run

(* A loop is at its select or busy with one connection.                      *)
LoopsCounted == \A g \in Runs : loops[g] + Cardinality(Busy(g)) <= HandleLoops

LoopsInv == FInv /\ RunTypes /\ NotBegun /\ LoopsCounted

LEMMA BusyFinite == \A g \in Runs : IsFiniteSet(Busy(g)) /\ Cardinality(Busy(g)) \in Nat
  BY UsersAssumption, FS_Subset, FS_CardinalityType DEF Busy

(* A connection that is not paired, and no loop, changes: as many are busy.  *)
LEMMA BusySame ==
    ASSUME LoopsCounted, UNCHANGED loops, \A g \in Runs : Busy(g)' = Busy(g)
    PROVE  LoopsCounted'
  BY DEF LoopsCounted

(* A loop takes a connection.                                                *)
LEMMA BusyJoins ==
    ASSUME LoopsInv, NEW g \in Runs, NEW u \in Users, at[u] = "queued", of[u] = g, loops[g] > 0,
           at' = [at EXCEPT ![u] = "pairing"], loops' = [loops EXCEPT ![g] = @ - 1], UNCHANGED of
    PROVE  LoopsCounted'
<1>1. /\ at \in [Users -> Stages] /\ loops \in [Runs -> Nat] /\ HandleLoops \in Nat
      /\ \A h \in Runs : loops[h] + Cardinality(Busy(h)) <= HandleLoops
  BY SizesAssumption DEF LoopsInv, FInv, SlotTypes, RunTypes, LoopsCounted
<1>2. Busy(g)' = Busy(g) \cup {u} /\ u \notin Busy(g)
  BY <1>1 DEF Busy
<1>3. Cardinality(Busy(g)') = Cardinality(Busy(g)) + 1 /\ loops'[g] = loops[g] - 1
  BY <1>1, <1>2, BusyFinite, FS_AddElement
<1>4. ASSUME NEW h \in Runs PROVE loops'[h] + Cardinality(Busy(h)') <= HandleLoops
  <2>1. CASE h = g
    BY <1>1, <1>3, <2>1, BusyFinite
  <2>2. CASE h # g
    <3>1. Busy(h)' = Busy(h) /\ loops'[h] = loops[h]
      BY <1>1, <2>2 DEF Busy
    <3> QED
      BY <1>1, <3>1
  <2> QED
    BY <2>1, <2>2
<1> QED
  BY <1>4 DEF LoopsCounted

(* A loop is free again.                                                     *)
LEMMA BusyLeaves ==
    ASSUME LoopsInv, NEW u \in Users, at[u] \in {"pairing", "announcing"},
           NEW s \in {"away", "relaying"}, at' = [at EXCEPT ![u] = s], LoopFreed(of[u]), UNCHANGED of
    PROVE  LoopsCounted' /\ loops' \in [Runs -> Nat]
<1> DEFINE g == of[u]
<1>1. /\ at \in [Users -> Stages] /\ loops \in [Runs -> Nat] /\ HandleLoops \in Nat /\ g \in Runs
      /\ \A h \in Runs : loops[h] + Cardinality(Busy(h)) <= HandleLoops
  BY SizesAssumption DEF LoopsInv, FInv, SlotTypes, RunTypes, LoopsCounted
<1>2. Busy(g)' = Busy(g) \ {u} /\ u \in Busy(g)
  BY <1>1 DEF Busy
<1>3. Cardinality(Busy(g)') = Cardinality(Busy(g)) - 1 /\ loops'[g] = loops[g] + 1
  <2>1. loops'[g] = loops[g] + 1
    BY <1>1 DEF LoopFreed
  <2>2. IsFiniteSet(Busy(g)) /\ u \in Busy(g)
    BY <1>1, <1>2, BusyFinite
  <2>3. Cardinality(Busy(g) \ {u}) = Cardinality(Busy(g)) - 1
    BY <2>2, FS_RemoveElement
  <2> QED
    BY <2>1, <2>3, <1>2
<1>4. ASSUME NEW h \in Runs PROVE loops'[h] + Cardinality(Busy(h)') <= HandleLoops
  <2>1. CASE h = g
    BY <1>1, <1>3, <2>1, BusyFinite
  <2>2. CASE h # g
    <3>1. Busy(h)' = Busy(h) /\ loops'[h] = loops[h]
      BY <1>1, <2>2 DEF Busy, LoopFreed
    <3> QED
      BY <1>1, <3>1
  <2> QED
    BY <2>1, <2>2
<1>5. loops' \in [Runs -> Nat]
  BY <1>1 DEF LoopFreed
<1> QED
  BY <1>4, <1>5 DEF LoopsCounted

LEMMA InitLoops == Init => LoopsInv
<1> SUFFICES ASSUME Init PROVE LoopsInv
  OBVIOUS
<1>1. RunTypes /\ NotBegun
  BY SizesAssumption DEF Init, RunTypes, NotBegun, Runs
<1>2. ASSUME NEW g \in Runs PROVE loops[g] + Cardinality(Busy(g)) <= HandleLoops
  <2>1. Busy(g) = {} /\ loops[g] \in 0..HandleLoops
    BY SizesAssumption DEF Init, Busy
  <2> QED
    BY <2>1, FS_EmptySet, SizesAssumption
<1> QED
  BY <1>1, <1>2, InitFInv DEF LoopsInv, LoopsCounted

LEMMA StepLoops == LoopsInv /\ [Next]_vars => LoopsInv'
<1> SUFFICES ASSUME LoopsInv, [Next]_vars PROVE LoopsInv'
  OBVIOUS
<1>f. FInv'
  BY StepFInv DEF LoopsInv
<1>t. /\ at \in [Users -> Stages] /\ of \in [Users -> Runs] /\ queue \in [Runs -> Seq(Users)]
      /\ run \in Runs /\ run \in Nat /\ ctx \in [Runs -> {"unmade", "live", "done"}]
      /\ pool \in [Runs -> 0..ChannelSize] /\ requests \in [Runs -> 0..ChannelSize]
      /\ loops \in [Runs -> Nat] /\ HandleLoops \in Nat \ {0} /\ ChannelSize \in Nat
      /\ port \in [Runs -> {"none", "spawned", "held", "bound", "failed"}]
  <2>1. run \in Nat
    BY SizesAssumption DEF LoopsInv, RunTypes, Runs
  <2> QED
    BY <2>1, SizesAssumption DEF LoopsInv, FInv, SlotTypes, RunTypes
<1>n. (\A g \in Runs : port[g] # "none" => g <= run) /\ \A u \in Users : of[u] <= run
  BY DEF LoopsInv, NotBegun
<1>c. LoopsCounted
  BY DEF LoopsInv
<1> DEFINE G == RunTypes' /\ NotBegun' /\ LoopsCounted'
\* Steps that leave loops and paired connections alone.
<1>s. ASSUME UNCHANGED loops, \A g \in Runs : Busy(g)' = Busy(g) PROVE LoopsCounted'
  BY <1>s, <1>c, BusySame
<1>1. ASSUME NEW g \in Runs, PortStep(g) PROVE G
  <2>1. UNCHANGED <<at, of, run, ctx, pool, requests, loops>>
    BY <1>1 DEF PortStep, PortHolds, PortBinds, PortReleases
  <2>2. port' \in [Runs -> {"none", "spawned", "held", "bound", "failed"}]
        /\ \A h \in Runs : port'[h] # "none" => port[h] # "none"
    BY <1>1, <1>t DEF PortStep, PortHolds, PortBinds, PortReleases
  <2>3. LoopsCounted'
    BY <2>1, <1>s DEF Busy
  <2> QED
    BY <2>1, <2>2, <2>3, <1>t, <1>n DEF RunTypes, NotBegun
<1>2. ASSUME NEW g \in Runs, LoopTakes(g) PROVE G
  <2> DEFINE u == Head(queue[g])
  <2>1. u \in Users /\ at[u] = "queued" /\ of[u] = g
    <3>1. queue[g] \in Seq(Users) /\ queue[g] # <<>> /\ 1 \in 1..Len(queue[g]) /\ u = queue[g][1]
      BY <1>2, <1>t DEF LoopTakes
    <3> QED
      BY <3>1 DEF LoopsInv, FInv, QueueHolds
  <2>2. UNCHANGED <<of, run, ctx, pool, requests, port>> /\ loops[g] > 0
    BY <1>2 DEF LoopTakes
  <2>3. CASE release(u) /\ UNCHANGED loops
    <3>1. \A h \in Runs : Busy(h)' = Busy(h)
      BY <2>1, <2>2, <2>3, <1>t DEF release, Busy
    <3> QED
      BY <2>2, <2>3, <3>1, <1>s, <1>t, <1>n DEF RunTypes, NotBegun
  <2>4. CASE at' = [at EXCEPT ![u] = "pairing"] /\ loops' = [loops EXCEPT ![g] = @ - 1]
    <3> HIDE DEF u
    <3>1. LoopsCounted'
      BY <2>1, <2>2, <2>4, BusyJoins
    <3>2. loops' \in [Runs -> Nat]
      BY <2>2, <2>4, <1>t
    <3> QED
      BY <2>2, <3>1, <3>2, <1>t, <1>n DEF RunTypes, NotBegun
  <2> QED
    BY <1>2, <2>3, <2>4 DEF LoopTakes
<1>3. ASSUME NEW g \in Runs, LoopEnds(g) PROVE G
  <2>1. UNCHANGED <<at, of, run, ctx, pool, requests, port>> /\ loops[g] > 0
        /\ loops' = [loops EXCEPT ![g] = @ - 1]
    BY <1>3 DEF LoopEnds
  <2>a. loops[g] \in Nat /\ loops[g] - 1 \in Nat
    BY <2>1, <1>t
  <2>b. loops' \in [Runs -> Nat]
    BY <2>1, <2>a, <1>t
  <2>2. \A h \in Runs : loops'[h] <= loops[h]
    <3> SUFFICES ASSUME NEW h \in Runs PROVE loops'[h] <= loops[h]
      OBVIOUS
    <3>1. loops[h] \in Nat /\ loops'[h] = IF h = g THEN loops[g] - 1 ELSE loops[h]
      BY <2>1, <1>t
    <3> QED
      BY <3>1, <2>a
  <2>3. \A h \in Runs : Busy(h)' = Busy(h)
    BY <2>1 DEF Busy
  <2>4. ASSUME NEW h \in Runs PROVE loops'[h] + Cardinality(Busy(h)') <= HandleLoops
    <3>1. /\ loops'[h] \in Nat /\ loops[h] \in Nat /\ loops'[h] <= loops[h] /\ HandleLoops \in Nat
          /\ Cardinality(Busy(h)) \in Nat /\ Busy(h)' = Busy(h)
      BY <2>b, <2>2, <2>3, <1>t, BusyFinite
    <3> QED
      BY <3>1, <1>c DEF LoopsCounted
  <2> QED
    BY <2>1, <2>b, <2>4, <1>t, <1>n DEF RunTypes, NotBegun, LoopsCounted
<1>4. ASSUME NEW g \in Runs, deliverTunnelConn(g) \/ RequestSent(g) PROVE G
  <2>1. UNCHANGED <<at, of, run, ctx, loops, port>>
    BY <1>4 DEF deliverTunnelConn, RequestSent
  <2>2. pool' \in [Runs -> 0..ChannelSize] /\ requests' \in [Runs -> 0..ChannelSize]
    <3>1. CASE deliverTunnelConn(g)
      <4>1. pool[g] + 1 \in 0..ChannelSize /\ pool' = [pool EXCEPT ![g] = pool[g] + 1] /\ requests' = requests
        BY <3>1, <1>t DEF deliverTunnelConn
      <4> QED
        BY <4>1, <1>t
    <3>2. CASE RequestSent(g)
      <4>1. requests[g] - 1 \in 0..ChannelSize /\ requests' = [requests EXCEPT ![g] = requests[g] - 1] /\ pool' = pool
        BY <3>2, <1>t DEF RequestSent
      <4> QED
        BY <4>1, <1>t
    <3> QED
      BY <1>4, <3>1, <3>2
  <2>3. LoopsCounted'
    BY <2>1, <1>s DEF Busy
  <2> QED
    BY <2>1, <2>2, <2>3, <1>t, <1>n DEF RunTypes, NotBegun
<1>5. ASSUME NEW u \in Users, NEW g \in Runs, acquire(u, g) PROVE G
  <2>1. /\ UNCHANGED <<run, ctx, pool, requests, loops, port>> /\ at[u] = "away" /\ port[g] = "bound"
        /\ of' = [of EXCEPT ![u] = g] /\ at'[u] \in {"over", "admitted"}
        /\ \A v \in Users : v # u => at'[v] = at[v]
    BY <1>5, <1>t DEF acquire
  <2>2. \A h \in Runs : Busy(h)' = Busy(h)
    BY <2>1, <1>t DEF Busy
  <2>3. \A v \in Users : of'[v] <= run
    BY <2>1, <1>t, <1>n
  <2> QED
    BY <2>1, <2>2, <2>3, <1>s, <1>t, <1>n DEF RunTypes, NotBegun
<1>6. ASSUME NEW u \in Users, Refuse(u) \/ RelayEnds(u) PROVE G
  <2>1. /\ UNCHANGED <<of, run, ctx, pool, requests, loops, port>>
        /\ at[u] \in {"over", "relaying"} /\ at' = [at EXCEPT ![u] = "away"]
    BY <1>6 DEF Refuse, RelayEnds, release
  <2>2. \A h \in Runs : Busy(h)' = Busy(h)
    BY <2>1, <1>t DEF Busy
  <2> QED
    BY <2>1, <2>2, <1>s, <1>t, <1>n DEF RunTypes, NotBegun
<1>7. ASSUME NEW u \in Users, Enqueue(u) PROVE G
  <2>1. /\ UNCHANGED <<of, run, ctx, pool, loops, port>> /\ at[u] = "admitted"
        /\ at'[u] \in {"queued", "away"} /\ \A v \in Users : v # u => at'[v] = at[v]
    BY <1>7, <1>t DEF Enqueue, release
  <2>2. requests' \in [Runs -> 0..ChannelSize]
    <3>1. requests' = requests \/ AskForOne(of[u])
      BY <1>7 DEF Enqueue
    <3>2. of[u] \in Runs /\ requests[of[u]] \in 0..ChannelSize
      BY <1>t
    <3>3. (IF requests[of[u]] < ChannelSize THEN requests[of[u]] + 1 ELSE requests[of[u]]) \in 0..ChannelSize
      BY <3>2, <1>t
    <3>4. CASE AskForOne(of[u])
      <4>1. requests' = [requests EXCEPT ![of[u]] =
                            IF requests[of[u]] < ChannelSize THEN requests[of[u]] + 1 ELSE requests[of[u]]]
        BY <3>4 DEF AskForOne
      <4> QED
        BY <3>3, <4>1, <1>t
    <3> QED
      BY <3>1, <3>4, <1>t
  <2>3. \A h \in Runs : Busy(h)' = Busy(h)
    BY <2>1, <1>t DEF Busy
  <2> QED
    BY <2>1, <2>2, <2>3, <1>s, <1>t, <1>n DEF RunTypes, NotBegun
<1>8. ASSUME NEW u \in Users, abandon(u) \/ Relay(u) PROVE G
  <2>1. /\ UNCHANGED <<of, run, ctx, pool, requests, port>> /\ LoopFreed(of[u])
        /\ at[u] \in {"pairing", "announcing"}
        /\ \E s \in {"away", "relaying"} : at' = [at EXCEPT ![u] = s]
    BY <1>8 DEF abandon, Relay, release
  <2>2. LoopsCounted' /\ loops' \in [Runs -> Nat]
    BY <2>1, BusyLeaves
  <2> QED
    BY <2>1, <2>2, <1>t, <1>n DEF RunTypes, NotBegun
<1>9. ASSUME NEW u \in Users, PairingTakes(u) \/ AnnounceFails(u) PROVE G
  <2>1. /\ UNCHANGED <<of, run, ctx, requests, loops, port>>
        /\ at[u] \in {"pairing", "announcing"} /\ at'[u] \in {"pairing", "announcing"}
        /\ \A v \in Users : v # u => at'[v] = at[v]
    BY <1>9, <1>t DEF PairingTakes, AnnounceFails
  <2>2. pool' \in [Runs -> 0..ChannelSize]
    BY <1>9, <1>t DEF PairingTakes, AnnounceFails
  <2>3. \A h \in Runs : Busy(h)' = Busy(h)
    BY <2>1, <1>t DEF Busy
  <2> QED
    BY <2>1, <2>2, <2>3, <1>s, <1>t, <1>n DEF RunTypes, NotBegun
<1>10. ASSUME RunEnds PROVE G
  <2>1. UNCHANGED <<at, of, run, pool, requests, loops, port>>
    BY <1>10 DEF RunEnds
  <2>3. ctx' \in [Runs -> {"unmade", "live", "done"}]
    BY <1>10, <1>t DEF RunEnds
  <2>2. LoopsCounted'
    BY <2>1, <1>s DEF Busy
  <2> QED
    BY <2>1, <2>2, <2>3, <1>t, <1>n DEF RunTypes, NotBegun
<1>11. ASSUME NextRun PROVE G
  <2> DEFINE h == run + 1
  <2>1. /\ h \in Runs /\ run' = h /\ UNCHANGED <<at, of, pool, requests>>
        /\ ctx' = [ctx EXCEPT ![h] = "live"] /\ loops' = [loops EXCEPT ![h] = HandleLoops]
        /\ port' = [port EXCEPT ![h] = "spawned"]
    BY <1>11, <1>t, SizesAssumption DEF NextRun, Runs
  <2>2. RunTypes'
    BY <2>1, <1>t DEF RunTypes
  <2>3. NotBegun'
    BY <2>1, <1>t, <1>n DEF NotBegun, Runs
  <2>4. Busy(h) = {} /\ \A g \in Runs : Busy(g)' = Busy(g)
    BY <2>1, <1>t, <1>n DEF Busy
  <2>5. ASSUME NEW g \in Runs PROVE loops'[g] + Cardinality(Busy(g)') <= HandleLoops
    <3>1. CASE g = h
      <4>1. Busy(g)' = {} /\ loops'[g] = HandleLoops
        BY <3>1, <2>1, <2>4, <1>t
      <4> QED
        BY <4>1, <1>t, FS_EmptySet
    <3>2. CASE g # h
      BY <3>2, <2>1, <2>4, <1>t, <1>c DEF LoopsCounted
    <3> QED
      BY <3>1, <3>2
  <2>6. LoopsCounted'
    BY <2>5 DEF LoopsCounted
  <2> QED
    BY <2>2, <2>3, <2>6
<1>12. ASSUME UNCHANGED vars PROVE G
  <2>1. UNCHANGED <<at, of, run, ctx, pool, requests, loops, port>>
    BY <1>12 DEF vars
  <2>2. LoopsCounted'
    BY <2>1, <1>s DEF Busy
  <2> QED
    BY <2>1, <2>2, <1>t, <1>n DEF RunTypes, NotBegun
<1>13. G
  BY <1>1, <1>2, <1>3, <1>4, <1>5, <1>6, <1>7, <1>8, <1>9, <1>10, <1>11, <1>12
     DEF Next, LoopStep, UserStep, PairingEnded, PairingTimeout
<1> QED
  BY <1>f, <1>13 DEF LoopsInv

(* Every variable keeps its type: among others, no run ever has more handle  *)
(* loops at their select than were started, although each pairing that ends, *)
(* in whichever way, puts one back.                                          *)
THEOREM ForwardTypeCorrect == Spec => []TypeOK
<1>1. LoopsInv => TypeOK
  <2> SUFFICES ASSUME LoopsInv PROVE TypeOK
    OBVIOUS
  <2>1. active \in Nat
    BY Finite DEF LoopsInv, FInv, Accounted
  <2>2. loops \in [Runs -> 0..HandleLoops]
    <3>1. \A g \in Runs : loops[g] <= HandleLoops
      BY BusyFinite, SizesAssumption DEF LoopsInv, LoopsCounted, RunTypes
    <3> QED
      BY <3>1, SizesAssumption DEF LoopsInv, RunTypes
  <2> QED
    BY <2>1, <2>2 DEF LoopsInv, FInv, SlotTypes, RunTypes, TypeOK
<1> QED
  BY InitLoops, StepLoops, <1>1, PTL DEF Spec

=============================================================================
