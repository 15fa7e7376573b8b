--------------------------- MODULE RecoveryProofs ---------------------------
(***************************************************************************)
(* Proofs about what brings a tunnel back by itself, for every value of    *)
(* the constants.                                                          *)
(*                                                                         *)
(* The watchdog (Watchdog): one stall costs a bounded number of unit       *)
(* restarts, whatever the engine does and however often the monitor itself *)
(* is restarted.  The ladder is in memory and on disk, and the two differ  *)
(* while a pass is being saved.  Paid(r) is what a reading r admits to;    *)
(* the invariant says of both copies by how much they may be behind.       *)
(* And the types: what an engine runs was loaded from a file that parsed.  *)
(*                                                                         *)
(* The fallback chain (Chain): two ends that walk the same list without a  *)
(* word to each other meet within one round of the server.  Wait(e, i) is  *)
(* how long end e takes to come to candidate i; the invariant says of each *)
(* carrier that gets through that the server has yet to come to it in time *)
(* or is there with the client due early enough to connect.                *)
(***************************************************************************)
EXTENDS Watchdog, Chain, TLAPS

-----------------------------------------------------------------------------
(* The watchdog's ladder                                                    *)

Paid(r) == r.restarts + (IF "reloaded" \in r.did THEN 1 ELSE 0)

(* The types the argument needs.                                             *)
LadderTypes ==
  /\ reading \in Readings /\ disk \in Readings
  /\ spent \in Nat /\ unsaved \in Nat /\ forgotten \in Nat
  /\ snap.flow \in {"idle", "both", "oneWay"}

(* In memory only what a dead monitor did not save is missing.               *)
MemoryOwns == mon # "off" => spent <= Paid(reading) + forgotten
(* On disk, what the present monitor has not saved is missing as well.       *)
DiskOwns == spent <= Paid(disk) + unsaved + forgotten
(* A monitor that is off has nothing left to save.                           *)
NothingPending == mon = "off" => unsaved = 0

LadderInv == LadderTypes /\ MemoryOwns /\ DiskOwns /\ NothingPending

-----------------------------------------------------------------------------
(* The operators of the ladder                                             *)

\* The smaller and the larger of two numbers.
LEMMA TwoNumbers ==
  ASSUME NEW a \in Int, NEW b \in Int
  PROVE  /\ Min({a, b}) = IF a <= b THEN a ELSE b
         /\ Max({a, b}) = IF a >= b THEN a ELSE b
<1>1. Min({a, b}) = IF a <= b THEN a ELSE b
  <2> DEFINE m == IF a <= b THEN a ELSE b
  <2>1. m \in {a, b} /\ \A y \in {a, b} : m <= y
    OBVIOUS
  <2>2. \A x \in {a, b} : (\A y \in {a, b} : x <= y) => x = m
    OBVIOUS
  <2> HIDE DEF m
  <2>3. Min({a, b}) = m
    BY <2>1, <2>2 DEF Min
  <2> QED BY <2>3 DEF m
<1>2. Max({a, b}) = IF a >= b THEN a ELSE b
  <2> DEFINE m == IF a >= b THEN a ELSE b
  <2>1. m \in {a, b} /\ \A y \in {a, b} : m >= y
    OBVIOUS
  <2>2. \A x \in {a, b} : (\A y \in {a, b} : x >= y) => x = m
    OBVIOUS
  <2> HIDE DEF m
  <2>3. Max({a, b}) = m
    BY <2>1, <2>2 DEF Max
  <2> QED BY <2>3 DEF m
<1> QED BY <1>1, <1>2

\* Of a reading, its fields.
LEMMA Fields ==
  ASSUME NEW r \in Readings
  PROVE  /\ r.runs \in -1..StallChecks /\ r.since \in -1..RestartAfter
         /\ r.restarts \in 0..GiveUpAfter /\ r.quiet \in 0..QuietFor
         /\ r.did \in SUBSET {"reported", "reloaded"}
         /\ Paid(r) \in 0..(GiveUpAfter + 1)
<1>1. /\ r.runs \in -1..StallChecks /\ r.since \in -1..RestartAfter
      /\ r.restarts \in 0..GiveUpAfter /\ r.quiet \in 0..QuietFor
      /\ r.did \in SUBSET {"reported", "reloaded"}
  BY DEF Readings
<1>2. Paid(r) \in 0..(GiveUpAfter + 1)
  BY <1>1, WatchdogAssumption DEF Paid
<1> QED BY <1>1, <1>2

\* A monitor that has read nothing is on the first rung.
LEMMA NoReadingPaysNothing ==
  NoReading \in Readings /\ Paid(NoReading) = 0
  BY WatchdogAssumption DEF NoReading, Readings, Paid

\* Time costs nothing.
LEMMA OlderPays ==
  ASSUME NEW r \in Readings, NEW n \in Nat
  PROVE  older(r, n) \in Readings /\ Paid(older(r, n)) = Paid(r)
<1>1. /\ r.since \in -1..RestartAfter /\ r.quiet \in 0..QuietFor
  BY Fields
<1>2. (IF r.since = -1 THEN -1 ELSE Min({r.since + n, RestartAfter})) \in -1..RestartAfter
  <2>1. Min({r.since + n, RestartAfter})
          = IF r.since + n <= RestartAfter THEN r.since + n ELSE RestartAfter
    BY <1>1, TwoNumbers, WatchdogAssumption
  <2> QED BY <1>1, <2>1, WatchdogAssumption
<1>3. Max({r.quiet - n, 0}) \in 0..QuietFor
  <2>1. PICK q \in Int : q = r.quiet - n
    BY <1>1, WatchdogAssumption
  <2>2. Max({q, 0}) = IF q >= 0 THEN q ELSE 0
    BY TwoNumbers
  <2> QED BY <1>1, <2>1, <2>2, WatchdogAssumption
<1> QED BY <1>2, <1>3 DEF older, Readings, Paid

\* What is seen of the traffic costs nothing, unless it clears the ladder.
LEMMA ObservePays ==
  ASSUME NEW r \in Readings, NEW flow \in {"idle", "both", "oneWay"}
  PROVE  /\ observe(r, flow) \in Readings
         /\ flow # "both" => Paid(observe(r, flow)) = Paid(r)
<1>1. CASE r = NoReading
  <2>1. observe(r, flow) = [NoReading EXCEPT !.runs = 0]
    BY <1>1 DEF observe
  <2>2. [NoReading EXCEPT !.runs = 0] \in Readings /\ Paid([NoReading EXCEPT !.runs = 0]) = 0
    BY WatchdogAssumption DEF NoReading, Readings, Paid
  <2> QED BY <1>1, <2>1, <2>2, NoReadingPaysNothing
<1>2. CASE r # NoReading /\ flow = "idle"
  <2>1. observe(r, flow) = r
    BY <1>2 DEF observe
  <2> QED BY <2>1
<1>3. CASE r # NoReading /\ flow = "both"
  <2>1. observe(r, flow) = clear(r)
    BY <1>3 DEF observe
  <2>2. clear(r) \in Readings
    <3>1. /\ r.did \ {"reported"} \in SUBSET {"reported", "reloaded"}
          /\ 0 \in -1..StallChecks /\ -1 \in -1..RestartAfter
          /\ 0 \in 0..GiveUpAfter /\ 0 \in 0..QuietFor
      BY Fields, WatchdogAssumption
    <3> QED BY <3>1 DEF clear, Readings
  <2> QED BY <1>3, <2>1, <2>2
<1>4. CASE r # NoReading /\ flow = "oneWay"
  <2> DEFINE q == Min({r.runs + 1, StallChecks})
             t == IF r.since = -1 /\ r.runs + 1 >= StallChecks THEN 0 ELSE r.since
  <2>1. observe(r, flow) = [r EXCEPT !.runs = q, !.since = t]
    BY <1>4 DEF observe
  <2>2. r.runs \in -1..StallChecks /\ r.since \in -1..RestartAfter
    BY Fields
  <2>3. q \in -1..StallChecks
    <3>1. q = IF r.runs + 1 <= StallChecks THEN r.runs + 1 ELSE StallChecks
      BY <2>2, TwoNumbers, WatchdogAssumption
    <3> QED BY <2>2, <3>1, WatchdogAssumption
  <2>4. t \in -1..RestartAfter
    BY <2>2, WatchdogAssumption
  <2> HIDE DEF q, t
  <2>5. [r EXCEPT !.runs = q, !.since = t] \in Readings
    BY <2>3, <2>4 DEF Readings
  <2>6. Paid([r EXCEPT !.runs = q, !.since = t]) = Paid(r)
    BY DEF Paid, Readings
  <2> QED BY <2>1, <2>5, <2>6
<1> QED BY <1>1, <1>2, <1>3, <1>4

\* A rung that may restart the unit is entered in the reading; no rung is
\* taken off it.
LEMMA DecidePays ==
  ASSUME NEW r \in Readings
  PROVE  /\ decide(r) \in Readings
         /\ rung(r) \in {"reload", "restart"} => Paid(decide(r)) = Paid(r) + 1
         /\ rung(r) \notin {"reload", "restart"} => Paid(decide(r)) = Paid(r)
<1>0. /\ r.restarts \in 0..GiveUpAfter /\ r.did \in SUBSET {"reported", "reloaded"}
      /\ 0 \in -1..RestartAfter
  BY Fields, WatchdogAssumption
<1>1. CASE rung(r) = "watch"
  BY <1>1 DEF decide
<1>2. CASE rung(r) = "report"
  <2>1. decide(r) = [r EXCEPT !.did = @ \cup {"reported"}]
    BY <1>2 DEF decide
  <2>2. r.did \cup {"reported"} \in SUBSET {"reported", "reloaded"}
    BY <1>0
  <2>3. [r EXCEPT !.did = @ \cup {"reported"}] \in Readings
    BY <2>2 DEF Readings
  <2>4. Paid([r EXCEPT !.did = @ \cup {"reported"}]) = Paid(r)
    BY DEF Paid, Readings
  <2> QED BY <1>2, <2>1, <2>3, <2>4
<1>3. CASE rung(r) = "reload"
  <2>1. decide(r) = [r EXCEPT !.did = @ \cup {"reloaded"}, !.since = 0]
    BY <1>3 DEF decide
  <2>2. "reloaded" \notin r.did
    BY <1>3 DEF rung
  <2>3. r.did \cup {"reloaded"} \in SUBSET {"reported", "reloaded"}
    BY <1>0
  <2>4. [r EXCEPT !.did = @ \cup {"reloaded"}, !.since = 0] \in Readings
    BY <1>0, <2>3 DEF Readings
  <2>5. Paid([r EXCEPT !.did = @ \cup {"reloaded"}, !.since = 0]) = Paid(r) + 1
    BY <1>0, <2>2, WatchdogAssumption DEF Paid, Readings
  <2> QED BY <1>3, <2>1, <2>4, <2>5
<1>4. CASE rung(r) = "giveUp"
  <2>1. decide(r) = [r EXCEPT !.quiet = QuietFor]
    BY <1>4 DEF decide
  <2>2. [r EXCEPT !.quiet = QuietFor] \in Readings /\ Paid([r EXCEPT !.quiet = QuietFor]) = Paid(r)
    BY WatchdogAssumption DEF Readings, Paid
  <2> QED BY <1>4, <2>1, <2>2
<1>5. CASE rung(r) = "restart"
  <2>1. decide(r) = [r EXCEPT !.restarts = Min({@ + 1, GiveUpAfter}), !.since = 0]
    BY <1>5 DEF decide
  <2>2. r.restarts + 1 <= GiveUpAfter
    BY <1>0, <1>5, WatchdogAssumption DEF rung
  <2>3. Min({r.restarts + 1, GiveUpAfter}) = r.restarts + 1
    BY <1>0, <2>2, TwoNumbers, WatchdogAssumption
  <2>4. decide(r) = [r EXCEPT !.restarts = r.restarts + 1, !.since = 0]
    BY <2>1, <2>3
  <2>5. r.restarts + 1 \in 0..GiveUpAfter
    BY <1>0, <2>2, WatchdogAssumption
  <2>6. [r EXCEPT !.restarts = r.restarts + 1, !.since = 0] \in Readings
    BY <1>0, <2>5 DEF Readings
  <2>7. Paid([r EXCEPT !.restarts = r.restarts + 1, !.since = 0]) = Paid(r) + 1
    BY <1>0, WatchdogAssumption DEF Paid, Readings
  <2> QED BY <1>5, <2>4, <2>6, <2>7
<1>6. rung(r) \in {"watch", "report", "reload", "giveUp", "restart"}
  BY DEF rung
<1> QED BY <1>1, <1>2, <1>3, <1>4, <1>5, <1>6

-----------------------------------------------------------------------------
(* The invariant                                                           *)

\* The engine keeps the snapshot well formed.
LEMMA SnapshotKept ==
  ASSUME snap.flow \in {"idle", "both", "oneWay"}, Next
  PROVE  snap'.flow \in {"idle", "both", "oneWay"}
<1>1. CASE EngineSteps
  BY <1>1 DEF EngineSteps, Fork, Load, Launch, Await, Poll, GenerationOver, Done, Settled
<1>2. CASE \E flow \in {"idle", "both", "oneWay"} : Write(flow)
  BY <1>2 DEF Write
<1>3. CASE Outside
  BY <1>3 DEF Outside, Edit, Dies, StartUnit, GoesRight, GoesWrong
<1>4. CASE Pass
  BY <1>4 DEF Pass, PassInactive, PassHealthy, PassStalled, PassLost, Passing
<1>5. CASE Save \/ MonitorDies \/ \E n \in {0, QuietFor} : MonitorStarts(n)
  BY <1>5 DEF Save, MonitorDies, MonitorStarts, evars
<1> QED BY <1>1, <1>2, <1>3, <1>4, <1>5 DEF Next, EngineStep

\* Nothing has been spent when the watchdog starts for the first time.
LEMMA LadderInit == Init => LadderInv
<1> SUFFICES ASSUME Init PROVE LadderInv
  OBVIOUS
<1>1. /\ reading = NoReading /\ disk = NoReading
      /\ spent = 0 /\ unsaved = 0 /\ forgotten = 0 /\ snap.flow = "idle"
  BY DEF Init, EngineInit
<1> QED BY <1>1, NoReadingPaysNothing
     DEF LadderInv, LadderTypes, MemoryOwns, DiskOwns, NothingPending

\* A step that leaves the watchdog alone.
LEMMA Elsewhere ==
  ASSUME LadderInv, snap'.flow \in {"idle", "both", "oneWay"},
         UNCHANGED <<mon, memory, disk, life, history>>
  PROVE  LadderInv'
BY DEF LadderInv, LadderTypes, MemoryOwns, DiskOwns, NothingPending, memory, history, Paid

\* A pass of the watchdog: what it spends it enters in the reading.
LEMMA PassPays ==
  ASSUME LadderInv, Pass
  PROVE  /\ mon' = "saving" /\ disk' = older(disk, 1) /\ forgotten' = forgotten
         /\ reading' \in Readings /\ spent' \in Nat /\ unsaved' \in Nat
         /\ \/ spent' = 0
            \/ spent' = spent /\ Paid(reading') = Paid(reading) /\ unsaved' = unsaved
            \/ /\ spent' \in {spent, spent + 1}
               /\ Paid(reading') = Paid(reading) + 1 /\ unsaved' = unsaved + 1
<1>0. /\ reading \in Readings /\ spent \in Nat /\ unsaved \in Nat
      /\ snap.flow \in {"idle", "both", "oneWay"} /\ mon # "off"
  BY DEF LadderInv, LadderTypes, Pass, PassInactive, PassHealthy, PassStalled, PassLost, Passing
<1>1. mon' = "saving" /\ disk' = older(disk, 1) /\ forgotten' = forgotten
  BY DEF Pass, PassInactive, PassHealthy, PassStalled, PassLost, Passing
<1>2. flowSeen \in {"idle", "both", "oneWay"}
  BY <1>0 DEF flowSeen
<1>3. older(reading, 1) \in Readings /\ Paid(older(reading, 1)) = Paid(reading)
  BY <1>0, OlderPays
<1>4. PICK r : r = observe(older(reading, 1), flowSeen)
  OBVIOUS
<1>5. r \in Readings /\ (flowSeen # "both" => Paid(r) = Paid(reading))
  BY <1>2, <1>3, <1>4, ObservePays
<1>6. CASE PassInactive
  BY <1>0, <1>1, <1>6, NoReadingPaysNothing DEF PassInactive
<1>7. CASE PassHealthy
  <2>1. CASE snap.conn # "yes"
    BY <1>0, <1>1, <1>3, <1>7, <2>1 DEF PassHealthy
  <2>2. CASE snap.conn = "yes" /\ flowSeen = "both"
    <3>1. reading' = r /\ spent' = 0 /\ unsaved' = unsaved
      BY <1>4, <1>7, <2>2 DEF PassHealthy
    <3> QED BY <1>0, <1>1, <1>5, <3>1
  <2>3. CASE snap.conn = "yes" /\ flowSeen # "both"
    <3>1. reading' = r /\ spent' = spent /\ unsaved' = unsaved
      BY <1>4, <1>7, <2>3 DEF PassHealthy
    <3> QED BY <1>0, <1>1, <1>5, <2>3, <3>1
  <2> QED BY <2>1, <2>2, <2>3
<1>8. CASE PassStalled
  <2>1. flowSeen # "both"
    BY <1>8 DEF PassStalled, isStalled
  <2>2. reading' = decide(r)
    BY <1>4, <1>8 DEF PassStalled
  <2>3. /\ decide(r) \in Readings
        /\ rung(r) \in {"reload", "restart"} => Paid(decide(r)) = Paid(r) + 1
        /\ rung(r) \notin {"reload", "restart"} => Paid(decide(r)) = Paid(r)
    BY <1>5, DecidePays
  <2>4. CASE rung(r) \in {"reload", "restart"}
    <3>1. unsaved' = unsaved + 1 /\ spent' \in {spent, spent + 1}
      BY <1>4, <1>8, <2>4 DEF PassStalled
    <3> QED BY <1>0, <1>1, <1>5, <2>1, <2>2, <2>3, <2>4, <3>1
  <2>5. CASE rung(r) \notin {"reload", "restart"}
    <3>1. unsaved' = unsaved /\ spent' = spent
      BY <1>4, <1>8, <2>5 DEF PassStalled
    <3> QED BY <1>0, <1>1, <1>5, <2>1, <2>2, <2>3, <2>5, <3>1
  <2> QED BY <2>4, <2>5
<1>9. CASE PassLost
  <2>1. reading' = older(reading, 1) /\ spent' = spent /\ unsaved' = unsaved
    BY <1>9 DEF PassLost
  <2> QED BY <1>0, <1>1, <1>3, <2>1
<1> QED BY <1>6, <1>7, <1>8, <1>9 DEF Pass

\* A reading's primed fields are those of its primed value.
LEMMA PaidNext == Paid(reading)' = Paid(reading') /\ Paid(disk)' = Paid(disk')
  BY DEF Paid

\* The invariant is kept by a pass.
LEMMA PassKeeps ==
  ASSUME LadderInv, Pass, snap'.flow \in {"idle", "both", "oneWay"}
  PROVE  LadderInv'
<1>0. /\ reading \in Readings /\ disk \in Readings
      /\ spent \in Nat /\ unsaved \in Nat /\ forgotten \in Nat
      /\ spent <= Paid(disk) + unsaved + forgotten
  BY DEF LadderInv, LadderTypes, DiskOwns
<1>1. mon # "off" /\ spent <= Paid(reading) + forgotten
  BY DEF LadderInv, MemoryOwns, Pass, PassInactive, PassHealthy, PassStalled, PassLost, Passing
<1>2. /\ mon' = "saving" /\ disk' = older(disk, 1) /\ forgotten' = forgotten
      /\ reading' \in Readings /\ spent' \in Nat /\ unsaved' \in Nat
      /\ \/ spent' = 0
         \/ spent' = spent /\ Paid(reading') = Paid(reading) /\ unsaved' = unsaved
         \/ /\ spent' \in {spent, spent + 1}
            /\ Paid(reading') = Paid(reading) + 1 /\ unsaved' = unsaved + 1
  BY PassPays
<1>3. disk' \in Readings /\ Paid(disk') = Paid(disk)
  BY <1>0, <1>2, OlderPays
<1>4. /\ Paid(reading) \in Nat /\ Paid(disk) \in Nat /\ Paid(reading') \in Nat
  BY <1>0, <1>2, Fields, WatchdogAssumption
<1>5. /\ spent' <= Paid(reading') + forgotten'
      /\ spent' <= Paid(disk') + unsaved' + forgotten'
  BY <1>0, <1>1, <1>2, <1>3, <1>4
<1> QED BY <1>0, <1>2, <1>3, <1>5, PaidNext
     DEF LadderInv, LadderTypes, MemoryOwns, DiskOwns, NothingPending

\* The invariant is kept when the ladder is written, or is not.
LEMMA SaveKeeps ==
  ASSUME LadderInv, Save
  PROVE  LadderInv'
<1>0. /\ reading \in Readings /\ disk \in Readings
      /\ spent \in Nat /\ unsaved \in Nat /\ forgotten \in Nat
      /\ snap.flow \in {"idle", "both", "oneWay"}
      /\ spent <= Paid(disk) + unsaved + forgotten /\ spent <= Paid(reading) + forgotten
  BY DEF LadderInv, LadderTypes, DiskOwns, MemoryOwns, Save
<1>1. /\ mon' = "idle" /\ reading' = reading /\ spent' = spent /\ forgotten' = forgotten
      /\ snap' = snap
      /\ \/ disk' = reading /\ unsaved' = 0
         \/ disk' = disk /\ unsaved' = unsaved
  BY DEF Save, saved, memory
<1>2. Paid(reading) \in Nat
  BY <1>0, Fields, WatchdogAssumption
<1>3. /\ spent' <= Paid(reading') + forgotten'
      /\ spent' <= Paid(disk') + unsaved' + forgotten'
  BY <1>0, <1>1, <1>2
<1> QED BY <1>0, <1>1, <1>3, PaidNext
     DEF LadderInv, LadderTypes, MemoryOwns, DiskOwns, NothingPending

\* The invariant is kept when the monitor dies: what it had not saved is
\* forgotten from here on.
LEMMA DeathKeeps ==
  ASSUME LadderInv, MonitorDies
  PROVE  LadderInv'
<1>0. /\ disk \in Readings
      /\ spent \in Nat /\ unsaved \in Nat /\ forgotten \in Nat
      /\ snap.flow \in {"idle", "both", "oneWay"}
      /\ spent <= Paid(disk) + unsaved + forgotten
  BY DEF LadderInv, LadderTypes, DiskOwns
<1>1. /\ mon' = "off" /\ reading' = NoReading /\ disk' = disk /\ spent' = spent
      /\ forgotten' = forgotten + unsaved /\ unsaved' = 0 /\ snap' = snap
  BY DEF MonitorDies, evars
<1>2. Paid(disk) \in Nat
  BY <1>0, Fields, WatchdogAssumption
<1>3. spent' <= Paid(disk') + unsaved' + forgotten'
  BY <1>0, <1>1, <1>2
<1> QED BY <1>0, <1>1, <1>3, PaidNext, NoReadingPaysNothing
     DEF LadderInv, LadderTypes, MemoryOwns, DiskOwns, NothingPending

\* The invariant is kept when the next monitor reads the ladder back.
LEMMA StartKeeps ==
  ASSUME LadderInv, NEW n \in {0, QuietFor}, MonitorStarts(n)
  PROVE  LadderInv'
<1>0. /\ disk \in Readings
      /\ spent \in Nat /\ unsaved = 0 /\ forgotten \in Nat
      /\ snap.flow \in {"idle", "both", "oneWay"}
      /\ spent <= Paid(disk) + unsaved + forgotten
  BY DEF LadderInv, LadderTypes, DiskOwns, NothingPending, MonitorStarts
<1>1. /\ mon' = "idle" /\ disk' = older(disk, n) /\ reading' = disk'
      /\ UNCHANGED <<spent, unsaved, forgotten, snap>>
  BY DEF MonitorStarts, evars, history
<1>2. n \in Nat
  BY WatchdogAssumption
<1>3. disk' \in Readings /\ Paid(disk') = Paid(disk) /\ Paid(disk) \in Nat
  BY <1>0, <1>1, <1>2, OlderPays, Fields, WatchdogAssumption
<1>4. /\ spent' <= Paid(reading') + forgotten'
      /\ spent' <= Paid(disk') + unsaved' + forgotten'
  BY <1>0, <1>1, <1>3
<1> QED BY <1>0, <1>1, <1>3, <1>4, PaidNext
     DEF LadderInv, LadderTypes, MemoryOwns, DiskOwns, NothingPending

\* Every step keeps the invariant.
LEMMA LadderStep == LadderInv /\ [Next]_vars => LadderInv'
<1> SUFFICES ASSUME LadderInv, [Next]_vars PROVE LadderInv'
  OBVIOUS
<1>0. snap.flow \in {"idle", "both", "oneWay"}
  BY DEF LadderInv, LadderTypes
<1>1. CASE UNCHANGED vars
  <2>1. UNCHANGED <<mon, memory, disk, life, history>> /\ snap' = snap
    BY <1>1 DEF vars, evars
  <2> QED BY <1>0, <2>1, Elsewhere
<1>2. CASE EngineStep \/ (Outside /\ UNCHANGED <<mon, memory, disk, life, history>>)
  <2>1. snap'.flow \in {"idle", "both", "oneWay"}
    BY <1>0, <1>2, SnapshotKept DEF Next
  <2> QED BY <1>2, <2>1, Elsewhere DEF EngineStep
<1>3. CASE Pass
  <2>1. snap'.flow \in {"idle", "both", "oneWay"}
    BY <1>0, <1>3, SnapshotKept DEF Next
  <2> QED BY <1>3, <2>1, PassKeeps
<1>4. CASE Save
  BY <1>4, SaveKeeps
<1>5. CASE MonitorDies
  BY <1>5, DeathKeeps
<1>6. CASE \E n \in {0, QuietFor} : MonitorStarts(n)
  BY <1>6, StartKeeps
<1> QED BY <1>1, <1>2, <1>3, <1>4, <1>5, <1>6 DEF Next

\* LadderBounded, for every threshold, every limit and every number of starts
\* of the monitor: decide and the restarts of checkThroughput, save and load
\* spend no more unit restarts on one stall than stallGiveUpAfter and the one
\* that stands in for a refused reload, beside the unsaved ones.
THEOREM LadderHolds == Spec => []LadderBounded
<1>1. LadderInv => LadderBounded
  <2> SUFFICES ASSUME LadderInv PROVE LadderBounded
    OBVIOUS
  <2>1. /\ reading \in Readings /\ disk \in Readings
        /\ spent \in Nat /\ unsaved \in Nat /\ forgotten \in Nat
    BY DEF LadderInv, LadderTypes
  <2>2. /\ Paid(reading) \in 0..(GiveUpAfter + 1) /\ Paid(disk) \in 0..(GiveUpAfter + 1)
    BY <2>1, Fields
  <2>3. CASE mon # "off"
    BY <2>1, <2>2, <2>3, WatchdogAssumption DEF LadderInv, MemoryOwns, LadderBounded
  <2>4. CASE mon = "off"
    BY <2>1, <2>2, <2>4, WatchdogAssumption DEF LadderInv, DiskOwns, NothingPending, LadderBounded
  <2> QED BY <2>3, <2>4
<1> QED BY <1>1, LadderInit, LadderStep, PTL DEF Spec

-----------------------------------------------------------------------------
(* Types of the engine and its watchdog.  What runs, and what is to run     *)
(* next, was always loaded from a file that parsed; a monitor that is off   *)
(* has a life left to come back in.                                         *)

MonitorTypes ==
  /\ mon \in {"off", "idle", "saving"} /\ fails \in 0..Threshold /\ seenHealthy \in BOOLEAN
  /\ cool \in -1..(Cooldown + 1) /\ life \in 1..MaxLives /\ gaveUp \in BOOLEAN
LifeLeft == mon = "off" => life < MaxLives

WatchTypes == EngineTypeOK /\ MonitorTypes /\ LifeLeft

\* The loop of Run, with the poll of the file.
LEMMA LoopTyped ==
  ASSUME EngineTypeOK, EngineSteps
  PROVE  EngineTypeOK'
<1>1. CASE Load
  <2>1. /\ cfg' \in Configs /\ epc' \in {"down", "loaded"} /\ age' \in 0..2
        /\ why' \in {"none", "config", "restart"} /\ stopFn' \in {"nil", "running", "over"}
    BY <1>1 DEF Load, EngineTypeOK
  <2>2. ended' \in BOOLEAN
    BY <1>1 DEF Load, EngineTypeOK
  <2>3. fault' \in Faults
    BY <1>1 DEF Load, EngineTypeOK, Faults
  <2>4. snap' \in Snapshots
    <3>1. [conn |-> "nil", flow |-> "idle"] \in Snapshots
      BY DEF Snapshots
    <3> QED BY <1>1, <3>1 DEF Load, EngineTypeOK
  <2>5. UNCHANGED <<file, fp, next, last, faults>>
    BY <1>1 DEF Load
  <2> QED BY <2>1, <2>2, <2>3, <2>4, <2>5 DEF EngineTypeOK
<1>2. CASE Poll
  BY <1>2 DEF Poll, EngineTypeOK
<1>3. CASE Launch \/ Await
  BY <1>3 DEF Launch, Await, EngineTypeOK, Faults
<1>4. CASE Fork \/ GenerationOver \/ Done \/ Settled
  BY <1>4 DEF Fork, GenerationOver, Done, Settled, EngineTypeOK
<1> QED BY <1>1, <1>2, <1>3, <1>4 DEF EngineSteps

\* The collector writes what a snapshot may say.
LEMMA WriteTyped ==
  ASSUME EngineTypeOK, NEW flow \in {"idle", "both", "oneWay"}, Write(flow)
  PROVE  EngineTypeOK'
<1>1. snap' \in Snapshots
  BY DEF Write, Snapshots
<1>2. faults' \in 0..MaxFaults
  BY EngineBoundsAssumption DEF Write, EngineTypeOK
<1> QED BY <1>1, <1>2 DEF Write, loop, EngineTypeOK

\* What is done to the process and to its file from outside.
LEMMA OutsideTyped ==
  ASSUME EngineTypeOK, Outside
  PROVE  EngineTypeOK'
<1>1. faults' \in 0..MaxFaults /\ fp' \in 0..MaxEdits
  BY EngineBoundsAssumption
  DEF Outside, Edit, Dies, StartUnit, GoesRight, GoesWrong, EngineTypeOK
<1>2. ASSUME NEW c \in Configs \cup {Bad}, Edit(c) PROVE EngineTypeOK'
  BY <1>1, <1>2 DEF Edit, loop, EngineTypeOK
<1>3. CASE Dies \/ StartUnit
  BY <1>1, <1>3 DEF Dies, StartUnit, Faults, EngineTypeOK
<1>4. CASE GoesRight \/ \E f \in Faults : GoesWrong(f)
  BY <1>1, <1>4 DEF GoesRight, GoesWrong, Faults, loop, EngineTypeOK
<1> QED BY <1>2, <1>3, <1>4 DEF Outside

\* A pass of the watchdog, which may restart the unit or ask for a transport.
LEMMA PassTyped ==
  ASSUME WatchTypes, Pass
  PROVE  WatchTypes'
<1>0. /\ EngineTypeOK /\ fails \in 0..Threshold /\ seenHealthy \in BOOLEAN
      /\ cool \in -1..(Cooldown + 1) /\ life \in 1..MaxLives /\ gaveUp \in BOOLEAN
      /\ age \in 0..2 /\ ended \in BOOLEAN
      /\ Threshold \in Nat \ {0} /\ Cooldown \in Nat
  BY WatchdogAssumption DEF WatchTypes, MonitorTypes, EngineTypeOK
<1>1. /\ mon' = "saving" /\ age' = Min({age + 1, 2})
      /\ UNCHANGED <<file, fp, fault, faults, snap, life>>
  BY DEF Pass, PassInactive, PassHealthy, PassStalled, PassLost, Passing
<1>2. age' \in 0..2
  <2>1. age + 1 \in Int /\ 2 \in Int
    BY <1>0
  <2>2. Min({age + 1, 2}) = IF age + 1 <= 2 THEN age + 1 ELSE 2
    BY <2>1, TwoNumbers
  <2> QED BY <1>0, <1>1, <2>2
<1>3. cooling \in -1..(Cooldown + 1) /\ 0 \in -1..(Cooldown + 1)
  <2>1. CASE cool = -1
    BY <1>0, <2>1 DEF cooling
  <2>2. CASE cool # -1
    <3>1. Min({cool + 1, Cooldown + 1}) = IF cool + 1 <= Cooldown + 1 THEN cool + 1 ELSE Cooldown + 1
      BY <1>0, TwoNumbers
    <3>2. Min({cool + 1, Cooldown + 1}) \in -1..(Cooldown + 1)
      BY <1>0, <3>1
    <3> QED BY <1>0, <2>2, <3>2 DEF cooling
  <2> QED BY <2>1, <2>2
<1>4. 0 \in 0..Threshold /\ Min({fails + 1, Threshold}) \in 0..Threshold
  <2>1. Min({fails + 1, Threshold}) = IF fails + 1 <= Threshold THEN fails + 1 ELSE Threshold
    BY <1>0, TwoNumbers
  <2> QED BY <1>0, <2>1
<1>5. cool' \in {cooling, 0}
  BY DEF Pass, PassInactive, PassHealthy, PassStalled, PassLost
<1>6. fails' \in {fails, 0, Min({fails + 1, Threshold})}
  BY DEF Pass, PassInactive, PassHealthy, PassStalled, PassLost
<1>7. seenHealthy' \in BOOLEAN
  BY <1>0 DEF Pass, PassInactive, PassHealthy, PassStalled, PassLost
<1>8. gaveUp' \in BOOLEAN
  BY <1>0 DEF Pass, PassInactive, PassHealthy, PassStalled, PassLost
<1>9. /\ UNCHANGED <<cfg, next, last, why, stopFn>>
      /\ epc' \in {epc, "forked"} /\ ended' \in {ended, ended \/ stopFn = "running"}
  <2>1. CASE PassInactive \/ PassHealthy
    BY <2>1 DEF PassInactive, PassHealthy, loop
  <2>2. CASE PassStalled
    BY <2>2 DEF PassStalled, RestartService, RestartTransport
  <2>3. CASE PassLost
    BY <2>3 DEF PassLost, RestartService, loop
  <2> QED BY <2>1, <2>2, <2>3 DEF Pass
<1>10. ended' \in BOOLEAN
  BY <1>0, <1>9
<1>11. EngineTypeOK'
  BY <1>0, <1>1, <1>2, <1>9, <1>10 DEF EngineTypeOK
<1> QED BY <1>0, <1>1, <1>3, <1>4, <1>5, <1>6, <1>7, <1>8, <1>11
     DEF WatchTypes, MonitorTypes, LifeLeft

\* The monitor saves, dies and comes back.
LEMMA MonitorTyped ==
  ASSUME WatchTypes, Save \/ MonitorDies \/ \E n \in {0, QuietFor} : MonitorStarts(n)
  PROVE  WatchTypes'
<1>0. /\ EngineTypeOK /\ MonitorTypes /\ LifeLeft /\ life \in 1..MaxLives /\ MaxLives \in Nat \ {0}
      /\ Threshold \in Nat \ {0} /\ Cooldown \in Nat
  BY WatchdogAssumption DEF WatchTypes, MonitorTypes
<1>1. CASE Save
  <2>1. faults' \in 0..MaxFaults
    BY <1>0, <1>1, EngineBoundsAssumption DEF Save, EngineTypeOK
  <2>2. EngineTypeOK'
    BY <1>0, <1>1, <2>1 DEF Save, loop, EngineTypeOK
  <2> QED BY <1>0, <1>1, <2>2 DEF Save, memory, WatchTypes, MonitorTypes, LifeLeft
<1>2. CASE MonitorDies
  <2>1. EngineTypeOK'
    BY <1>0, <1>2 DEF MonitorDies, evars, loop, EngineTypeOK
  <2>2. seenHealthy' \in BOOLEAN /\ gaveUp' \in BOOLEAN
    BY <1>0, <1>2 DEF MonitorDies, MonitorTypes
  <2>3. /\ mon' = "off" /\ fails' = 0 /\ cool' = -1 /\ life' = life /\ life < MaxLives
    BY <1>2 DEF MonitorDies
  <2> QED BY <1>0, <2>1, <2>2, <2>3 DEF WatchTypes, MonitorTypes, LifeLeft
<1>3. ASSUME NEW n \in {0, QuietFor}, MonitorStarts(n) PROVE WatchTypes'
  <2>1. EngineTypeOK'
    BY <1>0, <1>3 DEF MonitorStarts, evars, loop, EngineTypeOK
  <2>2. life' \in 1..MaxLives
    BY <1>0, <1>3 DEF MonitorStarts, LifeLeft
  <2> QED BY <1>0, <1>3, <2>1, <2>2 DEF MonitorStarts, history, WatchTypes, MonitorTypes, LifeLeft
<1> QED BY <1>1, <1>2, <1>3

\* A step of the engine alone.
LEMMA EngineTyped ==
  ASSUME WatchTypes, EngineTypeOK', UNCHANGED <<mon, memory, disk, life, history>>
  PROVE  WatchTypes'
  BY DEF WatchTypes, MonitorTypes, LifeLeft, memory, history

LEMMA WatchInit == Init => WatchTypes
<1> SUFFICES ASSUME Init PROVE WatchTypes
  OBVIOUS
<1>1. EngineTypeOK
  <2>1. snap \in Snapshots /\ fault \in Faults /\ ended \in BOOLEAN
    BY DEF Init, EngineInit, Snapshots, Faults
  <2>2. file \in Configs /\ cfg = file /\ next = file
    BY ConfigsAssumption DEF Init, EngineInit
  <2>3. /\ epc = "down" /\ why = "none" /\ stopFn = "nil"
        /\ fp = 0 /\ last = 0 /\ faults = 0 /\ age = 0
    BY DEF Init, EngineInit
  <2> QED BY <2>1, <2>2, <2>3, EngineBoundsAssumption DEF EngineTypeOK
<1>2. /\ mon = "idle" /\ fails = 0 /\ cool = -1 /\ life = 1
      /\ seenHealthy \in BOOLEAN /\ gaveUp \in BOOLEAN
  BY DEF Init
<1> QED BY <1>1, <1>2, WatchdogAssumption DEF WatchTypes, MonitorTypes, LifeLeft

LEMMA WatchStep == WatchTypes /\ [Next]_vars => WatchTypes'
<1> SUFFICES ASSUME WatchTypes, [Next]_vars PROVE WatchTypes'
  OBVIOUS
<1>0. EngineTypeOK
  BY DEF WatchTypes
<1>1. CASE EngineStep
  <2>1. EngineTypeOK'
    BY <1>0, <1>1, LoopTyped, WriteTyped DEF EngineStep
  <2> QED BY <1>1, <2>1, EngineTyped DEF EngineStep
<1>2. CASE Outside /\ UNCHANGED <<mon, memory, disk, life, history>>
  BY <1>0, <1>2, OutsideTyped, EngineTyped
<1>3. CASE UNCHANGED vars
  <2>1. EngineTypeOK'
    BY <1>0, <1>3 DEF vars, evars, loop, EngineTypeOK
  <2> QED BY <1>3, <2>1, EngineTyped DEF vars
<1> QED BY <1>1, <1>2, <1>3, PassTyped, MonitorTyped DEF Next

\* Every variable of an engine and its watchdog keeps its type, whatever the
\* file says and whoever dies: what awaitConfigChange hands on and what a
\* generation runs is never a file that does not parse, the counters of the
\* ladder stay within its limits, in memory as on disk.
THEOREM WatchdogTypeCorrect == Spec => []TypeOK
<1>1. WatchTypes /\ LadderInv => TypeOK
  BY DEF WatchTypes, MonitorTypes, LadderInv, LadderTypes, TypeOK
<1> QED BY <1>1, WatchInit, WatchStep, LadderInit, LadderStep, PTL DEF Spec

-----------------------------------------------------------------------------
(* The fallback chain: that both ends meet within a round of the server.   *)

(* What a candidate costs an end that does not settle on it.                 *)
Slot(e) == attemptWindow(e) + Teardown

(* From candidate j, an end starts i as the steps-th candidate from now.     *)
steps(j, i) == IF j < i THEN i - j ELSE i - j + N

(* Seconds until an end in mode m, with l seconds left at candidate j,       *)
(* starts candidate i, if nothing settles.                                   *)
WaitAt(e, m, l, j, i) ==
  l + (IF m = "trying" THEN Teardown ELSE 0) + (steps(j, i) - 1) * Slot(e)
Wait(e, i) == WaitAt(e, mode[e], left[e], at[e], i)

Rotating == \A e \in Ends : mode[e] \in {"trying", "teardown"}

(* The server has still to come to i, and its stay there ends in time.       *)
Ahead(i) == waited + Wait("server", i) + Dwell <= Round

(* The server is at i, and the client is there with time enough to connect,  *)
(* or will be.                                                               *)
Meeting(i) ==
  /\ mode["server"] = "trying" /\ at["server"] = i /\ waited + left["server"] <= Round
  /\ \/ /\ mode["client"] = "trying" /\ at["client"] = i
        /\ left["client"] + overlap > Settle /\ left["server"] + overlap > Settle
     \/ Wait("client", i) + Settle < left["server"]

(* The dwell leaves a client room for its whole list but one candidate,      *)
(* teardowns included, and for connecting at either edge of its window.      *)
LongEnough ==
  /\ Settle < attemptWindow("client")
  /\ (N - 1) * Slot("client") + Teardown + 2 * Settle < Dwell

ChainTypes == ChainTypeOK /\ left \in [Ends -> Nat]

EndFacts(e) ==
  /\ mode[e] = "trying" => left[e] <= attemptWindow(e)
  /\ mode[e] = "teardown" => left[e] <= Teardown
  /\ mode[e] = "off" => waited = 0
  /\ mode[e] # "holding" => downFor[e] = 0
  /\ downFor[e] > 0 => waited = 0

UpSettled == up => \A e \in Ends : Running(e) /\ settled[e]

(* On every carrier that gets through they are about to meet.                *)
OnTheWay == Rotating => \A i \in open : Ahead(i) \/ Meeting(i)

ChainInv ==
  /\ ChainTypes /\ (\A e \in Ends : EndFacts(e)) /\ UpSettled
  /\ (open = {} => waited = 0) /\ MeetInARound /\ OnTheWay

-----------------------------------------------------------------------------
\* Products grow with their factors.
LEMMA Products ==
  ASSUME NEW a \in Nat, NEW b \in Nat, NEW q \in Nat
  PROVE  /\ a * q \in Nat /\ a <= b => a * q <= b * q
         /\ (a + 1) * q = a * q + q
<1>1. a * q \in Nat
  OBVIOUS
<1>2. (a + 1) * q = a * q + q
  OBVIOUS
<1>3. ASSUME a <= b PROVE a * q <= b * q
  <2> DEFINE c == b - a
  <2>1. c \in Nat /\ b = a + c
    BY <1>3
  <2>2. c * q \in Nat /\ (a + c) * q = a * q + c * q
    <3> HIDE DEF c
    <3>1. c \in Nat
      BY <2>1
    <3> QED
      BY <3>1
  <2>3. a * q \in Nat
    OBVIOUS
  <2> QED
    BY <2>1, <2>2, <2>3
<1> QED
  BY <1>1, <1>2, <1>3

\* The windows are numbers of seconds, and the server's is the dwell.
LEMMA Windows ==
  ASSUME NEW e \in Ends
  PROVE  /\ attemptWindow(e) \in Nat /\ Slot(e) \in Nat
         /\ attemptWindow("server") = Dwell
<1>1. Dwell \div N \in Nat
  BY ChainAssumption
<1> QED
  BY <1>1, ChainAssumption DEF attemptWindow, Slot, Ends

\* The next candidate, and how many are left after it.
LEMMA Following ==
  ASSUME NEW j \in Candidates
  PROVE  /\ following(j) \in Candidates
         /\ following(j) = IF j = N - 1 THEN 0 ELSE j + 1
<1>1. CASE j = N - 1
  <2>1. (j + 1) % N = 0
    BY <1>1, ChainAssumption
  <2> QED
    BY <1>1, <2>1, ChainAssumption DEF following, Candidates
<1>2. CASE j # N - 1
  <2>1. j + 1 \in 0..(N - 1) /\ N \in Nat /\ N > 0
    BY <1>2, ChainAssumption DEF Candidates
  <2>2. (j + 1) % N = j + 1
    BY <2>1
  <2> QED
    BY <1>2, <2>1, <2>2 DEF following, Candidates
<1> QED
  BY <1>1, <1>2

LEMMA Steps ==
  ASSUME NEW j \in Candidates, NEW i \in Candidates
  PROVE  /\ steps(j, i) \in 1..N /\ steps(j, i) - 1 \in 0..(N - 1)
         /\ j # i => steps(j, i) - 1 \in 0..(N - 2)
         /\ following(j) = i => steps(j, i) = 1
         /\ following(j) # i => /\ steps(following(j), i) + 1 = steps(j, i)
                                /\ steps(following(j), i) - 1 \in Nat
  BY Following, ChainAssumption DEF steps, Candidates

-----------------------------------------------------------------------------
\* What a deadline and the next candidate do to the wait for i.
LEMMA WaitLaws ==
  ASSUME NEW e \in Ends, NEW m \in {"off", "trying", "holding", "teardown"},
         NEW l \in Nat, NEW j \in Candidates, NEW i \in Candidates
  PROVE  /\ WaitAt(e, m, l, j, i) \in Nat
         /\ WaitAt(e, m, l, j, i) >= l
         /\ WaitAt(e, "teardown", Teardown, j, i) = WaitAt(e, "trying", 0, j, i)
         /\ following(j) = i => WaitAt(e, "teardown", 0, j, i) = 0
         /\ following(j) # i =>
              WaitAt(e, "trying", attemptWindow(e), following(j), i) = WaitAt(e, "teardown", 0, j, i)
<1> DEFINE s == steps(j, i) - 1
<1>1. s \in Nat /\ Slot(e) \in Nat /\ s * Slot(e) \in Nat /\ Teardown \in Nat
  BY Steps, Windows, Products, ChainAssumption
<1>2. WaitAt(e, m, l, j, i) = l + (IF m = "trying" THEN Teardown ELSE 0) + s * Slot(e)
  BY DEF WaitAt
<1>4. /\ WaitAt(e, "teardown", Teardown, j, i) = Teardown + 0 + s * Slot(e)
      /\ WaitAt(e, "trying", 0, j, i) = 0 + Teardown + s * Slot(e)
      /\ WaitAt(e, "teardown", 0, j, i) = 0 + 0 + s * Slot(e)
  BY DEF WaitAt
<1>5. ASSUME following(j) = i PROVE s * Slot(e) = 0
  <2>1. s = 0
    BY <1>5, Steps
  <2> QED
    BY <2>1, Windows
<1>6. ASSUME following(j) # i
      PROVE  WaitAt(e, "trying", attemptWindow(e), following(j), i) = s * Slot(e)
  <2> DEFINE t == steps(following(j), i) - 1
  <2>1. t \in Nat /\ s = t + 1
    <3>1. steps(j, i) \in Int /\ steps(following(j), i) \in Int
      BY Steps, Following, ChainAssumption
    <3> QED
      BY <3>1, <1>6, Steps
  <2>2. (t + 1) * Slot(e) = t * Slot(e) + Slot(e) /\ t * Slot(e) \in Nat
    <3> HIDE DEF t
    <3> QED
      BY <2>1, Windows, Products
  <2>3. WaitAt(e, "trying", attemptWindow(e), following(j), i)
          = attemptWindow(e) + Teardown + t * Slot(e)
    BY DEF WaitAt
  <2>4. Slot(e) = attemptWindow(e) + Teardown /\ attemptWindow(e) \in Nat
    BY Windows DEF Slot
  <2>5. s * Slot(e) = t * Slot(e) + Slot(e)
    BY <2>1, <2>2
  <2> HIDE DEF s, t
  <2> QED
    BY <2>2, <2>3, <2>4, <2>5, <1>1
<1>7. /\ WaitAt(e, m, l, j, i) \in Nat
      /\ WaitAt(e, m, l, j, i) >= l
  <2> HIDE DEF s
  <2> QED
    BY <1>1, <1>2
<1>8. WaitAt(e, "teardown", Teardown, j, i) = WaitAt(e, "trying", 0, j, i)
  <2> HIDE DEF s
  <2> QED
    BY <1>1, <1>4
<1>9. WaitAt(e, "teardown", 0, j, i) = s * Slot(e)
  <2> HIDE DEF s
  <2> QED
    BY <1>1, <1>4
<1> HIDE DEF s
<1> QED
  BY <1>5, <1>6, <1>7, <1>8, <1>9

\* A wait is at most the rest of the present candidate and N - 1 others, and
\* at most N - 1 candidates when another than i is running.
LEMMA WaitBound ==
  ASSUME NEW e \in Ends, NEW m \in {"off", "trying", "holding", "teardown"},
         NEW l \in Nat, NEW j \in Candidates, NEW i \in Candidates
  PROVE  /\ WaitAt(e, m, l, j, i)
              <= l + (IF m = "trying" THEN Teardown ELSE 0) + (N - 1) * Slot(e)
         /\ m = "trying" /\ l <= attemptWindow(e) /\ j # i
              => WaitAt(e, m, l, j, i) <= (N - 1) * Slot(e)
<1> DEFINE s == steps(j, i) - 1
           c == IF m = "trying" THEN Teardown ELSE 0
<1>1. s \in Nat /\ s <= N - 1 /\ N - 1 \in Nat /\ Slot(e) \in Nat /\ c \in Nat
  BY Steps, Windows, ChainAssumption
<1>2. WaitAt(e, m, l, j, i) = l + c + s * Slot(e)
  BY DEF WaitAt
<1>3. s * Slot(e) <= (N - 1) * Slot(e) /\ s * Slot(e) \in Nat /\ (N - 1) * Slot(e) \in Nat
  <2> HIDE DEF s
  <2> QED
    BY <1>1, Products
<1>4. WaitAt(e, m, l, j, i) <= l + c + (N - 1) * Slot(e)
  <2> HIDE DEF s, c
  <2> QED
    BY <1>1, <1>2, <1>3
<1>5. ASSUME m = "trying", l <= attemptWindow(e), j # i
      PROVE  WaitAt(e, m, l, j, i) <= (N - 1) * Slot(e)
  <2> DEFINE b == N - 2
  <2>1. s <= b /\ b \in Nat /\ N - 1 = b + 1
    BY <1>5, Steps, ChainAssumption
  <2>2. s * Slot(e) <= b * Slot(e) /\ (b + 1) * Slot(e) = b * Slot(e) + Slot(e) /\ b * Slot(e) \in Nat
    <3> HIDE DEF s, b
    <3> QED
      BY <1>1, <2>1, Products
  <2>3. Slot(e) = attemptWindow(e) + Teardown /\ attemptWindow(e) \in Nat /\ c = Teardown
    BY <1>5, Windows DEF Slot
  <2>4. (N - 1) * Slot(e) = b * Slot(e) + Slot(e)
    BY <2>1, <2>2
  <2> HIDE DEF s, b, c
  <2> QED
    BY <1>1, <1>2, <1>3, <1>5, <2>2, <2>3, <2>4
<1> QED
  BY <1>4, <1>5

\* A server just put on the road, from wherever, comes to i in time.
LEMMA Fresh ==
  ASSUME NEW m \in {"trying", "teardown"}, NEW l \in Nat, NEW j \in Candidates,
         NEW i \in Candidates, m = "trying" => l <= attemptWindow("server"),
         m = "teardown" => l <= Teardown
  PROVE  WaitAt("server", m, l, j, i) + Dwell <= Round
<1> DEFINE q == Slot("server")
           b == N - 1
<1>1. q \in Nat /\ q = Dwell + Teardown /\ b \in Nat /\ Dwell \in Nat /\ Teardown \in Nat
  BY Windows, ChainAssumption DEF Slot, Ends
<1>2. WaitAt("server", m, l, j, i) <= l + (IF m = "trying" THEN Teardown ELSE 0) + b * q
  BY WaitBound DEF Ends
<1>3. l + (IF m = "trying" THEN Teardown ELSE 0) <= q
  BY <1>1, Windows DEF Ends
<1>4. Round = (b + 2) * q
  BY <1>1, ChainAssumption DEF Round
<1>5. (b + 2) * q = b * q + q + q /\ b * q \in Nat
  <2> HIDE DEF b, q
  <2> QED
    BY <1>1
<1>6. WaitAt("server", m, l, j, i) \in Nat
  BY WaitLaws DEF Ends
<1> HIDE DEF q, b
<1> QED
  BY <1>1, <1>2, <1>3, <1>4, <1>5, <1>6

-----------------------------------------------------------------------------
\* What the types of the variables come to.
LEMMA ChainTyped ==
  ASSUME ChainTypes
  PROVE  /\ mode \in [Ends -> {"off", "trying", "holding", "teardown"}]
         /\ at \in [Ends -> Candidates] /\ left \in [Ends -> Nat]
         /\ downFor \in [Ends -> 0..Regrace] /\ settled \in [Ends -> BOOLEAN]
         /\ open \subseteq Candidates /\ overlap \in 0..Settle /\ up \in BOOLEAN
         /\ waited \in Nat /\ Round \in Nat
<1>1. Round \in Nat
  BY Products, ChainAssumption DEF Round
<1> QED
  BY <1>1 DEF ChainTypes, ChainTypeOK

LEMMA ChainInitInv == ChainInit => ChainInv
<1> SUFFICES ASSUME ChainInit PROVE ChainInv
  OBVIOUS
<1>1. Round \in Nat /\ 0 \in Candidates
  BY Products, ChainAssumption DEF Round, Candidates
<1>2. left \in [Ends -> Nat] /\ \A e \in Ends : left[e] \in 0..Teardown
  BY ChainAssumption DEF ChainInit
<1>3. ChainTypes
  <2>1. /\ mode \in [Ends -> {"off", "trying", "holding", "teardown"}] /\ at \in [Ends -> Candidates]
        /\ settled \in [Ends -> BOOLEAN] /\ open \subseteq Candidates /\ up \in BOOLEAN
    BY <1>1 DEF ChainInit
  <2>2. /\ downFor \in [Ends -> 0..Regrace] /\ overlap \in 0..Settle
        /\ waited \in 0..(Round + 1) /\ events \in 0..MaxEvents
    BY <1>1, ChainAssumption DEF ChainInit
  <2> QED
    BY <1>2, <2>1, <2>2 DEF ChainTypes, ChainTypeOK
<1>4. (\A e \in Ends : EndFacts(e)) /\ UpSettled /\ waited = 0 /\ MeetInARound
  BY <1>1 DEF ChainInit, EndFacts, UpSettled, MeetInARound
<1>5. OnTheWay
  BY DEF ChainInit, OnTheWay, Rotating, Ends
<1> QED
  BY <1>3, <1>4, <1>5 DEF ChainInv

\* Every step keeps the types.
LEMMA ChainTypesStep == ChainTypes /\ (\A e \in Ends : EndFacts(e)) /\ [ChainNext]_chainVars => ChainTypes'
<1> SUFFICES ASSUME ChainTypes, \A e \in Ends : EndFacts(e), [ChainNext]_chainVars PROVE ChainTypes'
  OBVIOUS
<1> USE ChainTyped
<1>0. Regrace \in Nat /\ Settle \in Nat /\ Teardown \in Nat /\ MaxEvents \in Nat
      /\ 0 \in Candidates /\ events \in 0..MaxEvents /\ waited \in 0..(Round + 1)
  BY ChainAssumption DEF ChainTypes, ChainTypeOK, Candidates
<1>w. \A e \in Ends : left[e] \in 0..attemptWindow(e) \/ left[e] \in 0..Teardown
  BY DEF ChainTypes, ChainTypeOK
<1>s. ASSUME NEW e \in Ends, NEW i \in Candidates, Starts(e, i)
      PROVE  /\ mode' \in [Ends -> {"off", "trying", "holding", "teardown"}]
             /\ at' \in [Ends -> Candidates] /\ left' \in [Ends -> Nat]
             /\ settled' \in [Ends -> BOOLEAN]
             /\ \A f \in Ends : left'[f] \in 0..attemptWindow(f) \/ left'[f] \in 0..Teardown
  BY <1>s, <1>w, Windows DEF Starts
<1>l. ASSUME NEW e \in Ends, Leaves(e) PROVE ChainTypes'
  <2>1. /\ mode' \in [Ends -> {"off", "trying", "holding", "teardown"}]
        /\ settled' \in [Ends -> BOOLEAN] /\ up' \in BOOLEAN
    BY <1>l DEF Leaves
  <2>2. /\ left' \in [Ends -> Nat] /\ downFor' \in [Ends -> 0..Regrace] /\ overlap' \in 0..Settle
        /\ \A f \in Ends : left'[f] \in 0..attemptWindow(f) \/ left'[f] \in 0..Teardown
    BY <1>l, <1>0, <1>w DEF Leaves
  <2>3. UNCHANGED <<at, open, waited, events>>
    BY <1>l DEF Leaves
  <2> QED
    BY <2>1, <2>2, <2>3, <1>0 DEF ChainTypes, ChainTypeOK
<1>1. ASSUME NEW e \in Ends, Deadline(e) PROVE ChainTypes'
  BY <1>1, <1>l DEF Deadline
<1>2. ASSUME NEW e \in Ends, PollSettled(e) PROVE ChainTypes'
  BY <1>2, <1>0, <1>w DEF PollSettled, ChainTypes, ChainTypeOK
<1>3. ASSUME NEW e \in Ends, hold(e) PROVE ChainTypes'
  BY <1>3, <1>l DEF hold
<1>4. ASSUME NEW e \in Ends, NextCandidate(e) PROVE ChainTypes'
  <2>1. Starts(e, following(at[e])) /\ following(at[e]) \in Candidates
    BY <1>4, Following DEF NextCandidate
  <2>2. UNCHANGED <<downFor, open, overlap, up, waited, events>>
    BY <1>4 DEF NextCandidate
  <2>3. /\ mode' \in [Ends -> {"off", "trying", "holding", "teardown"}]
        /\ at' \in [Ends -> Candidates] /\ left' \in [Ends -> Nat]
        /\ settled' \in [Ends -> BOOLEAN]
        /\ \A f \in Ends : left'[f] \in 0..attemptWindow(f) \/ left'[f] \in 0..Teardown
    BY <2>1, <1>s
  <2> QED
    BY <2>2, <2>3, <1>0 DEF ChainTypes, ChainTypeOK
<1>5. ASSUME NEW e \in Ends, Run(e) PROVE ChainTypes'
  <2>1. Starts(e, 0) /\ downFor' \in [Ends -> 0..Regrace] /\ up' = FALSE /\ overlap' = 0 /\ waited' = 0
        /\ events' \in 0..MaxEvents /\ UNCHANGED open
    BY <1>5, <1>0 DEF Run
  <2>3. /\ mode' \in [Ends -> {"off", "trying", "holding", "teardown"}]
        /\ at' \in [Ends -> Candidates] /\ left' \in [Ends -> Nat]
        /\ settled' \in [Ends -> BOOLEAN]
        /\ \A f \in Ends : left'[f] \in 0..attemptWindow(f) \/ left'[f] \in 0..Teardown
    BY <2>1, <1>0, <1>s
  <2>4. overlap' \in 0..Settle /\ waited' \in 0..(Round + 1)
    BY <2>1, <1>0
  <2>5. up' \in BOOLEAN /\ open' \subseteq Candidates
    BY <2>1, Zenon
  <2> QED
    BY <2>1, <2>3, <2>4, <2>5 DEF ChainTypes, ChainTypeOK
<1>6. ASSUME NEW e \in Ends, Notice(e) PROVE ChainTypes'
  BY <1>6, <1>0, <1>w DEF Notice, ChainTypes, ChainTypeOK
<1>7. ASSUME NEW i \in Candidates, Filter(i) PROVE ChainTypes'
  BY <1>7, <1>0, <1>w DEF Filter, ChainTypes, ChainTypeOK
<1>8. ASSUME Connect PROVE ChainTypes'
  BY <1>8, <1>0, <1>w DEF Connect, ChainTypes, ChainTypeOK
<1>9. ASSUME Tick PROVE ChainTypes'
  <2>1. \A e \in Ends : mode[e] \in {"trying", "teardown"} => left[e] > 0
    BY <1>9, ChainTyped DEF Tick, Due
  <2>2. left' \in [Ends -> Nat]
    BY <1>9, <2>1 DEF Tick
  <2>3. \A e \in Ends : left'[e] <= left[e]
    BY <1>9, <2>1, ChainTyped DEF Tick
  <2>4. \A e \in Ends : left'[e] \in 0..attemptWindow(e) \/ left'[e] \in 0..Teardown
    BY <2>2, <2>3, <1>w, <1>0, Windows
  <2>5. /\ downFor' \in [Ends -> 0..Regrace] /\ overlap' \in 0..Settle /\ waited' \in 0..(Round + 1)
    BY <1>9, <1>0 DEF Tick, OneMore
  <2> QED
    BY <1>9, <1>0, <2>2, <2>4, <2>5 DEF Tick, ChainTypes, ChainTypeOK
<1>10. CASE UNCHANGED chainVars
  BY <1>10, <1>0, <1>w DEF chainVars, ChainTypes, ChainTypeOK
<1> QED
  BY <1>1, <1>2, <1>3, <1>4, <1>5, <1>6, <1>7, <1>8, <1>9, <1>10 DEF ChainNext, EndStep

\* Every step keeps what is said of one end, of the tunnel and of a chain
\* with every carrier filtered.
LEMMA ChainFactsStep ==
  ASSUME ChainTypes, \A e \in Ends : EndFacts(e), UpSettled, open = {} => waited = 0,
         [ChainNext]_chainVars
  PROVE  (\A e \in Ends : EndFacts(e)') /\ UpSettled' /\ (open' = {} => waited' = 0)
<1> DEFINE G == (\A e \in Ends : EndFacts(e)') /\ UpSettled' /\ (open' = {} => waited' = 0)
<1>t. /\ mode \in [Ends -> {"off", "trying", "holding", "teardown"}]
      /\ at \in [Ends -> Candidates] /\ left \in [Ends -> Nat]
      /\ downFor \in [Ends -> 0..Regrace] /\ settled \in [Ends -> BOOLEAN]
      /\ waited \in Nat /\ Teardown \in Nat /\ Regrace \in Nat \ {0}
      /\ \A e \in Ends : attemptWindow(e) \in Nat
  BY ChainTyped, Windows, ChainAssumption
<1>f. /\ \A e \in Ends : mode[e] = "trying" => left[e] <= attemptWindow(e)
      /\ \A e \in Ends : mode[e] = "teardown" => left[e] <= Teardown
      /\ \A e \in Ends : mode[e] = "off" => waited = 0
      /\ \A e \in Ends : mode[e] # "holding" => downFor[e] = 0
      /\ \A e \in Ends : downFor[e] > 0 => waited = 0
  BY DEF EndFacts
<1>l. ASSUME NEW e \in Ends, mode[e] \in {"trying", "holding"}, Leaves(e) PROVE G
  BY <1>t, <1>f, <1>l DEF Leaves, EndFacts, UpSettled
<1>1. ASSUME NEW e \in Ends, Deadline(e) PROVE G
  BY <1>1, <1>l DEF Deadline
<1>2. ASSUME NEW e \in Ends, PollSettled(e) PROVE G
  <2>1. UpSettled'
    BY <1>t, <1>2 DEF PollSettled, UpSettled, Running
  <2>2. ASSUME NEW f \in Ends PROVE EndFacts(f)'
    BY <1>t, <1>f, <1>2 DEF PollSettled, EndFacts
  <2> QED
    BY <2>1, <2>2, <1>2 DEF PollSettled
<1>3. ASSUME NEW e \in Ends, hold(e) PROVE G
  BY <1>3, <1>l DEF hold
<1>4. ASSUME NEW e \in Ends, NextCandidate(e) PROVE G
  <2>1. ~up
    BY <1>4 DEF NextCandidate, UpSettled, Running
  <2>2. ASSUME NEW f \in Ends PROVE EndFacts(f)'
    BY <1>t, <1>f, <1>4 DEF NextCandidate, Starts, EndFacts
  <2> QED
    BY <2>1, <2>2, <1>4 DEF NextCandidate, UpSettled
<1>5. ASSUME NEW e \in Ends, Run(e) PROVE G
  <2>1. ASSUME NEW f \in Ends PROVE EndFacts(f)'
    BY <1>t, <1>f, <1>5 DEF Run, Starts, EndFacts
  <2> QED
    BY <2>1, <1>5 DEF Run, UpSettled
<1>6. ASSUME NEW e \in Ends, Notice(e) PROVE G
  BY <1>t, <1>f, <1>6 DEF Notice, EndFacts, UpSettled
<1>7. ASSUME NEW i \in Candidates, Filter(i) PROVE G
  <2>1. ASSUME NEW f \in Ends PROVE EndFacts(f)'
    BY <1>t, <1>f, <1>7 DEF Filter, EndFacts
  <2>2. UpSettled'
    BY <1>7 DEF Filter, UpSettled, Running
  <2> QED
    BY <2>1, <2>2, <1>7 DEF Filter
<1>8. ASSUME Connect PROVE G
  <2>1. ASSUME NEW f \in Ends PROVE EndFacts(f)'
    BY <1>t, <1>f, <1>8 DEF Connect, EndFacts
  <2>2. UpSettled'
    BY <1>8 DEF Connect, Together, UpSettled, Running
  <2> QED
    BY <2>1, <2>2, <1>8 DEF Connect
<1>9. ASSUME Tick PROVE G
  <2>1. ASSUME NEW f \in Ends PROVE EndFacts(f)'
    <3>1. /\ mode' = mode /\ left'[f] <= left[f]
          /\ mode[f] # "holding" => downFor'[f] = 0
          /\ mode[f] \notin {"trying", "teardown"} => waited' = 0
      BY <1>t, <1>9 DEF Tick
    <3>2. left'[f] \in Int
      BY <1>t, <1>9 DEF Tick
    <3>3. downFor'[f] > 0 => mode[f] = "holding"
      BY <3>1
    <3> QED
      BY <1>t, <1>f, <3>1, <3>2, <3>3 DEF EndFacts
  <2>2. UpSettled'
    BY <1>9 DEF Tick, UpSettled, Running
  <2> QED
    BY <2>1, <2>2, <1>9 DEF Tick
<1>10. CASE UNCHANGED chainVars
  BY <1>10 DEF chainVars, EndFacts, UpSettled, Running
<1> QED
  BY <1>1, <1>2, <1>3, <1>4, <1>5, <1>6, <1>7, <1>8, <1>9, <1>10 DEF ChainNext, EndStep

\* While both ends rotate, every step keeps them on the way to each other.
LEMMA OnTheWayStep ==
  ASSUME LongEnough, ChainInv, [ChainNext]_chainVars, ChainTypes', \A e \in Ends : EndFacts(e)'
  PROVE  OnTheWay'
<1> SUFFICES ASSUME Rotating', NEW i \in open' PROVE Ahead(i)' \/ Meeting(i)'
  BY DEF OnTheWay
<1> DEFINE Modes == {"off", "trying", "holding", "teardown"}
<1>t. /\ mode \in [Ends -> Modes] /\ at \in [Ends -> Candidates] /\ left \in [Ends -> Nat]
      /\ overlap \in 0..Settle /\ waited \in Nat /\ open \subseteq Candidates
      /\ downFor \in [Ends -> 0..Regrace] /\ Round \in Nat
  BY ChainTyped DEF ChainInv
<1>u. /\ mode' \in [Ends -> Modes] /\ at' \in [Ends -> Candidates] /\ left' \in [Ends -> Nat]
      /\ overlap' \in 0..Settle /\ waited' \in Nat /\ open' \subseteq Candidates
  <2>1. ChainTypes'
    OBVIOUS
  <2> QED
    BY <2>1, Products, ChainAssumption DEF ChainTypes, ChainTypeOK, Round
<1>c. i \in Candidates /\ "server" \in Ends /\ "client" \in Ends
  BY <1>u DEF Ends
<1>d. /\ attemptWindow("server") = Dwell /\ \A e \in Ends : attemptWindow(e) \in Nat /\ Slot(e) \in Nat
      /\ Settle \in Nat \ {0} /\ Teardown \in Nat /\ Dwell \in Nat /\ Regrace \in Nat \ {0}
  BY Windows, ChainAssumption DEF Ends
<1>m. \A e \in Ends : mode[e] \in Modes /\ left[e] \in Nat /\ at[e] \in Candidates
  BY <1>t
<1>n. \A e \in Ends : mode'[e] \in Modes /\ left'[e] \in Nat /\ at'[e] \in Candidates
  BY <1>u
<1>w. \A e \in Ends : Wait(e, i) \in Nat /\ Wait(e, i) >= left[e]
  BY <1>m, <1>c, WaitLaws DEF Wait
<1>x. \A e \in Ends : Wait(e, i)' \in Nat
  BY <1>n, <1>c, WaitLaws DEF Wait
<1>o. Rotating /\ i \in open => Ahead(i) \/ Meeting(i)
  BY DEF ChainInv, OnTheWay

\* The count starts again: the server will be at i within a round.
<1>z. ASSUME waited' = 0 PROVE Ahead(i)'
  <2>1. /\ mode'["server"] \in {"trying", "teardown"}
        /\ mode'["server"] = "trying" => left'["server"] <= attemptWindow("server")
        /\ mode'["server"] = "teardown" => left'["server"] <= Teardown
    BY <1>c DEF Rotating, EndFacts
  <2>2. WaitAt("server", mode'["server"], left'["server"], at'["server"], i) + Dwell <= Round
    BY <2>1, <1>u, <1>c, Fresh
  <2> QED
    BY <2>2, <1>z, <1>x, <1>c, <1>d DEF Ahead, Wait
\* Nothing they wait for changed, and neither end was in its last second.
<1>k. ASSUME Rotating, open' = open, waited' = waited, NEW e \in Ends,
             mode' = [mode EXCEPT ![e] = mode'[e]], left' = [left EXCEPT ![e] = left'[e]],
             at' = [at EXCEPT ![e] = at'[e]], Wait(e, i)' = Wait(e, i),
             Meeting(i) => e = "client" /\ Wait("client", i) + Settle < left["server"]
      PROVE  Ahead(i)' \/ Meeting(i)'
  <2>1. \A f \in Ends : Wait(f, i)' = Wait(f, i)
    <3> SUFFICES ASSUME NEW f \in Ends, f # e PROVE Wait(f, i)' = Wait(f, i)
      BY <1>k
    <3>1. mode'[f] = mode[f] /\ left'[f] = left[f] /\ at'[f] = at[f]
      BY <1>k, <1>t
    <3> QED
      BY <3>1 DEF Wait
  <2>2. CASE Ahead(i)
    BY <2>1, <2>2, <1>k, <1>c DEF Ahead
  <2>3. CASE Meeting(i)
    <3>1. mode'["server"] = mode["server"] /\ left'["server"] = left["server"] /\ at'["server"] = at["server"]
      BY <2>3, <1>k, <1>t, <1>c
    <3> QED
      BY <2>1, <2>3, <3>1, <1>k, <1>c DEF Meeting
  <2> QED
    BY <2>2, <2>3, <1>k, <1>o

<1>1. ASSUME NEW e \in Ends, Deadline(e) PROVE Ahead(i)' \/ Meeting(i)'
  <2>1. /\ mode[e] = "trying" /\ left[e] = 0 /\ open' = open /\ waited' = waited /\ at' = at
        /\ mode' = [mode EXCEPT ![e] = "teardown"] /\ left' = [left EXCEPT ![e] = Teardown]
    BY <1>1 DEF Deadline, Leaves
  <2>2. Rotating
    BY <2>1, <1>t DEF Rotating
  <2>3. mode'[e] = "teardown" /\ left'[e] = Teardown /\ at'[e] = at[e]
    BY <2>1, <1>t
  <2>4. Wait(e, i)' = Wait(e, i)
    <3>1. WaitAt(e, "teardown", Teardown, at[e], i) = WaitAt(e, "trying", 0, at[e], i)
      BY <1>t, <1>c, <1>d, WaitLaws
    <3> QED
      BY <2>1, <2>3, <3>1 DEF Wait
  <2>5. Meeting(i) => e = "client" /\ Wait("client", i) + Settle < left["server"]
    BY <2>1, <1>t, <1>w, <1>c, <1>d DEF Meeting, Ends
  <2> QED
    BY <1>k, <2>1, <2>2, <2>3, <2>4, <2>5, <1>t
<1>2. ASSUME NEW e \in Ends, PollSettled(e) PROVE FALSE
  BY <1>2, <1>t DEF PollSettled, Rotating
<1>3. ASSUME NEW e \in Ends, hold(e) PROVE waited' = 0
  BY <1>3, <1>t, <1>d DEF hold, Leaves, ChainInv, EndFacts
<1>4. ASSUME NEW e \in Ends, NextCandidate(e) PROVE Ahead(i)' \/ Meeting(i)'
  <2> DEFINE n == following(at[e])
  <2>1. /\ mode[e] = "teardown" /\ left[e] = 0 /\ open' = open /\ waited' = waited /\ overlap' = overlap
        /\ mode' = [mode EXCEPT ![e] = "trying"] /\ left' = [left EXCEPT ![e] = attemptWindow(e)]
        /\ at' = [at EXCEPT ![e] = n]
    BY <1>4 DEF NextCandidate, Starts
  <2>2. Rotating /\ n \in Candidates
    BY <2>1, <1>t, Following DEF Rotating
  <2>3. mode'[e] = "trying" /\ left'[e] = attemptWindow(e) /\ at'[e] = n
    BY <2>1, <1>t
  <2>4. CASE n # i
    <3>1. Wait(e, i)' = Wait(e, i)
      <4>1. WaitAt(e, "trying", attemptWindow(e), n, i) = WaitAt(e, "teardown", 0, at[e], i)
        BY <2>4, <1>t, <1>c, WaitLaws
      <4> QED
        BY <2>1, <2>3, <4>1 DEF Wait
    <3>2. Meeting(i) => e = "client" /\ Wait("client", i) + Settle < left["server"]
      BY <2>1, <1>c DEF Meeting, Ends
    <3> QED
      BY <1>k, <2>1, <2>2, <2>3, <3>1, <3>2, <1>t
  <2>5. CASE n = i /\ e = "server"
    <3>1. Ahead(i)
      BY <2>1, <2>2, <2>5, <1>o DEF Meeting
    <3>2. /\ mode'["server"] = "trying" /\ at'["server"] = i /\ left'["server"] = Dwell
          /\ mode'["client"] = mode["client"] /\ left'["client"] = left["client"] /\ at'["client"] = at["client"]
      BY <2>1, <2>3, <2>5, <1>t, <1>c, <1>d
    <3>3. waited' + left'["server"] <= Round
      BY <3>1, <3>2, <2>1, <1>t, <1>w, <1>c, <1>d DEF Ahead
    <3>4. Wait("client", i)' = Wait("client", i)
      BY <3>2 DEF Wait
    <3>5. (N - 1) * Slot("client") \in Nat /\ (N - 1) * Slot("client") + Teardown + 2 * Settle < Dwell
      BY <1>d, <1>c, Products, ChainAssumption DEF LongEnough
    <3>6. mode["client"] \in {"trying", "teardown"}
      BY <2>2, <1>c DEF Rotating
    <3>7. /\ mode["client"] = "trying" => left["client"] <= attemptWindow("client")
          /\ mode["client"] = "teardown" => left["client"] <= Teardown
      BY <1>c DEF ChainInv, EndFacts
    <3>b. /\ Wait("client", i) <= left["client"] + (IF mode["client"] = "trying" THEN Teardown ELSE 0)
                                  + (N - 1) * Slot("client")
          /\ mode["client"] = "trying" /\ at["client"] # i => Wait("client", i) <= (N - 1) * Slot("client")
      BY <3>7, <1>t, <1>c, WaitBound DEF Wait
    <3>8. CASE mode["client"] = "trying" /\ at["client"] = i /\ left["client"] > Settle
      <4>0. Settle < Dwell
        <5> DEFINE q == (N - 1) * Slot("client")
        <5>1. q \in Nat /\ q + Teardown + 2 * Settle < Dwell
          BY <3>5
        <5> HIDE DEF q
        <5> QED
          BY <5>1, <1>d
      <4>3. left'["client"] > Settle /\ left'["server"] > Settle
        BY <3>2, <3>8, <4>0
      <4>4. left'["client"] \in Nat /\ left'["server"] \in Nat /\ overlap' \in Nat
        BY <1>n, <1>u, <1>c, <1>d
      <4>1. left'["client"] + overlap' > Settle /\ left'["server"] + overlap' > Settle
        BY <4>3, <4>4, <1>d
      <4> QED
        BY <3>2, <3>3, <3>8, <4>1 DEF Meeting
    <3>9. CASE ~(mode["client"] = "trying" /\ at["client"] = i /\ left["client"] > Settle)
      <4>1. Wait("client", i) <= Settle + Teardown + (N - 1) * Slot("client")
        BY <3>5, <3>6, <3>7, <3>b, <3>9, <1>t, <1>w, <1>c, <1>d
      <4>2. Wait("client", i)' + Settle < left'["server"]
        BY <4>1, <3>2, <3>4, <3>5, <1>w, <1>c, <1>d
      <4> QED
        BY <3>2, <3>3, <4>2 DEF Meeting
    <3> QED
      BY <3>8, <3>9
  <2>6. CASE n = i /\ e = "client"
    <3>1. /\ mode'["client"] = "trying" /\ at'["client"] = i /\ left'["client"] = attemptWindow("client")
          /\ mode'["server"] = mode["server"] /\ left'["server"] = left["server"] /\ at'["server"] = at["server"]
      BY <2>1, <2>3, <2>6, <1>t, <1>c
    <3>2. CASE Ahead(i)
      BY <3>1, <3>2, <2>1 DEF Ahead, Wait
    <3>3. CASE Meeting(i)
      <4>1. Wait("client", i) + Settle < left["server"]
        BY <2>1, <2>6, <3>3 DEF Meeting
      <4>2. left'["client"] + overlap' > Settle /\ left'["server"] + overlap' > Settle
        BY <4>1, <3>1, <1>t, <1>u, <1>w, <1>c, <1>d DEF LongEnough
      <4> QED
        BY <3>1, <3>3, <4>2, <2>1 DEF Meeting
    <3> QED
      BY <2>1, <2>2, <3>2, <3>3, <1>o
  <2> QED
    BY <2>4, <2>5, <2>6 DEF Ends
<1>5. ASSUME NEW e \in Ends, Run(e) PROVE waited' = 0
  BY <1>5 DEF Run
<1>6. ASSUME NEW e \in Ends, Notice(e) PROVE Ahead(i)' \/ Meeting(i)'
  BY <1>6, <1>o DEF Notice, Rotating, Ahead, Meeting, Wait
<1>7. ASSUME NEW k \in Candidates, Filter(k) PROVE waited' = 0
  BY <1>7 DEF Filter
<1>8. ASSUME Connect PROVE waited' = 0
  BY <1>8 DEF Connect
<1>9. ASSUME Tick PROVE Ahead(i)' \/ Meeting(i)'
  <2>1. mode' = mode /\ at' = at /\ open' = open /\ Rotating
    BY <1>9 DEF Tick, Rotating
  <2>2. \A e \in Ends : mode[e] \in {"trying", "teardown"} /\ left[e] > 0 /\ left'[e] = left[e] - 1
    BY <1>9, <2>1, <1>t DEF Tick, Due, Rotating
  <2>3. waited' <= waited + 1
    BY <1>9, <1>t DEF Tick, OneMore
  <2>4. \A e \in Ends : Wait(e, i)' = Wait(e, i) - 1
    <3> SUFFICES ASSUME NEW e \in Ends PROVE Wait(e, i)' = Wait(e, i) - 1
      OBVIOUS
    <3> DEFINE p == (steps(at[e], i) - 1) * Slot(e)
               c == IF mode[e] = "trying" THEN Teardown ELSE 0
    <3>1. p \in Nat /\ c \in Nat
      BY <1>m, <1>c, <1>d, Steps, Products
    <3>2. Wait(e, i) = left[e] + c + p /\ Wait(e, i)' = left'[e] + c + p
      BY <2>1 DEF Wait, WaitAt
    <3>3. left[e] \in Nat /\ left'[e] = left[e] - 1
      BY <1>m, <2>2
    <3> HIDE DEF p, c
    <3> QED
      BY <3>1, <3>2, <3>3
  <2>5. CASE Ahead(i)
    BY <2>3, <2>4, <2>5, <1>t, <1>u, <1>w, <1>c, <1>d DEF Ahead
  <2>6. CASE Meeting(i)
    <3>1. mode'["server"] = "trying" /\ at'["server"] = i /\ waited' + left'["server"] <= Round
      BY <2>1, <2>2, <2>3, <2>6, <1>t, <1>u, <1>c DEF Meeting
    <3>2. CASE Wait("client", i) + Settle < left["server"]
      <4>1. Wait("client", i)' + Settle < left'["server"]
        BY <2>2, <2>4, <3>2, <1>t, <1>w, <1>c, <1>d
      <4> QED
        BY <3>1, <4>1 DEF Meeting
    <3>3. CASE /\ mode["client"] = "trying" /\ at["client"] = i
               /\ left["client"] + overlap > Settle /\ left["server"] + overlap > Settle
      <4>1. Together
        BY <2>1, <2>6, <3>3 DEF Together, Running, Meeting, Ends
      <4>2. ~up
        BY <1>9, <2>6, <1>c DEF Tick, Due, Meeting, ChainInv, UpSettled
      <4>3. overlap' = overlap + 1
        BY <4>1, <4>2, <1>9, <1>t, <1>d DEF Tick, OneMore
      <4>4. left'["client"] + overlap' > Settle /\ left'["server"] + overlap' > Settle
        BY <4>3, <2>2, <3>3, <1>t, <1>c, <1>d
      <4> QED
        BY <3>1, <3>3, <4>4, <2>1 DEF Meeting
    <3> QED
      BY <2>6, <3>2, <3>3 DEF Meeting
  <2> QED
    BY <2>1, <2>5, <2>6, <1>o
<1>10. CASE UNCHANGED chainVars
  BY <1>10, <1>o DEF chainVars, Rotating, Ahead, Meeting, Wait
<1> QED
  BY <1>z, <1>1, <1>2, <1>3, <1>4, <1>5, <1>6, <1>7, <1>8, <1>9, <1>10
  DEF ChainInv, ChainNext, EndStep

\* The count of seconds: within bounds as long as they are on the way.
LEMMA CountStep ==
  ASSUME MeetInARound, OnTheWay', [ChainNext]_chainVars, ChainTypes, ChainTypes',
         (open = {} => waited = 0)'
  PROVE  MeetInARound'
<1>t. /\ waited \in Nat /\ Round \in Nat /\ waited' \in Nat
      /\ open' \subseteq Candidates /\ left' \in [Ends -> Nat]
  BY ChainTyped DEF ChainTypes, ChainTypeOK
<1>1. CASE waited' = 0 \/ waited' = waited
  BY <1>1, <1>t DEF MeetInARound
<1>2. CASE Rotating' /\ open' # {}
  <2>1. PICK i \in open' : Ahead(i)' \/ Meeting(i)'
    BY <1>2 DEF OnTheWay
  <2>2. CASE Ahead(i)'
    <3>1. Wait("server", i)' \in Nat
      <4>1. /\ mode'["server"] \in {"off", "trying", "holding", "teardown"}
            /\ left'["server"] \in Nat /\ at'["server"] \in Candidates /\ i \in Candidates
            /\ "server" \in Ends
        BY <1>t DEF ChainTypes, ChainTypeOK, Ends
      <4> QED
        BY <4>1, WaitLaws DEF Wait
    <3> QED
      BY <2>2, <3>1, <1>t, ChainAssumption DEF Ahead, MeetInARound
  <2>3. CASE Meeting(i)'
    <3>1. left'["server"] \in Nat
      BY <1>t DEF Ends
    <3> QED
      BY <2>3, <3>1, <1>t DEF Meeting, MeetInARound
  <2> QED
    BY <2>1, <2>2, <2>3
<1>3. CASE Tick /\ ~(Rotating' /\ open' # {})
  <2>1. waited' = 0
    BY <1>3 DEF Tick, Rotating
  <2> QED
    BY <1>1, <2>1
<1> QED
  BY <1>1, <1>2, <1>3
  DEF ChainNext, EndStep, Deadline, PollSettled, hold, NextCandidate, Leaves, Run, Notice, Filter,
      Connect, chainVars

(* The types of both chains and of the clock they share, for every value of  *)
(* the constants, the count of seconds within its bound.                     *)
THEOREM ChainTypeCorrect == ChainSpec => []ChainTypeOK
<1> DEFINE TInv == ChainTypes /\ (\A e \in Ends : EndFacts(e)) /\ UpSettled /\ (open = {} => waited = 0)
<1>1. ChainInit => TInv
  BY ChainInitInv DEF ChainInv
<1>2. TInv /\ [ChainNext]_chainVars => TInv'
  <2> SUFFICES ASSUME TInv, [ChainNext]_chainVars PROVE TInv'
    OBVIOUS
  <2>1. ChainTypes'
    BY ChainTypesStep
  <2>2. (\A e \in Ends : EndFacts(e)') /\ UpSettled' /\ (open' = {} => waited' = 0)
    BY ChainFactsStep
  <2> QED
    BY <2>1, <2>2
<1>3. TInv => ChainTypeOK
  BY DEF ChainTypes
<1> QED
  BY <1>1, <1>2, <1>3, PTL DEF ChainSpec

(* MeetInARound (attemptWindow, Run, attempt: the two cadences that need no  *)
(* negotiation): while both ends rotate and a carrier gets through, they     *)
(* meet within one round of the server, from any two points of the two       *)
(* sweeps, for any number of candidates and whichever carriers get through,  *)
(* provided the dwell has room for the client's sweep with its teardowns.    *)
THEOREM RendezvousInTime == ASSUME LongEnough PROVE ChainSpec => []MeetInARound
<1>1. ChainInit => ChainInv
  BY ChainInitInv
<1>2. ChainInv /\ [ChainNext]_chainVars => ChainInv'
  <2> SUFFICES ASSUME ChainInv, [ChainNext]_chainVars PROVE ChainInv'
    OBVIOUS
  <2>1. ChainTypes'
    BY ChainTypesStep DEF ChainInv
  <2>2. (\A e \in Ends : EndFacts(e)') /\ UpSettled' /\ (open' = {} => waited' = 0)
    BY ChainFactsStep DEF ChainInv
  <2>3. OnTheWay'
    BY <2>1, <2>2, OnTheWayStep
  <2>4. MeetInARound'
    BY <2>1, <2>2, <2>3, CountStep DEF ChainInv
  <2> QED
    BY <2>1, <2>2, <2>3, <2>4 DEF ChainInv
<1>3. ChainInv => MeetInARound
  BY DEF ChainInv
<1> QED
  BY <1>1, <1>2, <1>3, PTL DEF ChainSpec

=============================================================================
