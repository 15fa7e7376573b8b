------------------------------ MODULE Watchdog ------------------------------
(***************************************************************************)
(* The watchdog of one tunnel, composed with the engine it watches.  It    *)
(* restarts the unit of a tunnel that was connected and is not any more,   *)
(* and climbs a ladder for one that is connected and carries one way only: *)
(* report, ask the engine for a new transport, restart the unit, give up.  *)
(*                                                                         *)
(* Time is counted in passes of the watchdog.  The ladder is on disk, with *)
(* its times as points on the wall clock; everything else is in memory.    *)
(***************************************************************************)
EXTENDS Engine, FiniteSetsExt

CONSTANTS
    Threshold,      \* wdThreshold
    Cooldown,       \* wdCooldown
    StallChecks,    \* stallChecks
    RestartAfter,   \* stallRestartAfter
    GiveUpAfter,    \* stallGiveUpAfter
    QuietFor,       \* stallQuietFor
    MaxLives        \* starts of the monitor

ASSUME WatchdogAssumption ==
    /\ Threshold \in Nat \ {0} /\ Cooldown \in Nat /\ StallChecks \in Nat \ {0}
    /\ RestartAfter \in Nat \ {0} /\ GiveUpAfter \in Nat /\ QuietFor \in Nat \ {0}
    /\ MaxLives \in Nat \ {0}

VARIABLES
    mon,        \* "off", "idle", or "saving" at the end of a pass
    fails, seenHealthy, \* the maps of RunWatchdog, for this tunnel
    cool,       \* passes since lastRestart, -1 when there was none
    reading,    \* flowWatch.seen
    disk,       \* stall-state.json
    life,       \* starts of the monitor
    spent,      \* history: units restarted by the ladder since the flow recovered
    unsaved,    \* history: rungs taken since the ladder was last saved
    forgotten,  \* history: rungs a monitor took and died before saving
    gaveUp      \* history: the ladder has given up on this stall

memory == <<fails, seenHealthy, cool, reading>>
history == <<spent, unsaved, forgotten, gaveUp>>
vars == <<evars, mon, memory, disk, life, history>>

NoReading == [runs |-> -1, since |-> -1, restarts |-> 0, quiet |-> 0, did |-> {}]
Readings == [runs : -1..StallChecks, since : -1..RestartAfter, restarts : 0..GiveUpAfter,
             quiet : 0..QuietFor, did : SUBSET {"reported", "reloaded"}]

(* The type invariant of the engine and its watchdog: among others, what     *)
(* runs was loaded from a file that parsed.                                  *)
TypeOK ==
    /\ EngineTypeOK
    /\ mon \in {"off", "idle", "saving"} /\ fails \in 0..Threshold /\ seenHealthy \in BOOLEAN
    /\ cool \in -1..(Cooldown + 1) /\ reading \in Readings /\ disk \in Readings
    /\ life \in 1..MaxLives /\ spent \in Nat /\ unsaved \in Nat /\ forgotten \in Nat /\ gaveUp \in BOOLEAN

Init ==
    /\ EngineInit
    /\ mon = "idle" /\ fails = 0 /\ seenHealthy = FALSE /\ cool = -1
    /\ reading = NoReading /\ disk = NoReading /\ life = 1
    /\ spent = 0 /\ unsaved = 0 /\ forgotten = 0 /\ gaveUp = FALSE

------------------------------------------------------------------------------
(* The ladder                                                               *)

older(r, n) ==
    [r EXCEPT !.since = IF @ = -1 THEN -1 ELSE Min({@ + n, RestartAfter}),
              !.quiet = Max({@ - n, 0})]

clear(r) == [r EXCEPT !.runs = 0, !.since = -1, !.restarts = 0, !.quiet = 0,
                     !.did = @ \ {"reported"}]

(* flowWatch.observe on a reading there is something to compare with.        *)
observe(r, flow) ==
    CASE r = NoReading -> [NoReading EXCEPT !.runs = 0]
      [] r # NoReading /\ flow = "idle" -> r
      [] r # NoReading /\ flow = "both" -> clear(r)
      [] r # NoReading /\ flow = "oneWay" ->
            [r EXCEPT !.runs = Min({@ + 1, StallChecks}),
                      !.since = IF @ = -1 /\ r.runs + 1 >= StallChecks THEN 0 ELSE @]
isStalled(r, flow) == r # NoReading /\ flow # "both" /\ observe(r, flow).runs >= StallChecks

(* A mutant: a stall is reported and nothing else.                           *)
rungWatching(r) == IF r.since # -1 /\ r.quiet = 0 /\ "reported" \notin r.did THEN "report" ELSE "watch"

(* flowWatch.decide: the next rung, and the reading after it.                *)
rung(r) ==
    IF r.since = -1 \/ r.quiet > 0 THEN "watch"
    ELSE IF "reported" \notin r.did THEN "report"
    ELSE IF r.since < RestartAfter THEN "watch"
    ELSE IF "reloaded" \notin r.did THEN "reload"
    ELSE IF r.restarts >= GiveUpAfter THEN "giveUp"
    ELSE "restart"
decide(r) ==
    CASE rung(r) = "watch" -> r
      [] rung(r) = "report" -> [r EXCEPT !.did = @ \cup {"reported"}]
      [] rung(r) = "reload" -> [r EXCEPT !.did = @ \cup {"reloaded"}, !.since = 0]
      [] rung(r) = "giveUp" -> [r EXCEPT !.quiet = QuietFor]
      [] rung(r) = "restart" -> [r EXCEPT !.restarts = Min({@ + 1, GiveUpAfter}), !.since = 0]

------------------------------------------------------------------------------
(* One pass of RunWatchdog                                                  *)

cooledDown == cool = -1 \/ cool + 1 > Cooldown
cooling == IF cool = -1 THEN -1 ELSE Min({cool + 1, Cooldown + 1})

(* tunnelHealthy: the engine's own word from the snapshot, and when there is *)
(* none the socket table, in which a dead connection may still be seen.      *)
tunnelHealthy == CASE snap.conn = "yes" -> {TRUE}
                   [] snap.conn = "no" -> {FALSE}
                   [] snap.conn = "nil" -> {TRUE, connected(fault)}
(* What the counters have done since the pass before: nothing, when it read  *)
(* the same snapshot.                                                        *)
flowSeen == IF age = 0 THEN snap.flow ELSE "idle"

(* A start takes no time; the next pass is many seconds away.                *)
Passing ==
    /\ mon = "idle" /\ epc \notin {"forked", "loaded"} /\ (Up => age < 2)
    /\ mon' = "saving" /\ age' = Min({age + 1, 2})
    /\ disk' = older(disk, 1)
    /\ UNCHANGED <<file, fp, fault, faults, snap, life>>

PassInactive ==
    /\ Passing /\ ~Up
    /\ fails' = 0 /\ reading' = NoReading /\ cool' = cooling
    /\ spent' = 0 /\ gaveUp' = FALSE
    /\ UNCHANGED <<loop, seenHealthy, unsaved, forgotten>>

(* Connected, and nothing is known of its counters, or they show no stall.   *)
PassHealthy ==
    /\ Passing /\ Up /\ TRUE \in tunnelHealthy
    /\ fails' = 0 /\ seenHealthy' = TRUE /\ cool' = cooling
    /\ \/ snap.conn # "yes" /\ reading' = older(reading, 1) /\ UNCHANGED <<spent, gaveUp>>
       \/ /\ snap.conn = "yes" /\ ~isStalled(reading, flowSeen)
          /\ reading' = observe(older(reading, 1), flowSeen)
          /\ IF flowSeen = "both" THEN spent' = 0 /\ gaveUp' = FALSE
                                  ELSE UNCHANGED <<spent, gaveUp>>
    /\ UNCHANGED <<loop, unsaved, forgotten>>

(* Connected and stalled: checkThroughput takes the next step of the ladder. *)
(* The request for a new transport is refused when there is nobody to ask,   *)
(* and then the unit is restarted at once; a restart within the cool-down is *)
(* not done, though the ladder has counted it.                               *)
PassStalled ==
    /\ Passing /\ Up /\ snap.conn = "yes" /\ isStalled(reading, flowSeen)
    /\ fails' = 0 /\ seenHealthy' = TRUE
    /\ LET r == observe(older(reading, 1), flowSeen)
           asked == rung(r) = "reload" /\ restartAccepted
           unit == (rung(r) = "restart" \/ (rung(r) = "reload" /\ ~restartAccepted)) /\ cooledDown
       IN  /\ reading' = decide(r)
           /\ gaveUp' = (gaveUp \/ rung(r) = "giveUp")
           /\ unsaved' = IF rung(r) \in {"reload", "restart"} THEN unsaved + 1 ELSE unsaved
           /\ IF unit
              THEN RestartService /\ cool' = 0 /\ spent' = spent + 1
              ELSE /\ IF asked THEN RestartTransport ELSE UNCHANGED ended
                   /\ cool' = cooling
                   /\ UNCHANGED <<epc, cfg, next, last, why, stopFn, spent>>
    /\ UNCHANGED forgotten

(* Not connected: a drop, if this monitor has seen the tunnel up.            *)
PassLost ==
    /\ Passing /\ Up /\ FALSE \in tunnelHealthy
    /\ reading' = older(reading, 1)
    /\ IF ~seenHealthy
       THEN cool' = cooling /\ UNCHANGED <<loop, fails>>
       ELSE IF fails + 1 >= Threshold /\ cooledDown
       THEN RestartService /\ cool' = 0 /\ fails' = 0
       ELSE cool' = cooling /\ fails' = Min({fails + 1, Threshold}) /\ UNCHANGED loop
    /\ UNCHANGED <<seenHealthy, spent, unsaved, forgotten, gaveUp>>

(* A mutant: the restarts are not among what is kept.                        *)
savedForgetful == [reading EXCEPT !.restarts = 0, !.quiet = 0]

(* flowWatch.save, at the end of a pass: written whole, or not at all.       *)
saved == reading
Save ==
    /\ mon = "saving" /\ mon' = "idle"
    /\ \/ disk' = saved /\ unsaved' = 0 /\ UNCHANGED faults
       \/ faults < MaxFaults /\ faults' = faults + 1 /\ UNCHANGED <<disk, unsaved>>
    /\ UNCHANGED <<file, fp, loop, fault, snap, age, memory, life, spent, forgotten, gaveUp>>

(* The monitor service ends, in the middle of a pass or between two.         *)
MonitorDies ==
    /\ mon # "off" /\ life < MaxLives
    /\ mon' = "off"
    /\ fails' = 0 /\ seenHealthy' = FALSE /\ cool' = -1 /\ reading' = NoReading
    /\ forgotten' = forgotten + unsaved /\ unsaved' = 0
    /\ UNCHANGED <<evars, disk, life, spent, gaveUp>>

(* RunWatchdog starts, some time later, with what flowWatch.load finds.      *)
MonitorStarts(n) ==
    /\ mon = "off"
    /\ mon' = "idle" /\ life' = life + 1
    /\ disk' = older(disk, n) /\ reading' = disk'
    /\ UNCHANGED <<evars, fails, seenHealthy, cool, history>>

EngineStep == (EngineSteps \/ \E flow \in {"idle", "both", "oneWay"} : Write(flow))
              /\ UNCHANGED <<mon, memory, disk, life, history>>
Pass == PassInactive \/ PassHealthy \/ PassStalled \/ PassLost

Next ==
    \/ EngineStep \/ Pass \/ Save \/ MonitorDies
    \/ \E n \in {0, QuietFor} : MonitorStarts(n)
    \/ Outside /\ UNCHANGED <<mon, memory, disk, life, history>>

Spec == Init /\ [][Next]_vars

(* The goroutines of the engine and its collector go on, systemd starts a    *)
(* process that is down, and the watchdog's ticker and service go on.  While *)
(* a tunnel carries one way only and is used, its counters say so again and  *)
(* again.                                                                    *)
FairSpec ==
    /\ Spec
    /\ WF_vars(EngineSteps /\ UNCHANGED <<mon, memory, disk, life, history>>)
    /\ WF_vars(EngineStep) /\ WF_vars(Pass) /\ WF_vars(Save)
    /\ WF_vars(\E n \in {0, QuietFor} : MonitorStarts(n))
    /\ SF_vars(Write("oneWay") /\ UNCHANGED <<mon, memory, disk, life, history>>)

------------------------------------------------------------------------------
(* Properties                                                               *)

(* The ladder spends a bounded number of unit restarts on one stall, however *)
(* often the monitor itself restarts: two, one more when there is no engine  *)
(* to ask for a new transport, and the ones whose record was lost because    *)
(* the monitor died before it was saved.                                     *)
LadderBounded == spent <= GiveUpAfter + 1 + forgotten

(* A stall ends or is given up, unless the unit cannot start again because   *)
(* its file does not parse.                                                  *)
StallAnswered == oneWay(fault) ~> (~oneWay(fault) \/ gaveUp \/ file = Bad)

(* An edit made while the loop is waiting is what runs in the end, unless    *)
(* the file is written again, or a restart of the transport comes first.     *)
EditApplied ==
    \A n \in 1..MaxEdits :
        (epc = "waiting" /\ last # fp /\ fp = n /\ file # Bad)
            ~> (cfg = file \/ fp # n \/ why = "restart" \/ epc = "stopped")
==============================================================================
