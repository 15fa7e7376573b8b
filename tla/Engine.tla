------------------------------- MODULE Engine -------------------------------
(***************************************************************************)
(* The process of one tunnel: the loop that runs one generation after      *)
(* another, the poll of the configuration file that ends a generation when *)
(* the file means something else, the control socket through which a       *)
(* generation can be asked to end, and the metrics snapshot it leaves on   *)
(* disk for whoever watches the tunnel.                                    *)
(*                                                                         *)
(* systemd is external: it starts a process that is down again.  What is   *)
(* wrong with the tunnel, if anything, is the variable fault; a new        *)
(* generation, or only a new process, puts some faults right.              *)
(***************************************************************************)
EXTENDS Integers

CONSTANTS
    Configs,    \* what a file that parses can mean
    First,      \* what it means in the beginning
    Bad,        \* what a file that does not parse means
    MaxEdits,   \* writes of the configuration file
    MaxFaults   \* faults, crashes, stops, recoveries and edits

ASSUME ConfigsAssumption == First \in Configs /\ Bad \notin Configs
ASSUME EngineBoundsAssumption == MaxEdits \in Nat /\ MaxFaults \in Nat

VARIABLES
    file, fp,   \* what the file means, and its fingerprint: the number of writes
    epc,        \* where the process is
    cfg, next,  \* the configuration as loaded, and the one to run next
    last,       \* the fingerprint awaitConfigChange compares with
    why,        \* why the generation is ending
    ended,      \* the context of the running generation has been cancelled
    stopFn,     \* engineControl.restart: the generation it would cancel
    fault,      \* what is wrong with the tunnel
    faults,     \* how often the environment has interfered
    snap,       \* the metrics snapshot on disk
    age         \* passes of the watchdog since the snapshot was written

loop == <<epc, cfg, next, last, why, ended, stopFn>>
evars == <<file, fp, loop, fault, faults, snap, age>>

Faults == {"none",
           "cut",    \* the connection is lost; a new generation connects
           "away",   \* the peer is away; nothing here helps
           "wedge",  \* connected, one way only; a new generation helps
           "hang",   \* connected, one way only; only a new process helps
           "path"}   \* connected, one way only; nothing here helps
connected(f) == f \notin {"cut", "away"}
oneWay(f) == f \in {"wedge", "hang", "path"}
Up == epc \notin {"down", "stopped"}

Snapshots == [conn : {"nil", "yes", "no"}, flow : {"idle", "both", "oneWay"}]

EngineTypeOK ==
    /\ file \in Configs \cup {Bad} /\ fp \in 0..MaxEdits
    /\ epc \in {"down", "forked", "loaded", "launched", "waiting", "ending", "ports", "stopped"}
    /\ cfg \in Configs /\ next \in Configs /\ last \in 0..MaxEdits
    /\ why \in {"none", "config", "restart"} /\ ended \in BOOLEAN
    /\ stopFn \in {"nil", "running", "over"}
    /\ fault \in Faults /\ faults \in 0..MaxFaults
    /\ snap \in Snapshots /\ age \in 0..2

EngineInit ==
    /\ file = First /\ fp = 0 /\ epc = "down" /\ cfg = file /\ next = file /\ last = 0
    /\ why = "none" /\ ended = FALSE /\ stopFn = "nil"
    /\ fault = "none" /\ faults = 0
    /\ snap = [conn |-> "nil", flow |-> "idle"] /\ age = 0

------------------------------------------------------------------------------
(* The loop of Run.                                                         *)

(* systemd starts a process that has ended.                                  *)
Fork ==
    /\ epc = "down"
    /\ epc' = "forked"
    /\ UNCHANGED <<file, fp, cfg, next, last, why, ended, stopFn, fault, faults, snap, age>>

(* The first load must succeed: a file that does not parse is fatal.  The    *)
(* control socket is served from here on, and a first snapshot written.      *)
Load ==
    /\ epc = "forked"
    /\ IF file = Bad
       THEN epc' = "down" /\ UNCHANGED <<cfg, why, ended, stopFn, fault, snap, age>>
       ELSE /\ cfg' = file /\ epc' = "loaded" /\ stopFn' = "nil" /\ ended' = FALSE /\ why' = "none"
            /\ fault' = IF fault = "hang" THEN "none" ELSE fault
            /\ snap' = [conn |-> "nil", flow |-> "idle"] /\ age' = 0
    /\ UNCHANGED <<file, fp, next, last, faults>>

(* setGeneration, and the goroutine of runEngine.                            *)
Launch ==
    /\ epc = "loaded"
    /\ epc' = "launched" /\ ended' = FALSE /\ stopFn' = "running"
    /\ fault' = IF fault \in {"cut", "wedge"} THEN "none" ELSE fault
    /\ UNCHANGED <<file, fp, cfg, next, last, why, faults, snap, age>>

(* awaitConfigChange starts: the file as it is now is the one to compare.    *)
Await ==
    /\ epc = "launched"
    /\ epc' = "waiting" /\ last' = fp
    /\ UNCHANGED <<file, fp, cfg, next, why, ended, stopFn, fault, faults, snap, age>>

(* A tick of the poll that finds another fingerprint.                        *)
Poll ==
    /\ epc = "waiting" /\ fp # last
    /\ last' = fp
    /\ IF file = Bad \/ file = cfg
       THEN UNCHANGED <<epc, next, why>>
       ELSE next' = file /\ why' = "config" /\ epc' = "ending"
    /\ UNCHANGED <<file, fp, cfg, ended, stopFn, fault, faults, snap, age>>

(* The generation's own context ended.                                       *)
GenerationOver ==
    /\ epc = "waiting" /\ ended
    /\ why' = "restart" /\ epc' = "ending"
    /\ UNCHANGED <<file, fp, cfg, next, last, ended, stopFn, fault, faults, snap, age>>

(* cancel, and runEngine has returned.  The control socket keeps the cancel  *)
(* function of the generation that is over.                                  *)
Done ==
    /\ epc = "ending"
    /\ ended' = TRUE /\ stopFn' = "over" /\ epc' = "ports"
    /\ UNCHANGED <<file, fp, cfg, next, last, why, fault, faults, snap, age>>

(* A mutant: the configuration that was noticed is not the one that starts.  *)
SettledWithTheOld ==
    /\ epc = "ports"
    /\ epc' = "loaded" /\ why' = "none"
    /\ UNCHANGED <<file, fp, cfg, next, last, ended, stopFn, fault, faults, snap, age>>

(* waitForPorts is over: the ports came free, or portSettleTimeout passed.   *)
Settled ==
    /\ epc = "ports"
    /\ cfg' = IF why = "config" THEN next ELSE cfg
    /\ epc' = "loaded" /\ why' = "none"
    /\ UNCHANGED <<file, fp, next, last, ended, stopFn, fault, faults, snap, age>>

(* Collector.Write, every thirty seconds, against a pass of the watchdog     *)
(* every twenty-five: one or two passes fall between two snapshots.  Bytes   *)
(* may move both ways, one way, or not at all; a tunnel that carries one way *)
(* only may still let something through once in a while.                     *)
Write(flow) ==
    /\ Up /\ epc # "forked" /\ age > 0
    /\ \/ flow = "idle" /\ UNCHANGED faults
       \/ flow = "both" /\ fault = "none" /\ UNCHANGED faults
       \/ flow = "both" /\ oneWay(fault) /\ faults < MaxFaults /\ faults' = faults + 1
       \/ flow = "oneWay" /\ oneWay(fault) /\ UNCHANGED faults
    /\ snap' = [conn |-> IF connected(fault) THEN "yes" ELSE "no", flow |-> flow]
    /\ age' = 0
    /\ UNCHANGED <<file, fp, loop, fault>>

------------------------------------------------------------------------------
(* What is done to the process.                                             *)

(* RestartTransport and the answer a caller gets from it.                    *)
restartAccepted == epc # "forked" /\ stopFn # "nil"
RestartTransport == ended' = (ended \/ stopFn = "running")

(* systemctl restart: the process ends and another is started.               *)
RestartService ==
    /\ epc' = "forked"
    /\ UNCHANGED <<cfg, next, last, why, ended, stopFn>>

(* An operator or a panel writes the configuration file.                     *)
Edit(c) ==
    /\ fp < MaxEdits /\ faults < MaxFaults
    /\ fp' = fp + 1 /\ file' = c /\ faults' = faults + 1
    /\ UNCHANGED <<loop, fault, snap, age>>

(* The process dies, or its unit is stopped or started.                      *)
Dies ==
    /\ Up /\ faults < MaxFaults
    /\ faults' = faults + 1 /\ epc' \in {"down", "stopped"}
    /\ fault' = IF epc' = "stopped" THEN "none" ELSE fault
    /\ UNCHANGED <<file, fp, cfg, next, last, why, ended, stopFn, snap, age>>
StartUnit ==
    /\ epc = "stopped"
    /\ epc' = "down"
    /\ UNCHANGED <<file, fp, cfg, next, last, why, ended, stopFn, fault, faults, snap, age>>

(* The network, the peer or the process itself goes wrong, and right again.  *)
GoesWrong(f) ==
    /\ Up /\ fault = "none" /\ f # "none" /\ faults < MaxFaults
    /\ fault' = f /\ faults' = faults + 1
    /\ UNCHANGED <<file, fp, loop, snap, age>>
GoesRight ==
    /\ fault # "none" /\ faults < MaxFaults
    /\ fault' = "none" /\ faults' = faults + 1
    /\ UNCHANGED <<file, fp, loop, snap, age>>

EngineSteps == Fork \/ Load \/ Launch \/ Await \/ Poll \/ GenerationOver \/ Done \/ Settled
Outside ==
    \/ \E c \in Configs \cup {Bad} : Edit(c)
    \/ Dies \/ StartUnit \/ GoesRight
    \/ \E f \in Faults : GoesWrong(f)
==============================================================================
