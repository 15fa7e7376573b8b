------------------------------ MODULE Maintain ------------------------------
(***************************************************************************)
(* What changes an installation under its running services: an update (a   *)
(* safety snapshot, the new binary, the migrations, the restarts, the      *)
(* health check, the rollback), an update from an archive on this machine, *)
(* and the restore of a backup, which swaps the configuration directory.   *)
(*                                                                         *)
(* An update runs inside the process it was started from: a menu, the web  *)
(* panel, or the Telegram bot, which lives in the monitor.  Processes are  *)
(* killed and machines reboot.  There is no lock between the operations.   *)
(***************************************************************************)
EXTENDS Integers, Sequences, FiniteSets, SequencesExt

CONSTANTS
    Hosts,          \* where updates are started: "menu", "panel", "bot"
    Retention,      \* snapshotRetention
    MaxUpdates, MaxRestores, MaxCrashes

ASSUME MaintAssumption ==
    /\ Hosts \subseteq {"menu", "panel", "bot"}
    /\ Retention \in Nat \ {0}
    /\ MaxUpdates \in Nat /\ MaxRestores \in Nat /\ MaxCrashes \in Nat

Units == {"panel", "monitor", "tunnel"}

VARIABLES
    bin,        \* the installed binary: "old", or the "new" release
    breaks,     \* the units the new release cannot run
    up, runs,   \* the units that are active, and the binary each one runs
    conf,       \* the configuration directory
    aside,      \* the directory a restore moves it to
    snaps,      \* the snapshots, oldest first
    pc, snap, local, \* an update: where it is, its snapshot, whose archive was here
    archive,    \* an archive the operator put on this machine
    rpc, staging, \* a restore: where it is, and its staging tree
    updates, restores, crashes,
    interrupted,\* history: an update was ended by something other than its own steps
    since,      \* history: snapshot directories made after the newest one that was
                \* filled with the old binary, or made at all if none was
    retried     \* history: a restore began over one that had not finished

installation == <<bin, breaks, up, runs>>
config == <<conf, aside>>
restoring == <<rpc, staging>>
updating == <<pc, snap, local, archive>>
counters == <<updates, restores, crashes>>
history == <<interrupted, since, retried>>
maintVars == <<installation, config, snaps, updating, restoring, counters, history>>

(* A directory: the tunnel's file, and the key that no backup carries.       *)
NoDir == [tunnel |-> "none", key |-> "nodir"]
Trees == {NoDir} \cup [tunnel : {"none", "ours", "migrated", "archived"}, key : {"none", "ours"}]
EmptyDir == [tunnel |-> "none", key |-> "none"]
Archive == [tunnel |-> "archived", key |-> "none"]

(* Everything in over is laid over what is in under.                         *)
overlay(over, under) ==
    [tunnel |-> IF over.tunnel = "none" THEN under.tunnel ELSE over.tunnel,
     key |-> IF over.key = "ours" \/ under.key = "ours" THEN "ours" ELSE "none"]

(* A snapshot's directory: what it was filled with.  meta.json, which makes  *)
(* it complete, comes last.                                                  *)
NoSnap == [id |-> 0, bin |-> "old", conf |-> NoDir]
Snaps == [id : 0..MaxUpdates, bin : {"old", "new"}, conf : Trees]
hasMeta(s) == s.conf # NoDir

(* The type invariant.                                                       *)
MaintTypeOK ==
    /\ bin \in {"old", "new"} /\ breaks \in SUBSET Units
    /\ up \in SUBSET Units /\ runs \in [Units -> {"old", "new"}]
    /\ conf \in Trees /\ aside \in Trees /\ staging \in Trees
    /\ snaps \in Seq(Snaps)
    /\ pc \in [Hosts -> {"idle", "verified", "snapping", "snapped", "installed", "migrated", "panel",
                         "monitor", "tunnels", "unhealthy", "binary", "config"}]
    /\ snap \in [Hosts -> Snaps] /\ local \subseteq Hosts /\ archive \in BOOLEAN
    /\ rpc \in {"idle", "staged", "aside", "inPlace"}
    /\ updates \in 0..MaxUpdates /\ restores \in 0..MaxRestores /\ crashes \in 0..MaxCrashes
    /\ interrupted \in BOOLEAN /\ since \in Nat /\ retried \in BOOLEAN

MaintInit ==
    /\ bin = "old" /\ breaks \in SUBSET Units /\ up = Units /\ runs = [u \in Units |-> "old"]
    /\ conf = [tunnel |-> "ours", key |-> "ours"] /\ aside = NoDir /\ snaps = <<>>
    /\ pc = [h \in Hosts |-> "idle"] /\ snap = [h \in Hosts |-> NoSnap]
    /\ local = {} /\ archive = TRUE
    /\ rpc = "idle" /\ staging = NoDir
    /\ updates = 0 /\ restores = 0 /\ crashes = 0
    /\ interrupted = FALSE /\ since = 0 /\ retried = FALSE

------------------------------------------------------------------------------
(* Units and snapshots                                                      *)

works(u, b) == (b = "new" => u \notin breaks) /\ (u = "tunnel" => conf.tunnel # "none")

(* systemctl restart of some units, on the binary b.                         *)
restart(us, b) ==
    /\ up' = (up \ us) \cup {u \in us : works(u, b)}
    /\ runs' = [u \in Units |-> IF u \in us THEN b ELSE runs[u]]

(* A mutant: the newest snapshots are the ones that go.                      *)
pruneNewest(ss) == SubSeq(ss, 1, IF Len(ss) < Retention THEN Len(ss) ELSE Retention)

(* pruneSnapshots: the newest are kept, whether they are complete or not.    *)
prune(ss) == IF Len(ss) <= Retention THEN ss ELSE SubSeq(ss, Len(ss) - Retention + 1, Len(ss))

------------------------------------------------------------------------------
(* ApplyUpdate and ApplyLocalUpdate, in the process h                       *)

At(h, p) == pc[h] = p
Goes(h, p) == pc' = [pc EXCEPT ![h] = p]

(* The version of the process the update runs in.                            *)
ownVersion(h) == CASE h = "menu" -> bin [] h = "panel" -> runs["panel"] [] h = "bot" -> runs["monitor"]

(* A newer release is published and downloaded, its checksum is there and    *)
(* right; or the archive is on this machine, whatever its version.           *)
Begin(h, l) ==
    /\ At(h, "idle") /\ updates < MaxUpdates
    /\ IF l THEN h = "menu" /\ archive ELSE ownVersion(h) = "old"
    /\ (h = "panel" => "panel" \in up) /\ (h = "bot" => "monitor" \in up)
    /\ Goes(h, "verified") /\ updates' = updates + 1
    /\ local' = IF l THEN local \cup {h} ELSE local \ {h}
    /\ snap' = [snap EXCEPT ![h] = [NoSnap EXCEPT !.id = updates']]
    /\ UNCHANGED <<installation, config, snaps, archive, restoring, restores, crashes, history>>

(* Where the directory d is among those listed.                              *)
entries(d) == {i \in 1..Len(snaps) : snaps[i].id = d}
place(d) == CHOOSE i \in entries(d) : TRUE

(* The list with s filled.  copyFile makes a directory again that another's  *)
(* prune has removed: under its old name, so it is the oldest.               *)
filled(s) == IF entries(s.id) = {} THEN <<s>> \o snaps ELSE [snaps EXCEPT ![place(s.id)] = s]
after(s) == IF entries(s.id) = {} THEN Len(snaps) ELSE Len(snaps) - place(s.id)

(* TakeSnapshot makes its directory, and fills it; meta.json comes last.     *)
SnapshotBegins(h) ==
    /\ At(h, "verified") /\ Goes(h, "snapping")
    /\ snaps' = Append(snaps, snap[h]) /\ since' = since + 1
    /\ UNCHANGED <<installation, config, snap, local, archive, restoring, counters, interrupted, retried>>
SnapshotTaken(h) ==
    LET s == [snap[h] EXCEPT !.bin = bin, !.conf = conf]
    IN  /\ At(h, "snapping")
        /\ IF conf = NoDir
           THEN /\ Goes(h, "idle")
                /\ snaps' = IF entries(s.id) = {} THEN snaps ELSE RemoveAt(snaps, place(s.id))
                /\ UNCHANGED <<snap, since>>
           ELSE /\ Goes(h, "snapped") /\ snap' = [snap EXCEPT ![h] = s] /\ snaps' = prune(filled(s))
                /\ since' = IF bin = "old" /\ after(s) < since THEN after(s) ELSE since
        /\ UNCHANGED <<installation, config, local, archive, restoring, counters, interrupted, retried>>

(* extractBinary: the rename is atomic, and nothing is replaced when the     *)
(* archive holds no binary.                                                  *)
Install(h) ==
    /\ At(h, "snapped")
    /\ \/ Goes(h, "installed") /\ bin' = "new"
       \/ Goes(h, "idle") /\ UNCHANGED bin
    /\ UNCHANGED <<breaks, up, runs, config, snaps, snap, local, archive, restoring, counters, history>>

(* MigrateAfterUpdate over the files that are there.                         *)
Migrate(h) ==
    /\ At(h, "installed") /\ Goes(h, "migrated")
    /\ conf' = IF conf.tunnel = "none" THEN conf ELSE [conf EXCEPT !.tunnel = "migrated"]
    /\ UNCHANGED <<installation, aside, snaps, snap, local, archive, restoring, counters, history>>

(* The restarts, in their order.  The one of the process the update runs in  *)
(* ends the update.                                                          *)
RestartPanel(h) ==
    /\ At(h, "migrated") /\ restart({"panel"}, bin)
    /\ Goes(h, IF h = "panel" THEN "idle" ELSE "panel")
    /\ UNCHANGED <<bin, breaks, config, snaps, snap, local, archive, restoring, counters, history>>
RestartMonitor(h) ==
    /\ At(h, "panel") /\ restart({"monitor"}, bin)
    /\ Goes(h, IF h = "bot" THEN "idle" ELSE "monitor")
    /\ UNCHANGED <<bin, breaks, config, snaps, snap, local, archive, restoring, counters, history>>
RestartTunnels(h) ==
    /\ At(h, "monitor") /\ restart({"tunnel"}, bin) /\ Goes(h, "tunnels")
    /\ UNCHANGED <<bin, breaks, config, snaps, snap, local, archive, restoring, counters, history>>

(* A mutant: a failed health check is only reported.                         *)
HealthCheckReporting(h) ==
    /\ At(h, "tunnels") /\ Goes(h, "idle")
    /\ UNCHANGED <<installation, config, snaps, snap, local, archive, restoring, counters, history>>

(* unhealthyAfterUpdate, and the archive goes when everything is well.       *)
HealthCheck(h) ==
    /\ At(h, "tunnels")
    /\ IF Units \subseteq up
       THEN Goes(h, "idle") /\ archive' = (archive /\ h \notin local)
       ELSE Goes(h, "unhealthy") /\ UNCHANGED archive
    /\ UNCHANGED <<installation, config, snaps, snap, local, restoring, counters, history>>

(* RollbackUpdate: the operator picks a snapshot from the menu.              *)
Rollback(h) ==
    /\ At(h, "idle") /\ h = "menu" /\ updates < MaxUpdates
    /\ \E i \in 1..Len(snaps) : snap' = [snap EXCEPT ![h] = snaps[i]]
    /\ Goes(h, "unhealthy") /\ updates' = updates + 1
    /\ UNCHANGED <<installation, config, snaps, local, archive, restoring, restores, crashes, history>>

(* RestoreSnapshot: the binary, the files over what is there, the restarts;  *)
(* nothing is done with a snapshot that has no meta.json.                    *)
RollbackBinary(h) ==
    /\ At(h, "unhealthy")
    /\ IF \E i \in 1..Len(snaps) : snaps[i] = snap[h] /\ hasMeta(snaps[i])
       THEN Goes(h, "binary") /\ bin' = snap[h].bin
       ELSE Goes(h, "idle") /\ UNCHANGED bin
    /\ UNCHANGED <<breaks, up, runs, config, snaps, snap, local, archive, restoring, counters, history>>
RollbackConfig(h) ==
    /\ At(h, "binary") /\ Goes(h, "config")
    /\ conf' = overlay(snap[h].conf, IF conf = NoDir THEN EmptyDir ELSE conf)
    /\ UNCHANGED <<installation, aside, snaps, snap, local, archive, restoring, counters, history>>
RollbackRestarts(h) ==
    /\ At(h, "config") /\ restart(Units, bin) /\ Goes(h, "idle")
    /\ UNCHANGED <<bin, breaks, config, snaps, snap, local, archive, restoring, counters, history>>

Update(h) ==
    \/ \E l \in BOOLEAN : Begin(h, l)
    \/ SnapshotBegins(h) \/ SnapshotTaken(h) \/ Install(h) \/ Migrate(h)
    \/ RestartPanel(h) \/ RestartMonitor(h) \/ RestartTunnels(h) \/ HealthCheck(h)
    \/ Rollback(h) \/ RollbackBinary(h) \/ RollbackConfig(h) \/ RollbackRestarts(h)

------------------------------------------------------------------------------
(* Restore                                                                  *)

(* A mutant: the staging tree starts empty.                                  *)
StageUnseeded ==
    /\ rpc = "idle" /\ restores < MaxRestores
    /\ restores' = restores + 1
    /\ conf' = IF conf = NoDir THEN EmptyDir ELSE conf
    /\ retried' = (retried \/ aside # NoDir)
    /\ staging' = Archive /\ rpc' = "staged"
    /\ UNCHANGED <<installation, aside, snaps, updating, updates, crashes, interrupted, since>>

(* Restore makes sure there is a directory, and stageRestore builds the tree *)
(* to come: the present one with the archive over it.  An archive that turns *)
(* out to be bad ends it here.                                               *)
Stage ==
    /\ rpc = "idle" /\ restores < MaxRestores
    /\ restores' = restores + 1
    /\ conf' = IF conf = NoDir THEN EmptyDir ELSE conf
    /\ retried' = (retried \/ aside # NoDir)
    /\ \/ rpc' = "staged" /\ staging' = overlay(Archive, conf')
       \/ UNCHANGED <<rpc, staging>>
    /\ UNCHANGED <<installation, aside, snaps, updating, updates, crashes, interrupted, since>>

(* commitRestore: what an earlier restore moved aside goes, the directory is *)
(* moved aside, the staged one takes its place, and the other goes.          *)
MoveAside ==
    /\ rpc = "staged"
    /\ aside' = conf /\ conf' = NoDir /\ rpc' = "aside"
    /\ UNCHANGED <<installation, snaps, updating, staging, counters, history>>

(* The second rename fails when somebody has made the directory again, and   *)
(* then so does the one that would put the first back.                       *)
PutInPlace ==
    /\ rpc = "aside"
    /\ IF conf = NoDir
       THEN conf' = staging /\ rpc' = "inPlace"
       ELSE rpc' = "idle" /\ UNCHANGED conf
    /\ staging' = NoDir
    /\ UNCHANGED <<installation, aside, snaps, updating, counters, history>>

(* The previous directory goes; units are registered and tunnels restarted.  *)
Finish ==
    /\ rpc = "inPlace"
    /\ aside' = NoDir /\ rpc' = "idle" /\ restart({"tunnel"}, bin)
    /\ UNCHANGED <<bin, breaks, conf, snaps, updating, staging, counters, history>>

(* Collector.Write of a running tunnel makes the directory its snapshot      *)
(* belongs in.                                                               *)
CollectorWrites ==
    /\ "tunnel" \in up /\ conf = NoDir
    /\ conf' = EmptyDir
    /\ UNCHANGED <<installation, aside, snaps, updating, restoring, counters, history>>

------------------------------------------------------------------------------
(* The process of an operation is killed.                                    *)
KillUpdate(h) ==
    /\ pc[h] # "idle" /\ crashes < MaxCrashes
    /\ Goes(h, "idle") /\ crashes' = crashes + 1 /\ interrupted' = TRUE
    /\ UNCHANGED <<installation, config, snaps, snap, local, archive, restoring, updates, restores,
                   since, retried>>

(* The machine restarts: every operation is over, every unit starts.         *)
Reboot ==
    /\ crashes < MaxCrashes
    /\ crashes' = crashes + 1
    /\ interrupted' = (interrupted \/ \E h \in Hosts : pc[h] # "idle")
    /\ pc' = [h \in Hosts |-> "idle"] /\ rpc' = "idle" /\ staging' = NoDir
    /\ restart(Units, bin)
    /\ UNCHANGED <<bin, breaks, config, snaps, snap, local, archive, updates, restores,
                   since, retried>>

MaintNext ==
    \/ \E h \in Hosts : Update(h) \/ KillUpdate(h)
    \/ Stage \/ MoveAside \/ PutInPlace \/ Finish \/ CollectorWrites \/ Reboot

MaintSpec == MaintInit /\ [][MaintNext]_maintVars

------------------------------------------------------------------------------
(* Properties                                                               *)

AtRest == \A h \in Hosts : pc[h] = "idle"

(* An update that runs to its end leaves every unit up on a configuration    *)
(* that has its tunnels: it is the new release that passed the check, or the *)
(* snapshot rolled back.  ("a broken release can never leave the server      *)
(* without working tunnels")                                                 *)
NeverLeftBroken == AtRest /\ ~interrupted /\ restores = 0 => up = Units

(* While the new release is installed there is a complete snapshot with the  *)
(* binary it replaced, unless as many snapshots as are kept were begun after *)
(* that one, whoever began them and however they ended.                      *)
WayBack ==
    bin = "new" /\ since < Retention
        => \E i \in 1..Len(snaps) : hasMeta(snaps[i]) /\ snaps[i].bin = "old"

(* A restore that was cut short, and not started again over the wreckage,    *)
(* has not lost the sealing key, which no backup could bring back.           *)
KeySurvives == ~retried => "ours" \in {conf.key, aside.key}

(* "A broken release can never leave the server without working tunnels":    *)
(* once an update is over, whatever process it ran in, the tunnels are up,   *)
(* and are after the machine has started again.                              *)
NeverWithoutTunnels == AtRest /\ ~interrupted /\ restores = 0 => "tunnel" \in up
==============================================================================
