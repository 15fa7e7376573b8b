--------------------------- MODULE MaintainProofs ---------------------------
(***************************************************************************)
(* Proofs about updates and restores, for any retention, any processes     *)
(* updates are started in and any number of updates, restores and crashes: *)
(* the sealing key survives a restore that is cut short (KeyInv), there is *)
(* a way back from the new release (WayInv), and an update from the menu   *)
(* leaves every unit up (WholeInv).                                        *)
(***************************************************************************)
EXTENDS Maintain, FiniteSetTheorems, SequenceTheorems, TLAPS

------------------------------------------------------------------------------
(* The list of snapshots                                                    *)

(* What is kept is the end of the list.                                      *)
LEMMA PruneKeeps ==
    ASSUME NEW ss \in Seq(Snaps)
    PROVE  /\ prune(ss) \in Seq(Snaps) /\ Len(prune(ss)) \in Nat /\ Len(prune(ss)) <= Retention
           /\ \A m \in 1..Len(prune(ss)) : \E j \in 1..Len(ss) :
                  prune(ss)[m] = ss[j] /\ Len(prune(ss)) - m = Len(ss) - j
           /\ \A j \in 1..Len(ss) : Len(ss) - j < Retention =>
                  \E m \in 1..Len(prune(ss)) : prune(ss)[m] = ss[j] /\ Len(prune(ss)) - m = Len(ss) - j
<1>1. Len(ss) \in Nat /\ Retention \in Nat \ {0}
  BY MaintAssumption
<1>2. CASE Len(ss) <= Retention
  BY <1>1, <1>2 DEF prune
<1>3. CASE ~(Len(ss) <= Retention)
  <2> DEFINE n == Len(ss) - Retention
             ps == SubSeq(ss, n + 1, Len(ss))
  <2>1. prune(ss) = ps
    BY <1>1, <1>3 DEF prune
  <2>2. n \in Nat \ {0} /\ n + Retention = Len(ss)
    BY <1>1, <1>3
  <2>3. /\ ps \in Seq(Snaps) /\ Len(ps) = Retention
        /\ \A m \in 1..Retention : ps[m] = ss[m + n]
    <3> HIDE DEF n
    <3>1. n + 1 \in Int /\ Len(ss) \in Int /\ n + 1 <= Len(ss) /\ Len(ss) - (n + 1) + 1 = Retention
      BY <1>1, <2>2
    <3>2. \A i \in (n + 1)..Len(ss) : ss[i] \in Snaps
      BY <1>1, <2>2
    <3>3. \A m \in 1..Retention : (n + 1) + m - 1 = m + n
      BY <1>1, <2>2
    <3>4. /\ ps \in Seq(Snaps) /\ Len(ps) = Len(ss) - (n + 1) + 1
          /\ \A m \in 1..(Len(ss) - (n + 1) + 1) : ps[m] = ss[(n + 1) + m - 1]
      BY <3>1, <3>2, SubSeqProperties
    <3> QED
      BY <3>1, <3>3, <3>4
  <2> HIDE DEF n, ps
  <2>4. ASSUME NEW m \in 1..Retention
        PROVE  \E j \in 1..Len(ss) : ps[m] = ss[j] /\ Retention - m = Len(ss) - j
    <3>1. m + n \in 1..Len(ss) /\ Retention - m = Len(ss) - (m + n)
      BY <1>1, <2>2, <2>4
    <3> QED
      BY <2>3, <3>1
  <2>5. ASSUME NEW j \in 1..Len(ss), Len(ss) - j < Retention
        PROVE  \E m \in 1..Retention : ps[m] = ss[j] /\ Retention - m = Len(ss) - j
    <3>1. j - n \in 1..Retention /\ (j - n) + n = j /\ Retention - (j - n) = Len(ss) - j
      BY <1>1, <2>2, <2>5
    <3> QED
      BY <2>3, <3>1
  <2> QED
    BY <1>1, <2>1, <2>3, <2>4, <2>5
<1> QED
  BY <1>2, <1>3

(* A directory that is removed leaves the others in their order.             *)
LEMMA RemoveKeeps ==
    ASSUME NEW ss \in Seq(Snaps), NEW p \in 1..Len(ss)
    PROVE  /\ RemoveAt(ss, p) \in Seq(Snaps) /\ Len(RemoveAt(ss, p)) = Len(ss) - 1
           /\ \A m \in 1..(Len(ss) - 1) : \E j \in 1..Len(ss) : RemoveAt(ss, p)[m] = ss[j]
           /\ \A j \in 1..Len(ss) : j # p =>
                  \E m \in 1..(Len(ss) - 1) : RemoveAt(ss, p)[m] = ss[j] /\ (Len(ss) - 1) - m <= Len(ss) - j
<1> DEFINE a == SubSeq(ss, 1, p - 1)
           b == SubSeq(ss, p + 1, Len(ss))
           rs == a \o b
<1>1. Len(ss) \in Nat /\ p \in Nat \ {0} /\ p <= Len(ss)
  OBVIOUS
<1>2. /\ a \in Seq(Snaps) /\ Len(a) = p - 1 /\ \A i \in 1..(p - 1) : a[i] = ss[i]
      /\ b \in Seq(Snaps) /\ Len(b) = Len(ss) - p /\ \A i \in 1..(Len(ss) - p) : b[i] = ss[i + p]
  BY <1>1, SubSeqProperties
<1> HIDE DEF a, b
<1>3. /\ rs \in Seq(Snaps) /\ Len(rs) = Len(ss) - 1
      /\ \A i \in 1..(Len(ss) - 1) : rs[i] = IF i <= p - 1 THEN a[i] ELSE b[i - (p - 1)]
  BY <1>1, <1>2, ConcatProperties
<1>4. RemoveAt(ss, p) = rs
  BY DEF RemoveAt, a, b
<1> HIDE DEF rs
<1>5. ASSUME NEW i \in 1..(Len(ss) - 1)
      PROVE  rs[i] = ss[IF i < p THEN i ELSE i + 1]
  <2>1. CASE i < p
    BY <1>1, <1>2, <1>3, <1>5, <2>1
  <2>2. CASE ~(i < p)
    <3>1. i - (p - 1) \in 1..(Len(ss) - p) /\ (i - (p - 1)) + p = i + 1
      BY <1>1, <1>5, <2>2
    <3>2. rs[i] = b[i - (p - 1)]
      BY <1>1, <1>3, <1>5, <2>2
    <3> QED
      BY <1>2, <2>2, <3>1, <3>2
  <2> QED
    BY <2>1, <2>2
<1>6. ASSUME NEW m \in 1..(Len(ss) - 1)
      PROVE  \E j \in 1..Len(ss) : rs[m] = ss[j]
  BY <1>1, <1>5, <1>6
<1>7. ASSUME NEW j \in 1..Len(ss), j # p
      PROVE  \E m \in 1..(Len(ss) - 1) : rs[m] = ss[j] /\ (Len(ss) - 1) - m <= Len(ss) - j
  <2>1. CASE j < p
    <3>1. j \in 1..(Len(ss) - 1) /\ (Len(ss) - 1) - j <= Len(ss) - j
      BY <1>1, <1>7, <2>1
    <3> QED
      BY <1>5, <2>1, <3>1
  <2>2. CASE ~(j < p)
    <3>1. j - 1 \in 1..(Len(ss) - 1) /\ ~(j - 1 < p) /\ (j - 1) + 1 = j
          /\ (Len(ss) - 1) - (j - 1) <= Len(ss) - j
      BY <1>1, <1>7, <2>2
    <3> QED
      BY <1>5, <3>1
  <2> QED
    BY <2>1, <2>2
<1> QED
  BY <1>3, <1>4, <1>6, <1>7

(* The snapshot that was filled is in its place, the others are in theirs.   *)
LEMMA FilledIs ==
    ASSUME snaps \in Seq(Snaps), NEW s \in Snaps
    PROVE  /\ filled(s) \in Seq(Snaps) /\ Len(filled(s)) \in Nat
           /\ after(s) \in Nat /\ after(s) < Len(filled(s)) /\ after(s) <= Len(snaps)
           /\ filled(s)[Len(filled(s)) - after(s)] = s
           /\ \A j \in 1..Len(filled(s)) :
                  filled(s)[j] = s \/ \E i \in 1..Len(snaps) : filled(s)[j] = snaps[i]
           /\ \A i \in 1..Len(snaps) : snaps[i].id # s.id =>
                  \E j \in 1..Len(filled(s)) :
                      filled(s)[j] = snaps[i] /\ Len(filled(s)) - j = Len(snaps) - i
           /\ (snaps # <<>> /\ snaps[Len(snaps)].id = s.id /\ entries(s.id) = {Len(snaps)}) => after(s) = 0
<1> DEFINE n == Len(snaps)
           f == filled(s)
<1>1. n \in Nat /\ \A i \in 1..n : snaps[i] \in Snaps
  OBVIOUS
<1>2. CASE entries(s.id) = {}
  <2>1. f = <<s>> \o snaps /\ after(s) = n
    BY <1>2 DEF filled, after
  <2>2. /\ f \in Seq(Snaps) /\ Len(f) = n + 1 /\ f[1] = s
        /\ \A i \in 1..n : f[i + 1] = snaps[i]
    BY <1>1, <2>1
  <2> HIDE DEF n, f
  <2>3. ASSUME NEW j \in 1..(n + 1)
        PROVE  f[j] = s \/ \E i \in 1..n : f[j] = snaps[i]
    <3>1. CASE j = 1
      BY <2>2, <3>1
    <3>2. CASE j # 1
      <4>1. j - 1 \in 1..n /\ (j - 1) + 1 = j
        BY <1>1, <2>3, <3>2
      <4> QED
        BY <2>2, <4>1
    <3> QED
      BY <3>1, <3>2
  <2>4. ASSUME NEW i \in 1..n
        PROVE  \E j \in 1..(n + 1) : f[j] = snaps[i] /\ (n + 1) - j = n - i
    <3>1. i + 1 \in 1..(n + 1) /\ (n + 1) - (i + 1) = n - i
      BY <1>1, <2>4
    <3> QED
      BY <2>2, <3>1
  <2>5. n \in Nat /\ n < n + 1 /\ n <= n /\ (n + 1) - n = 1 /\ n + 1 \in Nat
    BY <1>1
  <2>6. entries(s.id) # {n}
    BY <1>2
  <2> QED
    BY <1>1, <2>1, <2>2, <2>3, <2>4, <2>5, <2>6 DEF n, f
<1>3. CASE entries(s.id) # {}
  <2> DEFINE p == place(s.id)
  <2>1. p \in entries(s.id)
    BY <1>3 DEF place
  <2>2. p \in 1..n /\ snaps[p].id = s.id
    BY <2>1 DEF entries
  <2>3. f = [snaps EXCEPT ![p] = s] /\ after(s) = n - p
    BY <1>3 DEF filled, after
  <2> HIDE DEF p
  <2>4. /\ f \in Seq(Snaps) /\ Len(f) = n
        /\ \A i \in 1..n : f[i] = IF i = p THEN s ELSE snaps[i]
    BY <1>1, <2>2, <2>3, ExceptSeq
  <2> HIDE DEF n, f
  <2>5. n - (n - p) = p /\ n - p \in Nat /\ n - p < n /\ n - p <= n
    BY <1>1, <2>2
  <2>6. ASSUME NEW i \in 1..n, snaps[i].id # s.id
        PROVE  \E j \in 1..n : f[j] = snaps[i] /\ n - j = n - i
    BY <2>2, <2>4, <2>6
  <2>7. entries(s.id) = {n} => n - p = 0
    BY <1>1, <2>1
  <2>8. f[n - (n - p)] = s /\ \A j \in 1..n : f[j] = s \/ \E i \in 1..n : f[j] = snaps[i]
    BY <2>2, <2>4, <2>5
  <2>9. f \in Seq(Snaps) /\ Len(f) = n /\ after(s) = n - p
    BY <2>3, <2>4
  <2> QED
    BY <1>1, <2>5, <2>6, <2>7, <2>8, <2>9 DEF n, f
<1> QED
  BY <1>2, <1>3

------------------------------------------------------------------------------
(* Types                                                                    *)

(* A tree laid over another is a tree, and never no directory.               *)
LEMMA OverlayTree ==
    ASSUME NEW a \in Trees, NEW b \in Trees
    PROVE  /\ overlay(a, b) \in Trees /\ overlay(a, b) # NoDir
           /\ overlay(a, b).key = IF a.key = "ours" \/ b.key = "ours" THEN "ours" ELSE "none"
           /\ overlay(a, b).tunnel = IF a.tunnel = "none" THEN b.tunnel ELSE a.tunnel
<1>1. /\ a.tunnel \in {"none", "ours", "migrated", "archived"}
      /\ b.tunnel \in {"none", "ours", "migrated", "archived"}
  BY DEF Trees, NoDir
<1> QED
  BY <1>1 DEF overlay, Trees, NoDir

LEMMA TreeFields ==
    /\ NoDir \in Trees /\ EmptyDir \in Trees /\ Archive \in Trees /\ EmptyDir # NoDir
    /\ NoDir.key = "nodir" /\ NoDir.tunnel = "none" /\ EmptyDir.key = "none" /\ EmptyDir.tunnel = "none"
    /\ Archive.key = "none" /\ Archive.tunnel = "archived"
    /\ \A t \in Trees : t.key \in {"none", "ours", "nodir"} /\ (t.key = "nodir" <=> t = NoDir)
  BY DEF Trees, NoDir, EmptyDir, Archive

LEMMA MigratedTree ==
    ASSUME NEW t \in Trees, t.tunnel # "none"
    PROVE  /\ [t EXCEPT !.tunnel = "migrated"] \in Trees
           /\ [t EXCEPT !.tunnel = "migrated"].key = t.key
           /\ [t EXCEPT !.tunnel = "migrated"].tunnel = "migrated"
           /\ [t EXCEPT !.tunnel = "migrated"] # NoDir
  BY DEF Trees, NoDir

(* What SnapshotTaken files.                                                 *)
LEMMA FilledSnap ==
    ASSUME NEW s \in Snaps, NEW b \in {"old", "new"}, NEW c \in Trees
    PROVE  /\ [s EXCEPT !.bin = b, !.conf = c] \in Snaps
           /\ [s EXCEPT !.bin = b, !.conf = c].id = s.id
           /\ [s EXCEPT !.bin = b, !.conf = c].bin = b
           /\ [s EXCEPT !.bin = b, !.conf = c].conf = c
  BY DEF Snaps

LEMMA NewSnap ==
    ASSUME NEW d \in 0..MaxUpdates
    PROVE  /\ [NoSnap EXCEPT !.id = d] \in Snaps /\ [NoSnap EXCEPT !.id = d].id = d
           /\ ~hasMeta([NoSnap EXCEPT !.id = d])
  BY TreeFields DEF Snaps, NoSnap, hasMeta

(* Where an update can be.                                                   *)
Stations == {"idle", "verified", "snapping", "snapped", "installed", "migrated", "panel",
             "monitor", "tunnels", "unhealthy", "binary", "config"}

(* The types without the Boolean ones, which are a matter of logic alone.    *)
InstallTypes ==
    /\ bin \in {"old", "new"} /\ breaks \in SUBSET Units
    /\ up \in SUBSET Units /\ runs \in [Units -> {"old", "new"}]
    /\ conf \in Trees /\ aside \in Trees /\ staging \in Trees
    /\ snaps \in Seq(Snaps) /\ pc \in [Hosts -> Stations]
    /\ snap \in [Hosts -> Snaps] /\ local \subseteq Hosts
    /\ rpc \in {"idle", "staged", "aside", "inPlace"}
    /\ updates \in 0..MaxUpdates /\ restores \in 0..MaxRestores /\ crashes \in 0..MaxCrashes
    /\ since \in Nat
Flags == archive \in BOOLEAN /\ interrupted \in BOOLEAN /\ retried \in BOOLEAN

(* systemctl restart touches the units' own state only.                      *)
LEMMA RestartTypes ==
    ASSUME InstallTypes, NEW us \in SUBSET Units, NEW b \in {"old", "new"}, restart(us, b)
    PROVE  up' \in SUBSET Units /\ runs' \in [Units -> {"old", "new"}]
  BY DEF InstallTypes, restart

LEMMA InitInstallTypes == MaintInit => InstallTypes /\ Flags
<1> SUFFICES ASSUME MaintInit
             PROVE  InstallTypes /\ Flags
  OBVIOUS
<1>1. NoSnap \in Snaps
  BY TreeFields, MaintAssumption DEF NoSnap, Snaps
<1>2. [tunnel |-> "ours", key |-> "ours"] \in Trees
  BY DEF Trees
<1>3. 0 \in 0..MaxUpdates /\ 0 \in 0..MaxRestores /\ 0 \in 0..MaxCrashes
  BY MaintAssumption
<1>4. Flags
  BY DEF MaintInit, Flags
<1>5. bin \in {"old", "new"} /\ breaks \in SUBSET Units /\ up \in SUBSET Units
      /\ runs \in [Units -> {"old", "new"}] /\ snaps \in Seq(Snaps)
  BY DEF MaintInit
<1>6. pc \in [Hosts -> Stations] /\ snap \in [Hosts -> Snaps]
  BY <1>1 DEF MaintInit, Stations
<1> QED
  BY <1>2, <1>3, <1>4, <1>5, <1>6, TreeFields DEF MaintInit, InstallTypes

LEMMA FlagsStep == Flags /\ [MaintNext]_maintVars => Flags'
<1> SUFFICES ASSUME Flags, [MaintNext]_maintVars
             PROVE  Flags'
  OBVIOUS
<1> USE DEF Flags, updating, history
<1>1. ASSUME NEW h \in Hosts, Update(h)
      PROVE  Flags'
  BY <1>1, Zenon DEF Update, Begin, SnapshotBegins, SnapshotTaken, Install, Migrate, RestartPanel, RestartMonitor,
                     RestartTunnels, HealthCheck, Rollback, RollbackBinary, RollbackConfig, RollbackRestarts
<1>2. ASSUME NEW h \in Hosts, KillUpdate(h)
      PROVE  Flags'
  BY <1>2, Zenon DEF KillUpdate
<1>3. CASE Stage \/ MoveAside \/ PutInPlace \/ Finish \/ CollectorWrites \/ Reboot
  BY <1>3, Zenon DEF Stage, MoveAside, PutInPlace, Finish, CollectorWrites, Reboot
<1>4. CASE UNCHANGED maintVars
  BY <1>4, Zenon DEF maintVars
<1> QED
  BY <1>1, <1>2, <1>3, <1>4 DEF MaintNext

(* A step that moves one update, and leaves the snapshots alone.             *)
LEMMA GoesTypes ==
    ASSUME InstallTypes, NEW h \in Hosts, NEW p \in Stations, Goes(h, p)
    PROVE  pc' \in [Hosts -> Stations] /\ pc'[h] = p /\ \A k \in Hosts : k # h => pc'[k] = pc[k]
  BY DEF InstallTypes, Goes

LEMMA SnapshotTypes ==
    ASSUME InstallTypes, NEW h \in Hosts, SnapshotBegins(h) \/ SnapshotTaken(h)
    PROVE  InstallTypes'
<1>1. snap[h] \in Snaps /\ snaps \in Seq(Snaps) /\ since \in Nat /\ conf \in Trees /\ bin \in {"old", "new"}
  BY DEF InstallTypes
<1>2. "snapping" \in Stations /\ "idle" \in Stations /\ "snapped" \in Stations
  BY DEF Stations
<1> USE DEF installation, config, restoring, counters, history
<1>3. CASE SnapshotBegins(h)
  <2>1. snaps' \in Seq(Snaps) /\ since' \in Nat
    BY <1>1, <1>3 DEF SnapshotBegins
  <2>2. pc' \in [Hosts -> Stations]
    BY <1>2, <1>3, GoesTypes DEF SnapshotBegins
  <2> QED
    BY <1>3, <2>1, <2>2 DEF SnapshotBegins, InstallTypes
<1>4. CASE SnapshotTaken(h)
  <2> DEFINE s == [snap[h] EXCEPT !.bin = bin, !.conf = conf]
  <2>1. s \in Snaps
    BY <1>1, FilledSnap
  <2>2. CASE conf = NoDir
    <3>1. pc' \in [Hosts -> Stations] /\ UNCHANGED <<snap, since>>
      BY <1>2, <1>4, <2>2, GoesTypes DEF SnapshotTaken
    <3>2. snaps' \in Seq(Snaps)
      <4>1. snaps' = IF entries(s.id) = {} THEN snaps ELSE RemoveAt(snaps, place(s.id))
        BY <1>4, <2>2 DEF SnapshotTaken
      <4>2. entries(s.id) # {} => place(s.id) \in 1..Len(snaps)
        BY DEF place, entries
      <4> QED
        BY <1>1, <4>1, <4>2, RemoveKeeps
    <3> QED
      BY <1>4, <3>1, <3>2 DEF SnapshotTaken, InstallTypes
  <2>3. CASE conf # NoDir
    <3>1. pc' \in [Hosts -> Stations]
      BY <1>2, <1>4, <2>3, GoesTypes DEF SnapshotTaken
    <3>2. /\ snap' = [snap EXCEPT ![h] = s] /\ snaps' = prune(filled(s))
          /\ since' = IF bin = "old" /\ after(s) < since THEN after(s) ELSE since
      BY <1>4, <2>3 DEF SnapshotTaken
    <3> HIDE DEF s
    <3>3. snap' \in [Hosts -> Snaps]
      BY <2>1, <3>2 DEF InstallTypes
    <3>4. filled(s) \in Seq(Snaps) /\ after(s) \in Nat
      BY <1>1, <2>1, FilledIs
    <3>5. snaps' \in Seq(Snaps) /\ since' \in Nat
      BY <1>1, <3>2, <3>4, PruneKeeps
    <3> QED
      BY <1>4, <3>1, <3>3, <3>5 DEF SnapshotTaken, InstallTypes
  <2> QED
    BY <2>2, <2>3
<1> QED
  BY <1>3, <1>4

LEMMA UpdateTypes ==
    ASSUME InstallTypes, NEW h \in Hosts, Update(h)
    PROVE  InstallTypes'
<1> USE DEF installation, config, restoring, counters, history
<1>0. "verified" \in Stations /\ "installed" \in Stations /\ "idle" \in Stations /\ "migrated" \in Stations
      /\ "panel" \in Stations /\ "monitor" \in Stations /\ "tunnels" \in Stations
      /\ "unhealthy" \in Stations /\ "binary" \in Stations /\ "config" \in Stations
  BY DEF Stations
<1>1. ASSUME NEW l \in BOOLEAN, Begin(h, l)
      PROVE  InstallTypes'
  <2>1. updates' \in 0..MaxUpdates /\ local' \subseteq Hosts
    BY <1>1, MaintAssumption DEF Begin, InstallTypes
  <2>2. [NoSnap EXCEPT !.id = updates'] \in Snaps
    BY <2>1, NewSnap
  <2>3. snap' \in [Hosts -> Snaps]
    BY <1>1, <2>2 DEF Begin, InstallTypes
  <2>4. pc' \in [Hosts -> Stations]
    BY <1>0, <1>1, GoesTypes DEF Begin
  <2> QED
    BY <1>1, <2>1, <2>3, <2>4 DEF Begin, InstallTypes
<1>2. CASE Install(h)
  <2>1. pc' \in [Hosts -> Stations] /\ bin' \in {"old", "new"}
    BY <1>0, <1>2, GoesTypes DEF Install, InstallTypes
  <2> QED
    BY <1>2, <2>1 DEF Install, InstallTypes
<1>3. CASE Migrate(h)
  <2>1. pc' \in [Hosts -> Stations]
    BY <1>0, <1>3, GoesTypes DEF Migrate
  <2>2. conf' \in Trees
    BY <1>3, MigratedTree DEF Migrate, InstallTypes
  <2> QED
    BY <1>3, <2>1, <2>2 DEF Migrate, InstallTypes
<1>4. CASE RestartPanel(h) \/ RestartMonitor(h) \/ RestartTunnels(h) \/ RollbackRestarts(h)
  <2>1. PICK p \in Stations : Goes(h, p)
    BY <1>0, <1>4 DEF RestartPanel, RestartMonitor, RestartTunnels, RollbackRestarts
  <2>2. PICK us \in SUBSET Units : restart(us, bin)
    BY <1>4 DEF RestartPanel, RestartMonitor, RestartTunnels, RollbackRestarts, Units
  <2>3. bin \in {"old", "new"}
    BY DEF InstallTypes
  <2>4. up' \in SUBSET Units /\ runs' \in [Units -> {"old", "new"}] /\ pc' \in [Hosts -> Stations]
    BY <2>1, <2>2, <2>3, RestartTypes, GoesTypes
  <2> QED
    BY <1>4, <2>4 DEF RestartPanel, RestartMonitor, RestartTunnels, RollbackRestarts, InstallTypes
<1>5. CASE HealthCheck(h)
  <2>1. pc' \in [Hosts -> Stations]
    BY <1>0, <1>5, GoesTypes DEF HealthCheck
  <2> QED
    BY <1>5, <2>1 DEF HealthCheck, InstallTypes
<1>6. CASE Rollback(h)
  <2>1. pc' \in [Hosts -> Stations] /\ updates' \in 0..MaxUpdates
    BY <1>0, <1>6, MaintAssumption, GoesTypes DEF Rollback, InstallTypes
  <2>2. PICK i \in 1..Len(snaps) : snap' = [snap EXCEPT ![h] = snaps[i]]
    BY <1>6 DEF Rollback
  <2>3. snaps[i] \in Snaps
    BY DEF InstallTypes
  <2>4. snap' \in [Hosts -> Snaps]
    BY <2>2, <2>3 DEF InstallTypes
  <2> QED
    BY <1>6, <2>1, <2>4 DEF Rollback, InstallTypes
<1>7. CASE RollbackBinary(h)
  <2>1. pc' \in [Hosts -> Stations]
    BY <1>0, <1>7, GoesTypes DEF RollbackBinary
  <2>2. snap[h].bin \in {"old", "new"}
    BY DEF InstallTypes, Snaps
  <2> QED
    BY <1>7, <2>1, <2>2 DEF RollbackBinary, InstallTypes
<1>8. CASE RollbackConfig(h)
  <2>1. pc' \in [Hosts -> Stations]
    BY <1>0, <1>8, GoesTypes DEF RollbackConfig
  <2>2. snap[h].conf \in Trees /\ (IF conf = NoDir THEN EmptyDir ELSE conf) \in Trees
    BY TreeFields DEF InstallTypes, Snaps
  <2>3. conf' \in Trees
    BY <1>8, <2>2, OverlayTree DEF RollbackConfig
  <2> QED
    BY <1>8, <2>1, <2>3 DEF RollbackConfig, InstallTypes
<1> QED
  BY <1>1, <1>2, <1>3, <1>4, <1>5, <1>6, <1>7, <1>8, SnapshotTypes DEF Update

LEMMA TypesStep == InstallTypes /\ [MaintNext]_maintVars => InstallTypes'
<1> SUFFICES ASSUME InstallTypes, [MaintNext]_maintVars
             PROVE  InstallTypes'
  OBVIOUS
<1> USE DEF installation, config, restoring, counters, updating, history
<1>1. CASE Stage
  <2>1. restores' \in 0..MaxRestores
    BY <1>1, MaintAssumption DEF Stage, InstallTypes
  <2>2. conf' \in Trees
    BY <1>1, TreeFields DEF Stage, InstallTypes
  <2>3. overlay(Archive, conf') \in Trees
    BY <2>2, TreeFields, OverlayTree
  <2> QED
    BY <1>1, <2>1, <2>2, <2>3 DEF Stage, InstallTypes
<1>2. CASE MoveAside \/ PutInPlace \/ CollectorWrites
  BY <1>2, TreeFields DEF MoveAside, PutInPlace, CollectorWrites, InstallTypes
<1>3. CASE Finish
  <2>1. up' \in SUBSET Units /\ runs' \in [Units -> {"old", "new"}]
    BY <1>3, RestartTypes DEF Finish, InstallTypes, Units
  <2> QED
    BY <1>3, <2>1, TreeFields DEF Finish, InstallTypes
<1>4. CASE Reboot
  <2>1. up' \in SUBSET Units /\ runs' \in [Units -> {"old", "new"}]
    BY <1>4, RestartTypes DEF Reboot, InstallTypes
  <2>2. crashes' \in 0..MaxCrashes /\ pc' \in [Hosts -> Stations]
    BY <1>4, MaintAssumption DEF Reboot, InstallTypes, Stations
  <2> QED
    BY <1>4, <2>1, <2>2, TreeFields DEF Reboot, InstallTypes
<1>5. ASSUME NEW h \in Hosts, KillUpdate(h)
      PROVE  InstallTypes'
  <2>1. crashes' \in 0..MaxCrashes /\ pc' \in [Hosts -> Stations]
    BY <1>5, MaintAssumption DEF KillUpdate, InstallTypes, Stations, Goes
  <2> QED
    BY <1>5, <2>1 DEF KillUpdate, InstallTypes
<1>6. CASE UNCHANGED maintVars
  BY <1>6 DEF maintVars, InstallTypes
<1> QED
  BY <1>1, <1>2, <1>3, <1>4, <1>5, <1>6, UpdateTypes DEF MaintNext

(* Every variable of an installation that is changed keeps its type.         *)
THEOREM MaintTypes == MaintSpec => []MaintTypeOK
<1>1. InstallTypes /\ Flags => MaintTypeOK
  BY DEF InstallTypes, Flags, Stations, MaintTypeOK
<1> QED
  BY InitInstallTypes, FlagsStep, TypesStep, <1>1, PTL DEF MaintSpec

------------------------------------------------------------------------------
(* The sealing key                                                          *)

(* Where the key is, all through a restore that does not begin over another. *)
KeyHeld ==
    /\ aside = NoDir => conf.key = "ours"
    /\ aside # NoDir => "ours" \in {conf.key, aside.key}
    /\ rpc = "staged" => aside = NoDir /\ staging.key = "ours"
    /\ rpc = "aside" => aside.key = "ours" /\ staging.key = "ours"
    /\ rpc = "inPlace" => conf.key = "ours"
KeyInv == InstallTypes /\ (~retried => KeyHeld)

(* An update takes no key away, and has no part in a restore.                *)
LEMMA UpdateKeepsKey ==
    ASSUME InstallTypes, NEW h \in Hosts, Update(h)
    PROVE  /\ UNCHANGED <<aside, rpc, staging, retried, restores>>
           /\ conf.key = "ours" => conf'.key = "ours"
<1> USE DEF installation, config, restoring, counters, history
<1>1. snap[h].conf \in Trees /\ conf \in Trees /\ (IF conf = NoDir THEN EmptyDir ELSE conf) \in Trees
  BY TreeFields DEF InstallTypes, Snaps
<1>2. conf' = conf \/ (Migrate(h) \/ RollbackConfig(h))
  BY DEF Update, Begin, SnapshotBegins, SnapshotTaken, Install, RestartPanel, RestartMonitor, RestartTunnels,
         HealthCheck, Rollback, RollbackBinary, RollbackRestarts
<1>3. conf.key = "ours" => conf'.key = "ours"
  <2>1. CASE Migrate(h)
    BY <1>1, <2>1, MigratedTree DEF Migrate
  <2>2. CASE RollbackConfig(h)
    <3>1. conf.key = "ours" => conf # NoDir
      BY TreeFields
    <3> QED
      BY <1>1, <2>2, <3>1, OverlayTree DEF RollbackConfig
  <2> QED
    BY <1>2, <2>1, <2>2
<1>4. UNCHANGED <<aside, rpc, staging, retried, restores>>
  BY DEF Update, Begin, SnapshotBegins, SnapshotTaken, Install, Migrate, RestartPanel, RestartMonitor,
         RestartTunnels, HealthCheck, Rollback, RollbackBinary, RollbackConfig, RollbackRestarts
<1> QED
  BY <1>3, <1>4

LEMMA KeyStep == KeyInv /\ Flags /\ [MaintNext]_maintVars => KeyInv'
<1> SUFFICES ASSUME KeyInv, Flags, [MaintNext]_maintVars, ~retried'
             PROVE  KeyHeld'
  BY TypesStep DEF KeyInv
<1> USE DEF installation, config, restoring, counters, updating, history
<1>0. InstallTypes /\ conf \in Trees /\ aside \in Trees /\ staging \in Trees
  BY DEF KeyInv, InstallTypes
<1>1. CASE Stage
  <2>1. ~retried /\ aside = NoDir /\ aside' = NoDir
    BY <1>1, Zenon DEF Stage
  <2>2. conf.key = "ours" /\ conf # NoDir /\ conf' = conf
    BY <1>1, <2>1, TreeFields DEF Stage, KeyInv, KeyHeld
  <2>3. overlay(Archive, conf').key = "ours"
    BY <1>0, <2>2, TreeFields, OverlayTree
  <2> QED
    BY <1>1, <2>1, <2>2, <2>3 DEF Stage, KeyHeld
<1>2. CASE MoveAside \/ PutInPlace \/ Finish \/ CollectorWrites
  <2>1. retried' = retried
    BY <1>2, Zenon DEF MoveAside, PutInPlace, Finish, CollectorWrites
  <2>2. KeyHeld
    BY <2>1, Zenon DEF KeyInv
  <2>3. CASE MoveAside
    BY <2>2, <2>3, TreeFields DEF MoveAside, KeyHeld
  <2>4. CASE PutInPlace
    BY <2>2, <2>4, TreeFields DEF PutInPlace, KeyHeld
  <2>5. CASE Finish
    BY <2>2, <2>5, TreeFields DEF Finish, KeyHeld
  <2>6. CASE CollectorWrites
    BY <2>2, <2>6, TreeFields DEF CollectorWrites, KeyHeld
  <2> QED
    BY <1>2, <2>3, <2>4, <2>5, <2>6
<1>3. CASE Reboot
  <2>1. retried' = retried
    BY <1>3, Zenon DEF Reboot
  <2>2. KeyHeld
    BY <2>1, Zenon DEF KeyInv
  <2> QED
    BY <1>3, <2>2 DEF Reboot, KeyHeld
<1>4. ASSUME NEW h \in Hosts, Update(h) \/ KillUpdate(h)
      PROVE  KeyHeld'
  <2>1. /\ UNCHANGED <<aside, rpc, staging, retried>>
        /\ conf.key = "ours" => conf'.key = "ours"
    <3>1. CASE Update(h)
      BY <1>0, <3>1, UpdateKeepsKey
    <3>2. CASE KillUpdate(h)
      BY <3>2 DEF KillUpdate
    <3> QED
      BY <1>4, <3>1, <3>2
  <2>2. KeyHeld
    BY <2>1, Zenon DEF KeyInv
  <2> QED
    BY <2>1, <2>2 DEF KeyHeld
<1>5. CASE UNCHANGED maintVars
  <2>1. UNCHANGED <<conf, aside, rpc, staging, retried>>
    BY <1>5 DEF maintVars
  <2>2. KeyHeld
    BY <2>1, Zenon DEF KeyInv
  <2> QED
    BY <2>1, <2>2 DEF KeyHeld
<1> QED
  BY <1>1, <1>2, <1>3, <1>4, <1>5 DEF MaintNext

(* A restore that was cut short at any of its steps, by a kill or a reboot,  *)
(* and with any updates and tunnels beside it, has the sealing key in the    *)
(* configuration directory or in the one it moved aside.                     *)
THEOREM SealingKeySurvives == MaintSpec => []KeySurvives
<1>1. MaintInit => KeyInv /\ Flags
  <2> SUFFICES ASSUME MaintInit
               PROVE  KeyInv /\ Flags
    OBVIOUS
  <2>1. conf.key = "ours" /\ aside = NoDir /\ rpc = "idle"
    BY DEF MaintInit
  <2> QED
    BY <2>1, InitInstallTypes DEF KeyInv, KeyHeld
<1>2. KeyInv => KeySurvives
  BY DEF KeyInv, KeyHeld, KeySurvives
<1> QED
  BY <1>1, <1>2, FlagsStep, KeyStep, PTL DEF MaintSpec

------------------------------------------------------------------------------
(* The way back                                                             *)

OldFull(s) == hasMeta(s) /\ s.bin = "old"

(* The snapshot that since is counted from, or as many were begun after it   *)
(* as are kept.                                                              *)
Way == since >= Retention \/ \E i \in 1..Len(snaps) : OldFull(snaps[i]) /\ Len(snaps) - i <= since

(* As long as there has been no snapshot with the old binary, since counts   *)
(* them all.                                                                 *)
Tracked == Len(snaps) <= since \/ Way

(* What the new release gets in by.                                          *)
Taken == \/ bin = "new" \/ \E h \in Hosts : pc[h] = "snapped"
         \/ \E i \in 1..Len(snaps) : hasMeta(snaps[i]) /\ snaps[i].bin = "new"

(* A directory is filled by the update that made it, and by no other, so the *)
(* one an update has in hand is not complete.                                *)
InHand(h) == pc[h] \in {"verified", "snapping"}
Ids ==
    /\ \A i \in 1..Len(snaps) : snaps[i].id <= updates
    /\ \A h \in Hosts : InHand(h) =>
          /\ snap[h].id <= updates /\ ~hasMeta(snap[h])
          /\ \A i \in 1..Len(snaps) : snaps[i].id = snap[h].id => ~hasMeta(snaps[i])
          /\ \A k \in Hosts : InHand(k) /\ k # h => snap[k].id # snap[h].id

WayInv == InstallTypes /\ Ids /\ Tracked /\ (Taken => Way)

(* The types that the arithmetic below needs.                                *)
LEMMA SnapNumbers ==
    ASSUME InstallTypes
    PROVE  /\ Len(snaps) \in Nat /\ since \in Nat /\ updates \in Nat /\ Retention \in Nat
           /\ snaps \in Seq(Snaps)
           /\ \A i \in 1..Len(snaps) : snaps[i] \in Snaps /\ snaps[i].id \in Nat
           /\ \A h \in Hosts : snap[h] \in Snaps /\ snap[h].id \in Nat
<1>1. \A s \in Snaps : s.id \in Nat
  BY MaintAssumption DEF Snaps
<1>2. snaps \in Seq(Snaps) /\ snap \in [Hosts -> Snaps] /\ since \in Nat /\ updates \in Nat
  BY MaintAssumption DEF InstallTypes
<1> QED
  BY <1>1, <1>2, MaintAssumption

(* A step that leaves the snapshots, and what is in hand, as they are.       *)
LEMMA QuietIds ==
    ASSUME InstallTypes, InstallTypes', Ids, UNCHANGED snaps, updates' >= updates,
           \A k \in Hosts : InHand(k)' => InHand(k) /\ snap'[k] = snap[k]
    PROVE  Ids'
<1>1. updates \in Nat /\ updates' \in Nat
  BY MaintAssumption DEF InstallTypes
<1>2. \A i \in 1..Len(snaps) : snaps[i].id <= updates'
  BY <1>1, SnapNumbers DEF Ids
<1>3. ASSUME NEW h \in Hosts, InHand(h)'
      PROVE  /\ snap'[h].id <= updates' /\ ~hasMeta(snap'[h])
             /\ \A i \in 1..Len(snaps') : snaps'[i].id = snap'[h].id => ~hasMeta(snaps'[i])
             /\ \A k \in Hosts : InHand(k)' /\ k # h => snap'[k].id # snap'[h].id
  <2>1. InHand(h) /\ snap'[h] = snap[h] /\ snap[h].id \in Nat
    BY <1>3, SnapNumbers
  <2>2. /\ snap[h].id <= updates /\ ~hasMeta(snap[h])
        /\ \A i \in 1..Len(snaps) : snaps[i].id = snap[h].id => ~hasMeta(snaps[i])
        /\ \A k \in Hosts : InHand(k) /\ k # h => snap[k].id # snap[h].id
    BY <2>1 DEF Ids
  <2>3. snap'[h].id <= updates'
    BY <1>1, <2>1, <2>2
  <2> QED
    BY <2>1, <2>2, <2>3
<1> QED
  BY <1>2, <1>3 DEF Ids

LEMMA QuietWay ==
    ASSUME Tracked, Taken => Way, UNCHANGED <<snaps, since>>, bin' = "new" => Taken,
           \A h \in Hosts : pc'[h] = "snapped" => pc[h] = "snapped"
    PROVE  Tracked' /\ (Taken' => Way')
BY DEF Tracked, Taken, Way

(* An update that is not making its snapshot is quiet.                       *)
LEMMA UpdateIsQuiet ==
    ASSUME InstallTypes, NEW h \in Hosts, Update(h),
           ~(\E l \in BOOLEAN : Begin(h, l)), ~SnapshotBegins(h), ~SnapshotTaken(h)
    PROVE  /\ UNCHANGED <<snaps, since>> /\ updates' >= updates
           /\ bin' = "new" => Taken
           /\ \A k \in Hosts : pc'[k] = "snapped" => pc[k] = "snapped"
           /\ \A k \in Hosts : InHand(k)' => InHand(k) /\ snap'[k] = snap[k]
<1> USE DEF installation, config, restoring, counters, history
<1>0. updates \in Nat /\ pc \in [Hosts -> Stations] /\ snap \in [Hosts -> Snaps] /\ bin \in {"old", "new"}
  BY MaintAssumption DEF InstallTypes
<1>1. /\ Install(h) \/ Migrate(h) \/ RestartPanel(h) \/ RestartMonitor(h) \/ RestartTunnels(h)
         \/ HealthCheck(h) \/ Rollback(h) \/ RollbackBinary(h) \/ RollbackConfig(h) \/ RollbackRestarts(h)
      /\ UNCHANGED <<snaps, since>>
  BY DEF Update, Install, Migrate, RestartPanel, RestartMonitor, RestartTunnels, HealthCheck, Rollback,
         RollbackBinary, RollbackConfig, RollbackRestarts
<1>2. updates' >= updates
  BY <1>0, <1>1 DEF Install, Migrate, RestartPanel, RestartMonitor, RestartTunnels, HealthCheck, Rollback,
         RollbackBinary, RollbackConfig, RollbackRestarts
<1>3. PICK p \in Stations : Goes(h, p) /\ p \notin {"verified", "snapping", "snapped"}
  BY <1>1 DEF Install, Migrate, RestartPanel, RestartMonitor, RestartTunnels, HealthCheck, Rollback,
         RollbackBinary, RollbackConfig, RollbackRestarts, Stations
<1>4. pc'[h] = p /\ \A k \in Hosts : k # h => pc'[k] = pc[k]
  BY <1>3, GoesTypes
<1>5. \A k \in Hosts : k # h => snap'[k] = snap[k]
  BY <1>0, <1>1 DEF Install, Migrate, RestartPanel, RestartMonitor, RestartTunnels, HealthCheck, Rollback,
         RollbackBinary, RollbackConfig, RollbackRestarts
<1>6. bin' = "new" => Taken
  <2>1. CASE Install(h)
    BY <2>1 DEF Install, Taken, At
  <2>2. CASE RollbackBinary(h)
    BY <2>2 DEF RollbackBinary, Taken
  <2>3. CASE ~Install(h) /\ ~RollbackBinary(h)
    <3>1. bin' = bin
      BY <1>1, <2>3 DEF Migrate, RestartPanel, RestartMonitor, RestartTunnels, HealthCheck, Rollback,
             RollbackConfig, RollbackRestarts
    <3> QED
      BY <3>1 DEF Taken
  <2> QED
    BY <2>1, <2>2, <2>3
<1> QED
  BY <1>1, <1>2, <1>3, <1>4, <1>5, <1>6 DEF InHand

(* So is everything that is not an update.                                   *)
LEMMA OthersAreQuiet ==
    ASSUME InstallTypes,
           \/ \E h \in Hosts : KillUpdate(h)
           \/ Stage \/ MoveAside \/ PutInPlace \/ Finish \/ CollectorWrites \/ Reboot
           \/ UNCHANGED maintVars
    PROVE  /\ UNCHANGED <<snaps, since>> /\ updates' >= updates
           /\ bin' = "new" => Taken
           /\ \A k \in Hosts : pc'[k] = "snapped" => pc[k] = "snapped"
           /\ \A k \in Hosts : InHand(k)' => InHand(k) /\ snap'[k] = snap[k]
<1> USE DEF installation, config, restoring, counters, updating, history
<1>0. updates \in Nat /\ pc \in [Hosts -> Stations]
  BY MaintAssumption DEF InstallTypes
<1>1. UNCHANGED <<snaps, since, bin, snap, updates>>
  BY DEF KillUpdate, Stage, MoveAside, PutInPlace, Finish, CollectorWrites, Reboot, maintVars
<1>2. \A k \in Hosts : pc'[k] \in {pc[k], "idle"}
  BY <1>0 DEF KillUpdate, Stage, MoveAside, PutInPlace, Finish, CollectorWrites, Reboot, maintVars, Goes
<1>3. updates' >= updates
  BY <1>0, <1>1
<1> QED
  BY <1>1, <1>2, <1>3 DEF InHand, Taken

(* An update that begins has a directory of its own in hand.                 *)
LEMMA BeginWay ==
    ASSUME WayInv, InstallTypes', NEW h \in Hosts, NEW l \in BOOLEAN, Begin(h, l)
    PROVE  Ids' /\ Tracked' /\ (Taken' => Way')
<1> USE DEF installation, config, restoring, counters, history
<1>1. UNCHANGED <<snaps, since, bin>> /\ updates' = updates + 1
      /\ Goes(h, "verified") /\ snap' = [snap EXCEPT ![h] = [NoSnap EXCEPT !.id = updates']]
  BY DEF Begin
<1>2. InstallTypes /\ Ids /\ Tracked /\ (Taken => Way)
  BY DEF WayInv
<1>3. pc'[h] = "verified" /\ \A k \in Hosts : k # h => pc'[k] = pc[k]
  BY <1>1, <1>2, GoesTypes DEF Stations
<1>4. Tracked' /\ (Taken' => Way')
  <2>1. \A k \in Hosts : pc'[k] = "snapped" => pc[k] = "snapped"
    BY <1>3
  <2> QED
    BY <1>1, <1>2, <2>1, QuietWay DEF Taken
<1>5. updates \in Nat /\ updates' \in 0..MaxUpdates
  BY <1>2, MaintAssumption DEF InstallTypes
<1>6. /\ snap'[h].id = updates + 1 /\ ~hasMeta(snap'[h])
      /\ \A k \in Hosts : k # h => snap'[k] = snap[k]
  <2>1. snap'[h] = [NoSnap EXCEPT !.id = updates'] /\ \A k \in Hosts : k # h => snap'[k] = snap[k]
    BY <1>1, <1>2 DEF InstallTypes
  <2> QED
    BY <1>1, <1>5, <2>1, NewSnap
<1>7. \A i \in 1..Len(snaps) : snaps[i].id <= updates /\ snaps[i].id \in Nat
  BY <1>2, SnapNumbers DEF Ids
<1>8. \A k \in Hosts : k # h /\ InHand(k)' => InHand(k) /\ snap[k].id <= updates /\ snap[k].id \in Nat
  BY <1>2, <1>3, SnapNumbers DEF Ids, InHand
<1>9. ASSUME NEW k \in Hosts, InHand(k)'
      PROVE  /\ snap'[k].id <= updates' /\ ~hasMeta(snap'[k])
             /\ \A i \in 1..Len(snaps') : snaps'[i].id = snap'[k].id => ~hasMeta(snaps'[i])
             /\ \A m \in Hosts : InHand(m)' /\ m # k => snap'[m].id # snap'[k].id
  <2>1. CASE k = h
    <3>1. \A i \in 1..Len(snaps) : snaps[i].id # updates + 1
      BY <1>5, <1>7
    <3>2. \A m \in Hosts : InHand(m)' /\ m # k => snap'[m].id # updates + 1
      BY <1>5, <1>6, <1>8, <2>1
    <3> QED
      BY <1>1, <1>5, <1>6, <2>1, <3>1, <3>2
  <2>2. CASE k # h
    <3>1. InHand(k) /\ snap'[k] = snap[k] /\ snap[k].id <= updates /\ snap[k].id \in Nat
      BY <1>6, <1>8, <1>9, <2>2
    <3>2. \A m \in Hosts : InHand(m)' /\ m # k => snap'[m].id # snap'[k].id
      BY <1>2, <1>5, <1>6, <1>8, <2>2, <3>1 DEF Ids
    <3> QED
      BY <1>1, <1>2, <1>5, <3>1, <3>2 DEF Ids
  <2> QED
    BY <2>1, <2>2
<1>10. \A i \in 1..Len(snaps') : snaps'[i].id <= updates'
  BY <1>1, <1>5, <1>7
<1> QED
  BY <1>4, <1>9, <1>10 DEF Ids

(* A snapshot that begins puts the one the way goes back by further from the *)
(* end, by as much as since grows.                                           *)
LEMMA BeginsWay ==
    ASSUME WayInv, NEW h \in Hosts, SnapshotBegins(h)
    PROVE  Ids' /\ Tracked' /\ (Taken' => Way')
<1> USE DEF installation, config, restoring, counters, history
<1>1. /\ UNCHANGED <<bin, snap, updates>> /\ At(h, "verified") /\ Goes(h, "snapping")
      /\ snaps' = Append(snaps, snap[h]) /\ since' = since + 1
  BY DEF SnapshotBegins
<1>2. InstallTypes /\ Ids /\ Tracked /\ (Taken => Way)
  BY DEF WayInv
<1>3. pc'[h] = "snapping" /\ \A k \in Hosts : k # h => pc'[k] = pc[k]
  BY <1>1, <1>2, GoesTypes DEF Stations
<1>4. /\ Len(snaps) \in Nat /\ since \in Nat /\ updates \in Nat /\ Retention \in Nat
      /\ snaps \in Seq(Snaps) /\ snap[h] \in Snaps
  BY <1>2, SnapNumbers
<1>5. /\ Len(snaps') = Len(snaps) + 1 /\ snaps'[Len(snaps) + 1] = snap[h]
      /\ \A i \in 1..Len(snaps) : snaps'[i] = snaps[i]
  BY <1>1, <1>4
<1>6. \A i \in 1..Len(snaps') : i \in 1..Len(snaps) \/ i = Len(snaps) + 1
  BY <1>4, <1>5
<1>7. InHand(h) /\ snap[h].id <= updates /\ ~hasMeta(snap[h])
  BY <1>1, <1>2 DEF Ids, InHand, At
<1>8. Way => Way'
  <2>1. since >= Retention => since' >= Retention
    BY <1>1, <1>4
  <2>2. ASSUME NEW i \in 1..Len(snaps), OldFull(snaps[i]), Len(snaps) - i <= since
        PROVE  i \in 1..Len(snaps') /\ OldFull(snaps'[i]) /\ Len(snaps') - i <= since'
    <3>1. i \in 1..Len(snaps') /\ Len(snaps') - i <= since'
      BY <1>1, <1>4, <1>5, <2>2
    <3>2. snaps'[i] = snaps[i]
      BY <1>5
    <3> QED
      BY <2>2, <3>1, <3>2
  <2>3. CASE since >= Retention
    BY <2>1, <2>3 DEF Way
  <2>4. CASE \E i \in 1..Len(snaps) : OldFull(snaps[i]) /\ Len(snaps) - i <= since
    <3>1. PICK i \in 1..Len(snaps) : OldFull(snaps[i]) /\ Len(snaps) - i <= since
      BY <2>4
    <3>2. i \in 1..Len(snaps') /\ OldFull(snaps'[i]) /\ Len(snaps') - i <= since'
      BY <2>2, <3>1
    <3> QED
      BY <3>2 DEF Way, OldFull
  <2> QED
    BY <2>3, <2>4 DEF Way
<1>9. Tracked'
  <2>1. Len(snaps) <= since => Len(snaps') <= since'
    BY <1>1, <1>4, <1>5
  <2> QED
    BY <1>2, <1>8, <2>1 DEF Tracked
<1>10. Taken' => Taken
  BY <1>1, <1>3, <1>5, <1>6, <1>7 DEF Taken
<1>11. Ids'
  <2>1. \A i \in 1..Len(snaps') : snaps'[i].id <= updates'
    BY <1>1, <1>2, <1>5, <1>6, <1>7 DEF Ids
  <2>2. ASSUME NEW k \in Hosts, InHand(k)'
        PROVE  /\ snap'[k].id <= updates' /\ ~hasMeta(snap'[k])
               /\ \A i \in 1..Len(snaps') : snaps'[i].id = snap'[k].id => ~hasMeta(snaps'[i])
               /\ \A m \in Hosts : InHand(m)' /\ m # k => snap'[m].id # snap'[k].id
    <3>1. \A m \in Hosts : InHand(m)' => InHand(m)
      BY <1>3, <1>7 DEF InHand
    <3>2. InHand(k)
      BY <2>2, <3>1
    <3> QED
      BY <1>1, <1>2, <1>5, <1>6, <1>7, <3>1, <3>2 DEF Ids
  <2> QED
    BY <2>1, <2>2 DEF Ids
<1> QED
  BY <1>2, <1>8, <1>9, <1>10, <1>11

(* One that ends, well or not, is out of hand; what it leaves is its own     *)
(* directory and others that were there.                                     *)
LEMMA TakenIds ==
    ASSUME WayInv, NEW h \in Hosts, NEW s \in Snaps, s.id = snap[h].id, InHand(h),
           ~InHand(h)', \A k \in Hosts : k # h => pc'[k] = pc[k] /\ snap'[k] = snap[k],
           updates' = updates, Len(snaps') \in Nat,
           \A j \in 1..Len(snaps') : snaps'[j] = s \/ \E i \in 1..Len(snaps) : snaps'[j] = snaps[i]
    PROVE  Ids'
<1>1. Ids
  BY DEF WayInv
<1>2. s.id <= updates
  BY <1>1 DEF Ids
<1>3. ASSUME NEW j \in 1..Len(snaps')
      PROVE  snaps'[j].id <= updates'
  BY <1>1, <1>2 DEF Ids
<1>4. ASSUME NEW k \in Hosts, InHand(k)'
      PROVE  k # h /\ InHand(k) /\ snap'[k] = snap[k] /\ snap[k].id # s.id
  BY <1>1, <1>4 DEF Ids, InHand
<1>5. ASSUME NEW k \in Hosts, InHand(k)'
      PROVE  /\ snap'[k].id <= updates' /\ ~hasMeta(snap'[k])
             /\ \A j \in 1..Len(snaps') : snaps'[j].id = snap'[k].id => ~hasMeta(snaps'[j])
             /\ \A m \in Hosts : InHand(m)' /\ m # k => snap'[m].id # snap'[k].id
  BY <1>1, <1>4, <1>5 DEF Ids
<1> QED
  BY <1>3, <1>5 DEF Ids

LEMMA FailedWay ==
    ASSUME WayInv, NEW h \in Hosts, SnapshotTaken(h), conf = NoDir
    PROVE  Ids' /\ Tracked' /\ (Taken' => Way')
<1> USE DEF installation, config, restoring, counters, history
<1> DEFINE s == [snap[h] EXCEPT !.bin = bin, !.conf = conf]
<1>1. /\ UNCHANGED <<bin, updates, snap, since>> /\ At(h, "snapping") /\ Goes(h, "idle")
      /\ snaps' = IF entries(s.id) = {} THEN snaps ELSE RemoveAt(snaps, place(s.id))
  BY DEF SnapshotTaken
<1>2. InstallTypes /\ Ids /\ Tracked /\ (Taken => Way)
  BY DEF WayInv
<1>3. s \in Snaps /\ s.id = snap[h].id
  <2>1. snap[h] \in Snaps /\ bin \in {"old", "new"} /\ conf \in Trees
    BY <1>2 DEF InstallTypes
  <2>2. s \in Snaps
    BY <2>1, FilledSnap
  <2> QED
    BY <2>1, <2>2 DEF Snaps
<1> HIDE DEF s
<1>4. /\ Len(snaps) \in Nat /\ since \in Nat /\ Retention \in Nat /\ snaps \in Seq(Snaps)
  BY <1>2, SnapNumbers
<1>5. pc'[h] = "idle" /\ \A k \in Hosts : k # h => pc'[k] = pc[k]
  BY <1>1, <1>2, GoesTypes DEF Stations
<1>6. InHand(h) /\ ~InHand(h)'
  BY <1>1, <1>5 DEF InHand, At
<1>7. /\ Len(snaps') \in Nat /\ Len(snaps') <= Len(snaps)
      /\ \A j \in 1..Len(snaps') : \E i \in 1..Len(snaps) : snaps'[j] = snaps[i]
      /\ \A i \in 1..Len(snaps) : hasMeta(snaps[i]) =>
             \E j \in 1..Len(snaps') : snaps'[j] = snaps[i] /\ Len(snaps') - j <= Len(snaps) - i
  <2>1. CASE entries(s.id) = {}
    <3>1. snaps' = snaps
      BY <1>1, <2>1
    <3> QED
      BY <1>4, <3>1
  <2>2. CASE entries(s.id) # {}
    <3>1. PICK p \in 1..Len(snaps) : p = place(s.id) /\ snaps[p].id = s.id
      BY <2>2 DEF place, entries
    <3>2. snaps' = RemoveAt(snaps, p) /\ Len(snaps') = Len(snaps) - 1
      BY <1>1, <1>4, <2>2, <3>1, RemoveKeeps
    <3>3. ~hasMeta(snaps[p])
      BY <1>2, <1>3, <1>6, <3>1 DEF Ids
    <3>4. Len(snaps') \in Nat /\ Len(snaps') <= Len(snaps)
      BY <1>4, <3>2
    <3>5. \A j \in 1..Len(snaps') : \E i \in 1..Len(snaps) : snaps'[j] = snaps[i]
      <4>1. \A j \in 1..(Len(snaps) - 1) : \E i \in 1..Len(snaps) : RemoveAt(snaps, p)[j] = snaps[i]
        BY <1>4, RemoveKeeps
      <4> QED
        BY <3>2, <4>1
    <3>6. \A i \in 1..Len(snaps) : i # p =>
             \E j \in 1..Len(snaps') : snaps'[j] = snaps[i] /\ Len(snaps') - j <= Len(snaps) - i
      BY <1>4, <3>1, <3>2, RemoveKeeps
    <3> QED
      BY <3>3, <3>4, <3>5, <3>6
  <2> QED
    BY <2>1, <2>2
<1>8. Way => Way'
  <2>1. CASE since >= Retention
    BY <1>1, <2>1 DEF Way
  <2>2. CASE \E i \in 1..Len(snaps) : OldFull(snaps[i]) /\ Len(snaps) - i <= since
    <3>1. PICK i \in 1..Len(snaps) : OldFull(snaps[i]) /\ Len(snaps) - i <= since
      BY <2>2
    <3>2. PICK j \in 1..Len(snaps') : snaps'[j] = snaps[i] /\ Len(snaps') - j <= Len(snaps) - i
      BY <1>7, <3>1 DEF OldFull
    <3>3. OldFull(snaps'[j]) /\ Len(snaps') - j <= since'
      BY <1>1, <1>4, <1>7, <3>1, <3>2
    <3> QED
      BY <3>3 DEF Way, OldFull
  <2> QED
    BY <2>1, <2>2 DEF Way
<1>9. Tracked'
  <2>1. Len(snaps) <= since => Len(snaps') <= since'
    BY <1>1, <1>4, <1>7
  <2> QED
    BY <1>2, <1>8, <2>1 DEF Tracked
<1>10. Taken' => Taken
  <2>1. \A k \in Hosts : pc'[k] = "snapped" => pc[k] = "snapped"
    BY <1>5
  <2>2. ASSUME NEW j \in 1..Len(snaps'), hasMeta(snaps'[j]), snaps'[j].bin = "new"
        PROVE  Taken
    <3>1. PICK i \in 1..Len(snaps) : snaps'[j] = snaps[i]
      BY <1>7
    <3> QED
      BY <2>2, <3>1 DEF Taken
  <2> QED
    BY <1>1, <2>1, <2>2 DEF Taken, hasMeta
<1>11. Ids'
  <2>1. \A k \in Hosts : k # h => pc'[k] = pc[k] /\ snap'[k] = snap[k]
    BY <1>1, <1>5
  <2> QED
    BY <1>1, <1>3, <1>6, <1>7, <2>1, TakenIds
<1> QED
  BY <1>2, <1>8, <1>9, <1>10, <1>11

(* The snapshot that is kept longest is either this one, or has as few after *)
(* it as before; and fewer than are kept, so it is not pruned.               *)
LEMMA TakenWay ==
    ASSUME WayInv, NEW h \in Hosts, SnapshotTaken(h), conf # NoDir
    PROVE  Ids' /\ Tracked' /\ (Taken' => Way')
<1> USE DEF installation, config, restoring, counters, history
<1> DEFINE s == [snap[h] EXCEPT !.bin = bin, !.conf = conf]
<1>1. /\ UNCHANGED <<bin, updates>> /\ At(h, "snapping") /\ Goes(h, "snapped")
      /\ snap' = [snap EXCEPT ![h] = s] /\ snaps' = prune(filled(s))
      /\ since' = IF bin = "old" /\ after(s) < since THEN after(s) ELSE since
  BY DEF SnapshotTaken
<1>2. InstallTypes /\ Ids /\ Tracked /\ (Taken => Way)
  BY DEF WayInv
<1>3. /\ s \in Snaps /\ s.id = snap[h].id /\ s.bin = bin /\ s.conf = conf
  <2>1. snap[h] \in Snaps /\ bin \in {"old", "new"} /\ conf \in Trees
    BY <1>2 DEF InstallTypes
  <2>2. s \in Snaps
    BY <2>1, FilledSnap
  <2> QED
    BY <2>1, <2>2 DEF Snaps
<1> HIDE DEF s
<1>4. /\ Len(snaps) \in Nat /\ since \in Nat /\ Retention \in Nat /\ snaps \in Seq(Snaps)
      /\ bin \in {"old", "new"}
  BY <1>2, SnapNumbers DEF InstallTypes
<1>5. pc'[h] = "snapped" /\ \A k \in Hosts : k # h => pc'[k] = pc[k]
  BY <1>1, <1>2, GoesTypes DEF Stations
<1>6. InHand(h) /\ ~InHand(h)' /\ \A k \in Hosts : k # h => snap'[k] = snap[k]
  BY <1>1, <1>2, <1>5 DEF InHand, At, InstallTypes
<1>7. PICK f \in Seq(Snaps) : f = filled(s) /\ Len(f) \in Nat
  BY <1>3, <1>4, FilledIs
<1>8. PICK a \in Nat : a = after(s) /\ a < Len(f) /\ a <= Len(snaps) /\ f[Len(f) - a] = s
  BY <1>3, <1>4, <1>7, FilledIs
<1>9. \A i \in 1..Len(snaps) : snaps[i].id # s.id =>
         \E j \in 1..Len(f) : f[j] = snaps[i] /\ Len(f) - j = Len(snaps) - i
  BY <1>3, <1>4, <1>7, FilledIs
<1>10. \A j \in 1..Len(f) : f[j] = s \/ \E i \in 1..Len(snaps) : f[j] = snaps[i]
  BY <1>3, <1>4, <1>7, FilledIs
<1>11. /\ Len(snaps') \in Nat
       /\ \A m \in 1..Len(snaps') : \E j \in 1..Len(f) : snaps'[m] = f[j]
       /\ \A j \in 1..Len(f) : Len(f) - j < Retention =>
              \E m \in 1..Len(snaps') : snaps'[m] = f[j] /\ Len(snaps') - m = Len(f) - j
  BY <1>1, <1>7, PruneKeeps
<1>12. Ids'
  <2>1. \A m \in 1..Len(snaps') : snaps'[m] = s \/ \E i \in 1..Len(snaps) : snaps'[m] = snaps[i]
    BY <1>10, <1>11
  <2> QED
    BY <1>1, <1>3, <1>5, <1>6, <1>11, <2>1, TakenIds
<1>13. since' \in Nat /\ since' <= since
  BY <1>1, <1>4, <1>8
<1>14. Way'
  <2>1. ASSUME NEW j \in 1..Len(f), OldFull(f[j]), Len(f) - j <= since', since' < Retention
        PROVE  Way'
    <3>1. Len(f) - j < Retention
      BY <1>4, <1>7, <1>13, <2>1
    <3>2. PICK m \in 1..Len(snaps') : snaps'[m] = f[j] /\ Len(snaps') - m = Len(f) - j
      BY <1>11, <3>1
    <3>3. OldFull(snaps'[m]) /\ Len(snaps') - m <= since'
      BY <2>1, <3>2
    <3> QED
      BY <3>3 DEF Way, OldFull
  <2>2. ASSUME bin = "old", a <= since', since' < Retention
        PROVE  Way'
    <3>1. Len(f) - a \in 1..Len(f) /\ Len(f) - (Len(f) - a) <= since'
      BY <1>7, <1>8, <1>13, <2>2
    <3>2. OldFull(f[Len(f) - a])
      BY <1>3, <1>8, <2>2 DEF OldFull, hasMeta
    <3> QED
      BY <2>1, <2>2, <3>1, <3>2
  <2>3. ASSUME Way, since' = since, since < Retention
        PROVE  Way'
    <3>1. PICK i \in 1..Len(snaps) : OldFull(snaps[i]) /\ Len(snaps) - i <= since
      BY <1>4, <2>3 DEF Way
    <3>2. snaps[i].id # s.id
      BY <1>2, <1>3, <1>6, <3>1 DEF Ids, OldFull
    <3>3. PICK j \in 1..Len(f) : f[j] = snaps[i] /\ Len(f) - j = Len(snaps) - i
      BY <1>9, <3>2
    <3> QED
      BY <2>1, <2>3, <3>1, <3>3
  <2>4. CASE since' >= Retention
    BY <2>4 DEF Way
  <2>5. CASE since' < Retention /\ bin = "old"
    <3>1. CASE a < since
      <4>1. since' = a
        BY <1>1, <1>8, <2>5, <3>1
      <4> QED
        BY <1>8, <2>2, <2>5, <4>1
    <3>2. CASE ~(a < since)
      <4>1. since' = since
        BY <1>1, <1>8, <2>5, <3>2
      <4>2. CASE Way
        BY <2>3, <2>5, <4>1, <4>2
      <4>3. CASE Len(snaps) <= since
        <5>1. a <= since'
          BY <1>4, <1>8, <4>1, <4>3
        <5> QED
          BY <2>2, <2>5, <5>1
      <4> QED
        BY <1>2, <4>2, <4>3 DEF Tracked
    <3> QED
      BY <3>1, <3>2
  <2>6. CASE since' < Retention /\ bin = "new"
    <3>1. since' = since /\ Way
      BY <1>1, <1>2, <2>6 DEF Taken
    <3> QED
      BY <2>3, <2>6, <3>1
  <2> QED
    BY <1>4, <1>13, <2>4, <2>5, <2>6
<1> QED
  BY <1>12, <1>14 DEF Tracked

LEMMA WayStep == WayInv /\ [MaintNext]_maintVars => WayInv'
<1> SUFFICES ASSUME WayInv, [MaintNext]_maintVars
             PROVE  Ids' /\ Tracked' /\ (Taken' => Way')
  BY TypesStep DEF WayInv
<1>1. InstallTypes /\ InstallTypes' /\ Ids /\ Tracked /\ (Taken => Way)
  BY TypesStep DEF WayInv
<1>2. ASSUME NEW h \in Hosts, Update(h)
      PROVE  Ids' /\ Tracked' /\ (Taken' => Way')
  <2>1. CASE \E l \in BOOLEAN : Begin(h, l)
    BY <1>1, <2>1, BeginWay
  <2>2. CASE SnapshotBegins(h)
    BY <2>2, BeginsWay
  <2>3. CASE SnapshotTaken(h)
    BY <2>3, FailedWay, TakenWay
  <2>4. CASE ~(\E l \in BOOLEAN : Begin(h, l)) /\ ~SnapshotBegins(h) /\ ~SnapshotTaken(h)
    <3>1. /\ UNCHANGED <<snaps, since>> /\ updates' >= updates
          /\ bin' = "new" => Taken
          /\ \A k \in Hosts : pc'[k] = "snapped" => pc[k] = "snapped"
          /\ \A k \in Hosts : InHand(k)' => InHand(k) /\ snap'[k] = snap[k]
      BY <1>1, <1>2, <2>4, UpdateIsQuiet
    <3>2. Ids'
      BY <1>1, <3>1, QuietIds
    <3>3. Tracked' /\ (Taken' => Way')
      BY <1>1, <3>1, QuietWay
    <3> QED
      BY <3>2, <3>3
  <2> QED
    BY <2>1, <2>2, <2>3, <2>4
<1>3. CASE \/ \E h \in Hosts : KillUpdate(h)
           \/ Stage \/ MoveAside \/ PutInPlace \/ Finish \/ CollectorWrites \/ Reboot
           \/ UNCHANGED maintVars
  <2>1. /\ UNCHANGED <<snaps, since>> /\ updates' >= updates
        /\ bin' = "new" => Taken
        /\ \A k \in Hosts : pc'[k] = "snapped" => pc[k] = "snapped"
        /\ \A k \in Hosts : InHand(k)' => InHand(k) /\ snap'[k] = snap[k]
    BY <1>1, <1>3, OthersAreQuiet
  <2>2. Ids'
    BY <1>1, <2>1, QuietIds
  <2>3. Tracked' /\ (Taken' => Way')
    BY <1>1, <2>1, QuietWay
  <2> QED
    BY <2>2, <2>3
<1> QED
  BY <1>2, <1>3 DEF MaintNext

(* However many updates, restores, kills and reboots there were, and in      *)
(* whatever processes, there is a complete snapshot with the old binary to   *)
(* go back to from the new release, until as many were begun after it as are *)
(* kept.                                                                     *)
THEOREM WayBackHeld == MaintSpec => []WayBack
<1>1. MaintInit => WayInv
  <2> SUFFICES ASSUME MaintInit
               PROVE  WayInv
    OBVIOUS
  <2>1. snaps = <<>> /\ since = 0 /\ bin = "old" /\ \A h \in Hosts : pc[h] = "idle"
    BY DEF MaintInit
  <2>2. Tracked /\ ~Taken
    BY <2>1 DEF Tracked, Taken
  <2>3. Ids
    BY <2>1 DEF Ids, InHand
  <2> QED
    BY <2>2, <2>3, InitInstallTypes DEF WayInv
<1>2. WayInv => WayBack
  <2> SUFFICES ASSUME WayInv, bin = "new", since < Retention
               PROVE  \E i \in 1..Len(snaps) : hasMeta(snaps[i]) /\ snaps[i].bin = "old"
    BY DEF WayBack
  <2>1. Way
    BY DEF WayInv, Taken
  <2> QED
    BY <2>1, SnapNumbers DEF WayInv, Way, OldFull
<1> QED
  BY <1>1, <1>2, WayStep, PTL DEF MaintSpec

------------------------------------------------------------------------------
(* Updates from the menu                                                    *)

(* Without a restore the configuration directory stays, with its tunnel.     *)
Intact == restores = 0 => rpc = "idle" /\ conf.tunnel # "none"

(* The binary b runs every unit; the unit t, if it is up, is one it runs.    *)
Good(b) == b = "new" => breaks = {}
Sound(t) == t \in up /\ bin = "new" => t \notin breaks

(* An update from the menu, step by step: until it installs, everything      *)
(* works; from then on there is a snapshot in hand of a binary that does,    *)
(* until every unit has shown that it runs or the snapshot is back.          *)
Whole ==
    /\ \A i \in 1..Len(snaps) : hasMeta(snaps[i]) => Good(snaps[i].bin)
    /\ pc["menu"] \in {"idle", "verified", "snapping", "snapped"} => up = Units /\ Good(bin)
    /\ pc["menu"] = "verified" => entries(snap["menu"].id) = {}
    /\ pc["menu"] = "snapping" => snaps # <<>> /\ entries(snap["menu"].id) = {Len(snaps)}
    /\ pc["menu"] \in {"snapped", "installed", "migrated", "panel", "monitor", "tunnels"} =>
           hasMeta(snap["menu"]) /\ \E i \in 1..Len(snaps) : snaps[i] = snap["menu"]
    /\ pc["menu"] = "unhealthy" =>
           /\ \E i \in 1..Len(snaps) : snaps[i] = snap["menu"]
           /\ hasMeta(snap["menu"]) \/ (up = Units /\ Good(bin))
    /\ pc["menu"] \in {"binary", "config"} => Good(bin)
    /\ pc["menu"] \in {"panel", "monitor", "tunnels"} => Sound("panel")
    /\ pc["menu"] \in {"monitor", "tunnels"} => Sound("monitor")
    /\ pc["menu"] = "tunnels" => Sound("tunnel")

WholeInv == WayInv /\ Intact /\ (~interrupted /\ restores = 0 => Whole)

LEMMA IntactStep == InstallTypes /\ Intact /\ [MaintNext]_maintVars => Intact'
<1> SUFFICES ASSUME InstallTypes, Intact, [MaintNext]_maintVars, restores' = 0
             PROVE  rpc' = "idle" /\ conf'.tunnel # "none"
  BY DEF Intact
<1> USE DEF installation, config, restoring, counters, updating, history
<1>1. restores \in Nat /\ conf \in Trees
  BY MaintAssumption DEF InstallTypes
<1>2. CASE Stage
  BY <1>1, <1>2 DEF Stage
<1>3. CASE MoveAside \/ PutInPlace \/ Finish \/ CollectorWrites
  <2>1. restores = 0
    BY <1>3 DEF MoveAside, PutInPlace, Finish, CollectorWrites
  <2>2. rpc = "idle" /\ conf # NoDir
    BY <2>1, TreeFields DEF Intact
  <2> QED
    BY <1>3, <2>2 DEF MoveAside, PutInPlace, Finish, CollectorWrites
<1>4. CASE Reboot
  BY <1>4 DEF Reboot, Intact
<1>5. ASSUME NEW h \in Hosts, KillUpdate(h)
      PROVE  rpc' = "idle" /\ conf'.tunnel # "none"
  BY <1>5 DEF KillUpdate, Intact
<1>6. ASSUME NEW h \in Hosts, Update(h)
      PROVE  rpc' = "idle" /\ conf'.tunnel # "none"
  <2>1. rpc' = rpc /\ restores = 0
    BY <1>6, UpdateKeepsKey
  <2>2. rpc = "idle" /\ conf.tunnel # "none" /\ conf # NoDir
    BY <2>1, TreeFields DEF Intact
  <2>3. snap[h].conf \in Trees
    BY DEF InstallTypes, Snaps
  <2>4. CASE Migrate(h)
    BY <1>1, <2>1, <2>2, <2>4, MigratedTree DEF Migrate
  <2>5. CASE RollbackConfig(h)
    BY <1>1, <2>1, <2>2, <2>3, <2>5, OverlayTree DEF RollbackConfig
  <2>6. CASE ~Migrate(h) /\ ~RollbackConfig(h)
    <3>1. conf' = conf
      BY <1>6, <2>6 DEF Update, Begin, SnapshotBegins, SnapshotTaken, Install, RestartPanel, RestartMonitor,
             RestartTunnels, HealthCheck, Rollback, RollbackBinary, RollbackRestarts
    <3> QED
      BY <2>1, <2>2, <3>1
  <2> QED
    BY <2>4, <2>5, <2>6
<1>7. CASE UNCHANGED maintVars
  BY <1>7 DEF maintVars, Intact
<1> QED
  BY <1>2, <1>3, <1>4, <1>5, <1>6, <1>7 DEF MaintNext

(* The snapshot of an update from the menu is the newest, so it is there     *)
(* when the new binary comes.                                                *)
LEMMA WholeSnapshot ==
    ASSUME WayInv, Intact, Whole, restores = 0, "menu" \in Hosts,
           SnapshotBegins("menu") \/ SnapshotTaken("menu")
    PROVE  Whole'
<1> USE DEF installation, config, restoring, counters, history
<1>1. /\ InstallTypes /\ Ids /\ Len(snaps) \in Nat /\ snaps \in Seq(Snaps) /\ Retention \in Nat \ {0}
      /\ snap["menu"] \in Snaps /\ bin \in {"old", "new"} /\ conf \in Trees
  BY SnapNumbers, MaintAssumption DEF WayInv, InstallTypes
<1>2. CASE SnapshotBegins("menu")
  <2>1. /\ UNCHANGED <<bin, breaks, up, snap>> /\ pc["menu"] = "verified" /\ Goes("menu", "snapping")
        /\ snaps' = Append(snaps, snap["menu"])
    BY <1>2 DEF SnapshotBegins, At
  <2>2. pc'["menu"] = "snapping"
    BY <1>1, <2>1, GoesTypes DEF Stations
  <2>3. /\ Len(snaps') = Len(snaps) + 1 /\ snaps'[Len(snaps) + 1] = snap["menu"] /\ snaps' # <<>>
        /\ \A i \in 1..Len(snaps) : snaps'[i] = snaps[i]
    BY <1>1, <2>1
  <2>4. \A i \in 1..Len(snaps') : i \in 1..Len(snaps) \/ i = Len(snaps) + 1
    BY <1>1, <2>3
  <2>5. ~hasMeta(snap["menu"]) /\ up = Units /\ Good(bin) /\ entries(snap["menu"].id) = {}
    BY <1>1, <2>1 DEF Whole, Ids, InHand
  <2>6. \A i \in 1..Len(snaps') : hasMeta(snaps'[i]) => Good(snaps'[i].bin)
    BY <2>3, <2>4, <2>5 DEF Whole
  <2>7. entries(snap["menu"].id)' = {Len(snaps')}
    <3>1. \A i \in 1..Len(snaps) : snaps[i].id # snap["menu"].id
      BY <2>5 DEF entries
    <3> QED
      BY <1>1, <2>1, <2>3, <2>4, <3>1 DEF entries
  <2> QED
    BY <2>1, <2>2, <2>3, <2>5, <2>6, <2>7 DEF Whole, Good
<1>3. CASE SnapshotTaken("menu")
  <2> DEFINE s == [snap["menu"] EXCEPT !.bin = bin, !.conf = conf]
  <2>1. conf # NoDir
    BY TreeFields DEF Intact
  <2>2. /\ UNCHANGED <<bin, breaks, up>> /\ pc["menu"] = "snapping" /\ Goes("menu", "snapped")
        /\ snap' = [snap EXCEPT !["menu"] = s] /\ snaps' = prune(filled(s))
    BY <1>3, <2>1 DEF SnapshotTaken, At
  <2>3. s \in Snaps
    BY <1>1, FilledSnap
  <2>4. s.id = snap["menu"].id /\ s.bin = bin /\ s.conf = conf
    BY <1>1 DEF Snaps
  <2> HIDE DEF s
  <2>5. pc'["menu"] = "snapped" /\ snap'["menu"] = s
    BY <1>1, <2>2, GoesTypes DEF Stations, InstallTypes
  <2>6. up = Units /\ Good(bin) /\ snaps # <<>> /\ entries(s.id) = {Len(snaps)}
    BY <2>2, <2>4 DEF Whole
  <2>7. snaps[Len(snaps)].id = s.id
    BY <2>6 DEF entries
  <2>8. PICK f \in Seq(Snaps) : f = filled(s) /\ Len(f) \in Nat
    BY <1>1, <2>3, FilledIs
  <2>9. after(s) = 0 /\ after(s) < Len(f) /\ f[Len(f) - after(s)] = s
    BY <1>1, <2>3, <2>6, <2>7, <2>8, FilledIs
  <2>10. \A j \in 1..Len(f) : f[j] = s \/ \E i \in 1..Len(snaps) : f[j] = snaps[i]
    <3>1. \A j \in 1..Len(filled(s)) : filled(s)[j] = s \/ \E i \in 1..Len(snaps) : filled(s)[j] = snaps[i]
      BY <1>1, <2>3, FilledIs
    <3> QED
      BY <2>8, <3>1
  <2>11. \E m \in 1..Len(snaps') : snaps'[m] = s
    <3>1. Len(f) \in 1..Len(f) /\ Len(f) - Len(f) < Retention /\ Len(f) - 0 = Len(f)
      BY <1>1, <2>8, <2>9
    <3>2. f[Len(f)] = s
      BY <2>9, <3>1
    <3>3. \E m \in 1..Len(prune(f)) : prune(f)[m] = f[Len(f)]
      BY <2>8, <3>1, PruneKeeps
    <3> QED
      BY <2>2, <2>8, <3>2, <3>3
  <2>12. \A m \in 1..Len(snaps') : snaps'[m] = s \/ \E i \in 1..Len(snaps) : snaps'[m] = snaps[i]
    <3>1. \A m \in 1..Len(snaps') : \E j \in 1..Len(f) : snaps'[m] = f[j]
      BY <2>2, <2>8, PruneKeeps
    <3> QED
      BY <2>10, <3>1
  <2>13. ASSUME NEW m \in 1..Len(snaps'), hasMeta(snaps'[m])
         PROVE  Good(snaps'[m].bin)
    BY <2>4, <2>6, <2>12, <2>13 DEF Whole
  <2>14. hasMeta(s)
    BY <2>1, <2>4 DEF hasMeta
  <2> QED
    BY <2>2, <2>5, <2>6, <2>11, <2>13, <2>14 DEF Whole, Good, hasMeta
<1> QED
  BY <1>2, <1>3

(* The binary and the restarts.                                              *)
LEMMA WholeUpdate ==
    ASSUME WayInv, WayInv', Intact, Whole, restores = 0, "menu" \in Hosts, Update("menu")
    PROVE  Whole'
<1> USE DEF installation, config, restoring, counters, history
<1>1. InstallTypes /\ Ids /\ bin \in {"old", "new"} /\ breaks \subseteq Units /\ up \subseteq Units
      /\ updates \in Nat
  BY SnapNumbers DEF WayInv, InstallTypes
<1>2. \A p \in Stations : Goes("menu", p) => pc'["menu"] = p
  BY <1>1, GoesTypes
<1>3. \A i \in 1..Len(snaps) : hasMeta(snaps[i]) => Good(snaps[i].bin)
  BY DEF Whole
<1>4. ASSUME NEW l \in BOOLEAN, Begin("menu", l)
      PROVE  Whole'
  <2>1. /\ UNCHANGED <<bin, breaks, up, snaps>> /\ pc["menu"] = "idle" /\ pc'["menu"] = "verified"
        /\ updates' = updates + 1 /\ snap' = [snap EXCEPT !["menu"] = [NoSnap EXCEPT !.id = updates']]
    BY <1>2, <1>4 DEF Begin, At, Stations
  <2>2. updates' \in 0..MaxUpdates /\ snap'["menu"] = [NoSnap EXCEPT !.id = updates']
    BY <1>1, <2>1, MaintAssumption DEF WayInv, InstallTypes
  <2>3. snap'["menu"].id = updates + 1
    BY <2>1, <2>2, NewSnap
  <2>4. \A i \in 1..Len(snaps) : snaps[i].id # updates + 1
    BY <1>1, SnapNumbers DEF Ids
  <2>5. entries(snap["menu"].id)' = {}
    BY <2>1, <2>3, <2>4 DEF entries
  <2> QED
    BY <2>1, <2>5 DEF Whole, Good
<1>5. CASE Install("menu") \/ Migrate("menu")
  <2>1. /\ UNCHANGED <<breaks, up, snaps, snap>>
        /\ \/ pc["menu"] = "snapped" /\ pc'["menu"] = "installed"
           \/ pc["menu"] = "snapped" /\ pc'["menu"] = "idle" /\ bin' = bin
           \/ pc["menu"] = "installed" /\ pc'["menu"] = "migrated"
    BY <1>2, <1>5 DEF Install, Migrate, At, Stations
  <2> QED
    BY <2>1 DEF Whole, Good
<1>6. CASE RestartPanel("menu") \/ RestartMonitor("menu") \/ RestartTunnels("menu")
  <2>1. UNCHANGED <<bin, breaks, snaps, snap>>
    BY <1>6 DEF RestartPanel, RestartMonitor, RestartTunnels
  <2>2. ASSUME NEW t \in Units, restart({t}, bin)
        PROVE  /\ t \in up' /\ bin' = "new" => t \notin breaks'
               /\ \A q \in Units : q # t /\ Sound(q) => Sound(q)'
    BY <2>1, <2>2 DEF restart, works, Sound
  <2>3. CASE RestartPanel("menu")
    <3>1. pc["menu"] = "migrated" /\ pc'["menu"] = "panel" /\ restart({"panel"}, bin)
      BY <1>2, <2>3 DEF RestartPanel, At, Stations
    <3>2. Sound("panel")'
      BY <2>2, <3>1 DEF Sound, Units
    <3> QED
      BY <2>1, <3>1, <3>2 DEF Whole, Good
  <2>4. CASE RestartMonitor("menu")
    <3>1. pc["menu"] = "panel" /\ pc'["menu"] = "monitor" /\ restart({"monitor"}, bin)
      BY <1>2, <2>4 DEF RestartMonitor, At, Stations
    <3>2. Sound("panel")' /\ Sound("monitor")'
      BY <2>2, <3>1 DEF Sound, Units, Whole
    <3> QED
      BY <2>1, <3>1, <3>2 DEF Whole, Good
  <2>5. CASE RestartTunnels("menu")
    <3>1. pc["menu"] = "monitor" /\ pc'["menu"] = "tunnels" /\ restart({"tunnel"}, bin)
      BY <1>2, <2>5 DEF RestartTunnels, At, Stations
    <3>2. Sound("panel")' /\ Sound("monitor")' /\ Sound("tunnel")'
      BY <2>2, <3>1 DEF Sound, Units, Whole
    <3> QED
      BY <2>1, <3>1, <3>2 DEF Whole, Good
  <2> QED
    BY <1>6, <2>3, <2>4, <2>5
<1>7. CASE HealthCheck("menu")
  <2>1. /\ UNCHANGED <<bin, breaks, up, snaps, snap>> /\ pc["menu"] = "tunnels"
        /\ \/ Units \subseteq up /\ pc'["menu"] = "idle"
           \/ pc'["menu"] = "unhealthy"
    BY <1>2, <1>7 DEF HealthCheck, At, Stations
  <2>2. CASE Units \subseteq up /\ pc'["menu"] = "idle"
    <3>1. up = Units
      BY <1>1, <2>2
    <3>2. Good(bin)
      BY <1>1, <2>1, <3>1 DEF Whole, Sound, Good, Units
    <3> QED
      BY <2>1, <2>2, <3>1, <3>2 DEF Whole, Good
  <2>3. CASE pc'["menu"] = "unhealthy"
    BY <2>1, <2>3 DEF Whole, Good
  <2> QED
    BY <2>1, <2>2, <2>3
<1>8. CASE Rollback("menu")
  <2>1. UNCHANGED <<bin, breaks, up, snaps>> /\ pc["menu"] = "idle" /\ pc'["menu"] = "unhealthy"
    BY <1>2, <1>8 DEF Rollback, At, Stations
  <2>2. PICK i \in 1..Len(snaps) : snap' = [snap EXCEPT !["menu"] = snaps[i]]
    BY <1>8 DEF Rollback
  <2>3. snap'["menu"] = snaps[i]
    BY <1>1, <2>2 DEF InstallTypes
  <2> QED
    BY <2>1, <2>3 DEF Whole, Good
<1>9. CASE RollbackBinary("menu")
  <2>1. /\ UNCHANGED <<breaks, up, snaps, snap>> /\ pc["menu"] = "unhealthy"
        /\ \/ hasMeta(snap["menu"]) /\ pc'["menu"] = "binary" /\ bin' = snap["menu"].bin
           \/ ~hasMeta(snap["menu"]) /\ pc'["menu"] = "idle" /\ bin' = bin
    BY <1>2, <1>9 DEF RollbackBinary, At, Stations, Whole
  <2>2. Good(snap["menu"].bin) \/ ~hasMeta(snap["menu"])
    BY <1>3, <2>1 DEF Whole
  <2> QED
    BY <2>1, <2>2 DEF Whole, Good
<1>10. CASE RollbackConfig("menu")
  <2>1. UNCHANGED <<bin, breaks, up, snaps, snap>> /\ pc["menu"] = "binary" /\ pc'["menu"] = "config"
    BY <1>2, <1>10 DEF RollbackConfig, At, Stations
  <2> QED
    BY <2>1 DEF Whole, Good
<1>11. CASE RollbackRestarts("menu")
  <2>1. UNCHANGED <<bin, breaks, snaps, snap>> /\ pc["menu"] = "config" /\ pc'["menu"] = "idle"
        /\ restart(Units, bin)
    BY <1>2, <1>11 DEF RollbackRestarts, At, Stations
  <2>2. up' = Units
    BY <1>1, <2>1 DEF Whole, Good, Intact, restart, works
  <2> QED
    BY <2>1, <2>2 DEF Whole, Good
<1> QED
  BY <1>4, <1>5, <1>6, <1>7, <1>8, <1>9, <1>10, <1>11, WholeSnapshot DEF Update

LEMMA WholeStep ==
    ASSUME Hosts = {"menu"}
    PROVE  WholeInv /\ Flags /\ [MaintNext]_maintVars => WholeInv'
<1> SUFFICES ASSUME WholeInv, Flags, [MaintNext]_maintVars, ~interrupted', restores' = 0
             PROVE  Whole'
  BY WayStep, IntactStep DEF WholeInv, WayInv
<1> USE DEF installation, config, restoring, counters, updating, history
<1>1. WayInv /\ WayInv' /\ Intact /\ restores \in Nat /\ InstallTypes
  BY WayStep, MaintAssumption DEF WholeInv, WayInv, InstallTypes
<1>2. ASSUME NEW h \in Hosts, Update(h)
      PROVE  Whole'
  <2>1. interrupted' = interrupted
    BY <1>2, Zenon DEF Update, Begin, SnapshotBegins, SnapshotTaken, Install, Migrate, RestartPanel, RestartMonitor,
           RestartTunnels, HealthCheck, Rollback, RollbackBinary, RollbackConfig, RollbackRestarts
  <2>2. restores = 0 /\ h = "menu"
    BY <1>1, <1>2, UpdateKeepsKey
  <2>3. Whole
    BY <2>1, <2>2, Zenon DEF WholeInv
  <2> QED
    BY <1>1, <1>2, <2>2, <2>3, WholeUpdate
<1>3. ASSUME NEW h \in Hosts, KillUpdate(h)
      PROVE  Whole'
  BY <1>3, Zenon DEF KillUpdate
<1>4. CASE Stage
  BY <1>1, <1>4 DEF Stage
<1>5. CASE MoveAside \/ PutInPlace \/ Finish \/ CollectorWrites
  <2>1. restores = 0
    BY <1>5 DEF MoveAside, PutInPlace, Finish, CollectorWrites
  <2>2. rpc = "idle" /\ conf # NoDir
    BY <1>1, <2>1, TreeFields DEF Intact
  <2> QED
    BY <1>5, <2>2 DEF MoveAside, PutInPlace, Finish, CollectorWrites
<1>6. CASE Reboot
  <2>1. ~interrupted /\ \A h \in Hosts : pc[h] = "idle"
    BY <1>6, Zenon DEF Reboot
  <2>2. UNCHANGED <<bin, breaks, snaps, restores>> /\ pc'["menu"] = "idle" /\ restart(Units, bin)
    BY <1>6 DEF Reboot
  <2>3. Whole /\ pc["menu"] = "idle" /\ restores = 0
    BY <2>1, <2>2, Zenon DEF WholeInv
  <2>4. Good(bin) /\ conf.tunnel # "none" /\ up \subseteq Units /\ bin \in {"old", "new"}
    BY <1>1, <2>3 DEF Whole, Intact, InstallTypes
  <2>5. up' = Units
    BY <2>2, <2>4 DEF Good, restart, works
  <2> QED
    BY <2>2, <2>3, <2>4, <2>5 DEF Whole, Good
<1>7. CASE UNCHANGED maintVars
  <2>1. UNCHANGED <<bin, breaks, up, snaps, snap, pc, interrupted, restores>>
    BY <1>7 DEF maintVars
  <2>2. Whole
    BY <2>1, Zenon DEF WholeInv
  <2> QED
    BY <2>1, <2>2 DEF Whole, Good, Sound, entries
<1> QED
  BY <1>2, <1>3, <1>4, <1>5, <1>6, <1>7 DEF MaintNext

(* A release that breaks whichever units leaves no machine with a unit down  *)
(* when every update is started from the menu: they are up, or the update is *)
(* not over, or it was killed, or there was a restore.  In the panel and in  *)
(* the bot an update ends with the restart of its own process, before the    *)
(* health check, and the statement is false.                                 *)
THEOREM MenuNeverLeavesBroken ==
    ASSUME Hosts = {"menu"}
    PROVE  MaintSpec => []NeverLeftBroken
<1>1. MaintInit => WholeInv /\ Flags
  <2> SUFFICES ASSUME MaintInit
               PROVE  WholeInv /\ Flags
    OBVIOUS
  <2>1. snaps = <<>> /\ since = 0 /\ bin = "old" /\ up = Units /\ rpc = "idle" /\ conf.tunnel = "ours"
        /\ \A h \in Hosts : pc[h] = "idle"
    BY DEF MaintInit
  <2>2. Tracked /\ ~Taken /\ Ids
    BY <2>1 DEF Tracked, Taken, Ids, InHand
  <2>3. pc["menu"] = "idle"
    BY <2>1
  <2>4. Intact /\ Whole
    BY <2>1, <2>3 DEF Intact, Whole, Good
  <2> QED
    BY <2>2, <2>4, InitInstallTypes DEF WholeInv, WayInv
<1>2. WholeInv /\ Flags => NeverLeftBroken
  BY Zenon DEF WholeInv, Whole, NeverLeftBroken, AtRest
<1> QED
  BY <1>1, <1>2, FlagsStep, WholeStep, PTL DEF MaintSpec
=============================================================================
