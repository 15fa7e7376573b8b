------------------------------ MODULE Tunnels ------------------------------
(***************************************************************************)
(* The tunnels of one machine as their operators change them: the menu,    *)
(* the web panel, the bot and a managed node's agent are processes of      *)
(* their own that share nothing but the disk and systemd, and take no      *)
(* lock (internal/manage: edit.go, confhist.go, setup.go, webapi.go,       *)
(* directedit.go, directwebapi.go; manage/core/systemd.go, tunnel.go).     *)
(*                                                                         *)
(* A tunnel is a configuration file, a systemd unit and a history of the   *)
(* configurations its edits replaced.  An edit is read, written, started   *)
(* and verified in separate steps, and the process may be cut between any  *)
(* two of them.                                                            *)
(***************************************************************************)
EXTENDS TunnelSpec, Sequences

CONSTANTS Names,        \* tunnel names
          Operators,    \* the processes that edit them
          Forms,        \* the set-up forms and wizards they fill in
          Edits,        \* the edit forms of the panel they send
          Busy,         \* ports another program of the machine holds
          Keep,         \* configurations kept per tunnel (confHistKeep)
          MaxOps        \* bound: operations begun

(* What the panel's form, a wizard and either form of a direct tunnel give. *)
Filled == UNION {specFromNew(f) : f \in Forms}
Wizards == UNION {SetupServer(f) \cup SetupClient(f) : f \in Forms}
Directs == {NewDirectTunnel(p) : p \in Ports}

ASSUME TunnelsAssumption ==
    /\ Keep \in Nat \ {0}
    /\ MaxOps \in Nat
    /\ Offered \subseteq Transports
    /\ Forms \subseteq NewTunnels
    /\ Edits \subseteq TunnelEdits

NoFile == [role |-> "none"]

VARIABLES conf,         \* name -> the configuration file, or NoFile
          svc,          \* name -> its unit
          hist,         \* name -> superseded configurations, newest first
          work,         \* operator -> what it is in the middle of
          ops,          \* operations begun
          owed          \* ghost: the tunnels a working file of which was there to
                        \* go back to, with no edit that overlapped another or was
                        \* cut, and no overflow of the list of superseded files

tunVars == <<conf, svc, hist, work, ops, owed>>

(***************************************************************************)
(* The unit of a tunnel (Type=simple, Restart=always): none, stopped, up   *)
(* with an engine that stays, up with one that is about to die, or between *)
(* a death and the next attempt.                                           *)
(***************************************************************************)
Units == {"none", "stopped", "good", "doomed", "failing"}
IsActive(n) == svc[n] \in {"good", "doomed"}

(***************************************************************************)
(* IsActive answers from a cache two seconds old at most, so of a flapping *)
(* unit it may say either.                                                 *)
(***************************************************************************)
SeenActive(n) == IF svc[n] \in {"doomed", "failing"} THEN {"up", "down"}
                 ELSE IF IsActive(n) THEN {"up"} ELSE {"down"}

(***************************************************************************)
(* Whether an engine started on these settings stays up: a server dies on  *)
(* a port it cannot bind, a client goes on dialling.                       *)
(***************************************************************************)
Works(s) == s # NoFile /\ (s.role = "server" => s.port \notin Busy)

Launched(s) == IF Works(s) THEN "good" ELSE "doomed"

Idle == [stage |-> "idle"]
At(o, stage) == work[o].stage = stage
AtWork(o, n) == ~At(o, "idle") /\ work[o].n = n
Goto(o, stage) == work' = [work EXCEPT ![o].stage = stage]
Done(o) == work' = [work EXCEPT ![o] = Idle]

Start(o, n, stage, s) ==
    /\ At(o, "idle")
    /\ ops < MaxOps
    /\ ops' = ops + 1
    /\ work' = [work EXCEPT ![o] = [stage |-> stage, n |-> n, s |-> s, prev |-> NoFile,
                                    was |-> "down", as |-> "spec", kept |-> <<>>]]
    /\ owed' = IF \E q \in Operators : AtWork(q, n) THEN owed \ {n} ELSE owed

IsReverse(n) == conf[n] # NoFile /\ conf[n].role # "l3"

-----------------------------------------------------------------------------
(***************************************************************************)
(* Asking for a change.                                                    *)
(***************************************************************************)

(* A menu screen is opened and drawn.                                       *)
manageOne(o, n) ==
    /\ conf[n] # NoFile
    /\ Start(o, n, IF conf[n].role = "l3" THEN "direct" ELSE "screen", conf[n])
    /\ UNCHANGED <<conf, svc, hist>>

(* The operator answers it; the settings are read again.  A port another    *)
(* tunnel's engine or another program listens on is refused here only.      *)
Confirm(o) ==
    /\ At(o, "screen")
    /\ LET n == work[o].n
           free == Ports \ (Busy \cup {conf[q].port : q \in {r \in Names :
                                IsReverse(r) /\ conf[r].role = "server" /\ IsActive(r)}})
       IN  \/ \E s \in IF IsReverse(n) THEN editPortsMenu(work[o].s, conf[n], free)
                                              \cup pinPrimaryExit(conf[n])
                                     ELSE {} :
                 work' = [work EXCEPT ![o].stage = "apply", ![o].s = s]
           \/ Done(o)
    /\ UNCHANGED <<conf, svc, hist, ops, owed>>

(* The panel's form is applied to settings read as the request arrives.     *)
PanelEdit(o, n) ==
    /\ IsReverse(n)
    /\ \E e \in Edits : \E s \in EditTunnelSettings(conf[n], e) : Start(o, n, "apply", s)
    /\ UNCHANGED <<conf, svc, hist>>

(* A node puts the tunnel in the state it was sent, there or not.           *)
ApplyTunnel(o, n) ==
    /\ \E s \in Filled : Start(o, n, IF conf[n] = NoFile THEN "new" ELSE "apply", s)
    /\ UNCHANGED <<conf, svc, hist>>

(* The panel or a node creates one: the name is checked, the port is not.   *)
CreateTunnel(o, n) ==
    /\ conf[n] = NoFile
    /\ \E s \in Filled : Start(o, n, "new", s)
    /\ UNCHANGED <<conf, svc, hist>>

CreateDirectTunnel(o, n) ==
    /\ conf[n] = NoFile
    /\ \E s \in Directs : Start(o, n, "new", s)
    /\ UNCHANGED <<conf, svc, hist>>

(* The setup wizard checks the name on its first page (uniqueName) ...      *)
uniqueName(o, n) ==
    /\ conf[n] = NoFile
    /\ Start(o, n, "wizard", NoFile)
    /\ UNCHANGED <<conf, svc, hist>>

portClash(n, s) ==
    \E q \in Names \ {n} : /\ conf[q] # NoFile
                           /\ conf[q].role = s.role
                           /\ conf[q].port = s.port

(* ... and the port on its last, unless the tunnel is a direct one.         *)
finishSetup(o) ==
    /\ At(o, "wizard")
    /\ \E s \in Wizards :
          IF portClash(work[o].n, s) THEN Done(o)
          ELSE work' = [work EXCEPT ![o].stage = "new", ![o].s = s]
    /\ UNCHANGED <<conf, svc, hist, ops, owed>>

setupL3(o) ==
    /\ At(o, "wizard")
    /\ \E s \in Directs : work' = [work EXCEPT ![o].stage = "new", ![o].s = s]
    /\ UNCHANGED <<conf, svc, hist, ops, owed>>

(* A superseded configuration is put back, verbatim.                        *)
RestoreConfigFrom(o, n) ==
    /\ \E i \in DOMAIN hist[n] : Start(o, n, "restore", hist[n][i])
    /\ UNCHANGED <<conf, svc, hist>>

-----------------------------------------------------------------------------
(***************************************************************************)
(* applySpec and applyRawConfig: remember, write, start, restart, verify,  *)
(* and file what was replaced.                                             *)
(***************************************************************************)
Apply(o) ==
    /\ At(o, "apply") \/ At(o, "restore")
    /\ LET n == work[o].n
       IN  IF conf[n] = NoFile THEN Done(o)
           ELSE \E was \in SeenActive(n) :
                  work' = [work EXCEPT ![o].stage = "write", ![o].prev = conf[n],
                                       ![o].was = was,
                                       ![o].as = IF At(o, "restore") THEN "raw" ELSE "spec"]
    /\ UNCHANGED <<conf, svc, hist, ops, owed>>

Write(o) ==
    /\ At(o, "write")
    /\ LET w == work[o]
       IN  \/ /\ conf' = [conf EXCEPT ![w.n] = IF w.as = "raw" THEN w.s ELSE Render(w.s)]
              /\ Goto(o, IF w.as = "raw" THEN "restart" ELSE "start")
           \/ conf' = [conf EXCEPT ![w.n] = w.prev] /\ Done(o)
    /\ UNCHANGED <<svc, hist, ops, owed>>

(* The rest of Save: the unit file, daemon-reload, enable --now.  On an     *)
(* error the old file goes back and nothing is restarted.                   *)
SaveStart(o) ==
    /\ At(o, "start")
    /\ LET w == work[o]
       IN  \/ /\ svc' = [svc EXCEPT ![w.n] = IF IsActive(w.n) THEN @ ELSE Launched(conf[w.n])]
              /\ Goto(o, "restart")
              /\ UNCHANGED conf
           \/ conf' = [conf EXCEPT ![w.n] = w.prev] /\ Done(o) /\ UNCHANGED svc
    /\ UNCHANGED <<hist, ops, owed>>

Relaunch(n) == svc' = [svc EXCEPT ![n] = Launched(conf[n])]

Restart(o) ==
    /\ At(o, "restart")
    /\ \/ svc[work[o].n] # "none" /\ Relaunch(work[o].n) /\ Goto(o, "verify")
       \/ UNCHANGED svc /\ Goto(o, "revert")
    /\ UNCHANGED <<conf, hist, ops, owed>>

(* Active at any poll of ten seconds is taken for running.                  *)
WaitServiceActive(o) ==
    /\ At(o, "verify")
    /\ Goto(o, IF IsActive(work[o].n) THEN "file" ELSE "revert")
    /\ UNCHANGED <<conf, svc, hist, ops, owed>>

revertSpec(o) ==
    /\ At(o, "revert")
    /\ conf' = [conf EXCEPT ![work[o].n] = work[o].prev]
    /\ Goto(o, "back")
    /\ UNCHANGED <<svc, hist, ops, owed>>

revertService(o) ==
    /\ At(o, "back")
    /\ LET n == work[o].n
       IN  svc' = [svc EXCEPT ![n] = IF @ = "none" THEN @
                                     ELSE IF work[o].was = "up" THEN Launched(conf[n]) ELSE "stopped"]
    /\ Done(o)
    /\ UNCHANGED <<conf, hist, ops, owed>>

(* recordConfigChange reads the list, puts one entry in front, caps it and  *)
(* writes it all back.                                                      *)
ConfigHistory(o) ==
    /\ At(o, "file")
    /\ work' = [work EXCEPT ![o].stage = "record", ![o].kept = hist[work[o].n]]
    /\ UNCHANGED <<conf, svc, hist, ops, owed>>

Capped(h) == SubSeq(h, 1, IF Len(h) > Keep THEN Keep ELSE Len(h))

filesTheNew(o) ==
    /\ At(o, "record")
    /\ hist' = [hist EXCEPT ![work[o].n] = Capped(<<conf[work[o].n]>> \o work[o].kept)]
    /\ owed' = IF Len(work[o].kept) < Keep THEN owed ELSE owed \ {work[o].n}
    /\ Done(o)
    /\ UNCHANGED <<conf, svc, ops>>

recordConfigChange(o) ==
    /\ At(o, "record")
    /\ hist' = [hist EXCEPT ![work[o].n] = Capped(<<work[o].prev>> \o work[o].kept)]
    /\ owed' = IF Len(work[o].kept) < Keep THEN owed ELSE owed \ {work[o].n}
    /\ Done(o)
    /\ UNCHANGED <<conf, svc, ops>>

-----------------------------------------------------------------------------
(***************************************************************************)
(* Changes without a way back: a new tunnel, an edit of a layer-3 tunnel.  *)
(***************************************************************************)

(* Save of a new tunnel: the file, then the unit.  A name taken since it    *)
(* was checked is overwritten.                                              *)
SaveNew(o) ==
    /\ At(o, "new")
    /\ LET n == work[o].n
       IN  /\ conf' = [conf EXCEPT ![n] = Render(work[o].s)]
           /\ owed' = IF /\ conf[n] = NoFile
                         /\ Works(work[o].s)
                         /\ \A q \in Operators \ {o} : ~AtWork(q, n)
                      THEN owed \cup {n} ELSE owed \ {n}
    /\ Goto(o, "launch")
    /\ UNCHANGED <<svc, hist, ops>>

StartNew(o) ==
    /\ At(o, "launch")
    /\ LET n == work[o].n
       IN  \/ svc' = [svc EXCEPT ![n] = IF IsActive(n) THEN @ ELSE Launched(conf[n])]
           \/ UNCHANGED svc
    /\ Done(o)
    /\ UNCHANGED <<conf, hist, ops, owed>>

(* The whole file is written from what was read when the screen opened.     *)
SaveL3(o) ==
    /\ At(o, "direct")
    /\ \/ /\ conf' = [conf EXCEPT ![work[o].n] = work[o].s]
          /\ Goto(o, "relaunch")
       \/ Done(o) /\ UNCHANGED conf
    /\ UNCHANGED <<svc, hist, ops, owed>>

RestartL3(o) ==
    /\ At(o, "relaunch")
    /\ \/ svc[work[o].n] # "none" /\ Relaunch(work[o].n)
       \/ UNCHANGED svc
    /\ Done(o)
    /\ UNCHANGED <<conf, hist, ops, owed>>

-----------------------------------------------------------------------------
(***************************************************************************)
(* The rest of an operator's verbs.  Deleting leaves the history.          *)
(***************************************************************************)
Delete(o, n) ==
    /\ conf[n] # NoFile
    /\ Start(o, n, "delete", conf[n])
    /\ svc' = [svc EXCEPT ![n] = IF @ = "none" THEN @ ELSE "stopped"]
    /\ UNCHANGED <<conf, hist>>

removeTunnel(o) ==
    /\ At(o, "delete")
    /\ conf' = [conf EXCEPT ![work[o].n] = NoFile]
    /\ svc' = [svc EXCEPT ![work[o].n] = "none"]
    /\ owed' = owed \ {work[o].n}
    /\ Done(o)
    /\ UNCHANGED <<hist, ops>>

StartService(n) ==
    /\ ops < MaxOps /\ ops' = ops + 1
    /\ svc[n] \in {"stopped", "failing"}
    /\ Relaunch(n)
    /\ UNCHANGED <<conf, hist, work, owed>>

StopService(n) ==
    /\ ops < MaxOps /\ ops' = ops + 1
    /\ svc[n] # "none"
    /\ svc' = [svc EXCEPT ![n] = "stopped"]
    /\ UNCHANGED <<conf, hist, work, owed>>

RestartService(n) ==
    /\ ops < MaxOps /\ ops' = ops + 1
    /\ svc[n] # "none"
    /\ Relaunch(n)
    /\ UNCHANGED <<conf, hist, work, owed>>

(* An engine that cannot run dies, and systemd starts it again.             *)
Die(n) ==
    /\ svc[n] = "doomed"
    /\ svc' = [svc EXCEPT ![n] = "failing"]
    /\ UNCHANGED <<conf, hist, work, ops, owed>>

AutoRestart(n) ==
    /\ svc[n] = "failing"
    /\ Relaunch(n)
    /\ UNCHANGED <<conf, hist, work, ops, owed>>

(* An operator's process ends in the middle.                                *)
Cut(o) ==
    /\ ~At(o, "idle")
    /\ owed' = owed \ {work[o].n}
    /\ Done(o)
    /\ UNCHANGED <<conf, svc, hist, ops>>

-----------------------------------------------------------------------------
TunInit ==
    /\ conf \in [Names -> {NoFile} \cup {Render(s) : s \in Filled \cup Directs}]
    /\ svc = [n \in Names |-> IF conf[n] = NoFile THEN "none" ELSE Launched(conf[n])]
    /\ hist = [n \in Names |-> <<>>]
    /\ work = [o \in Operators |-> Idle]
    /\ ops = 0
    /\ owed = {n \in Names : Works(conf[n])}

Begin(o, n) ==
    \/ manageOne(o, n) \/ PanelEdit(o, n) \/ ApplyTunnel(o, n) \/ CreateTunnel(o, n)
    \/ CreateDirectTunnel(o, n) \/ uniqueName(o, n) \/ RestoreConfigFrom(o, n) \/ Delete(o, n)

Step(o) ==
    \/ Confirm(o) \/ finishSetup(o) \/ setupL3(o) \/ Apply(o) \/ Write(o) \/ SaveStart(o) \/ Restart(o)
    \/ WaitServiceActive(o) \/ revertSpec(o) \/ revertService(o) \/ ConfigHistory(o)
    \/ recordConfigChange(o) \/ SaveNew(o) \/ StartNew(o) \/ SaveL3(o) \/ RestartL3(o)
    \/ removeTunnel(o) \/ Cut(o)

System(n) ==
    \/ StartService(n) \/ StopService(n) \/ RestartService(n) \/ Die(n) \/ AutoRestart(n)

TunNext ==
    \/ \E o \in Operators : Step(o) \/ \E n \in Names : Begin(o, n)
    \/ \E n \in Names : System(n)

TunSpec == TunInit /\ [][TunNext]_tunVars

-----------------------------------------------------------------------------
Stages == {"screen", "apply", "restore", "write", "start", "restart", "verify", "revert", "back",
           "file", "record", "wizard", "new", "launch", "direct", "relaunch", "delete"}

Files == TunnelSpecs \cup {NoFile}

(* The state of the disk, of systemd and of every operator has its type.    *)
TunTypeOK ==
    /\ conf \in [Names -> Files]
    /\ svc \in [Names -> Units]
    /\ hist \in [Names -> Seq(TunnelSpecs)]
    /\ work \in [Operators -> {Idle} \cup
                     [stage: Stages, n: Names, s: Files, prev: Files, was: {"up", "down"},
                      as: {"spec", "raw"}, kept: Seq(TunnelSpecs)]]
    /\ ops \in 0 .. MaxOps
    /\ owed \in SUBSET Names

HistWorks(n) == \E i \in DOMAIN hist[n] : Works(hist[n][i])

(* Every configuration file an edit leaves, and every one kept to go back  *)
(* to, gives its carrier what it needs: whatever sequence of carrier,      *)
(* profile and form changes led there, by however many operators at once.  *)
(* (switchTransport, edit.go:368, fills what the file, which holds only    *)
(* the current carrier's settings, has forgotten; SetLoadBalance,          *)
(* edit.go:406, retires failover.)                                         *)
ConfigUsable ==
    \A n \in Names : /\ conf[n] # NoFile => Fits(conf[n])
                     /\ \A i \in DOMAIN hist[n] : Fits(hist[n][i])

(* "A bad edit can never leave the user with a dead tunnel and a lost      *)
(* config" (applySpec, edit.go:578): a working configuration, once there,  *)
(* is the file, or in the history, or in the hands of the operator at      *)
(* work - also when a dead engine was seen active and the edit accepted -  *)
(* as long as edits of the tunnel neither overlap nor are cut, and no more *)
(* than the history keeps have been made.                                  *)
WayBackKept ==
    \A n \in owed :
        \/ Works(conf[n])
        \/ HistWorks(n)
        \/ \E o \in Operators : AtWork(o, n) /\ Works(work[o].prev)
=============================================================================
