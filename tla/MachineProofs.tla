---------------------------- MODULE MachineProofs ----------------------------
(***************************************************************************)
(* Proofs about three parts of one machine.                                *)
(*                                                                         *)
(* RevServer: however many runs, connections and failures overlap, at most *)
(* one run of the reverse server is live and it is the one Restart can     *)
(* cancel.  And type correctness, which needs a fact about the run being   *)
(* installed.                                                              *)
(*                                                                         *)
(* Tunnels, for any number of tunnels, operators, ports and forms: every   *)
(* configuration that is written, kept or about to be written is sound     *)
(* (its carrier has what it needs), and a lone edit never loses the way    *)
(* back to a working one.                                                  *)
(*                                                                         *)
(* RevUdp, for any number of users, sockets and runs: every flow that      *)
(* holds a slot of the limiter is counted once, and no address or socket   *)
(* stays in a table with nobody to read what is filed with it.             *)
(***************************************************************************)
EXTENDS RevServer, Tunnels, RevUdp, FiniteSetTheorems, SequenceTheorems, TLAPS

(* What OneLiveRun rests on: from the moment Restart has cancelled the       *)
(* installed run until it installs the next one, no run is live at all.      *)
Between == restart \in {"stopped", "closed", "waited"} => ctx[run] = "done"

RunTypes == /\ run \in Runs /\ ctx \in [Runs -> {"live", "done"}]
            /\ restart \in RestartAt

RInv == RunTypes /\ OneLiveRun /\ Between

(* NewTCPServer installs one run and no restart is under way.                *)
LEMMA InitRInv == Init => RInv
<1>1. 1 \in Runs
  BY BoundsAssumption DEF Runs
<1> QED
  BY <1>1 DEF Init, RInv, RunTypes, OneLiveRun, Between, RestartAt

(* Goroutines of a run never touch the contexts or the restart in progress.  *)
LEMMA RunStepRInv ==
    ASSUME RInv, NEW g \in Runs, RunStep(g)
    PROVE  RInv'
<1>1. UNCHANGED <<run, ctx, restart>>
  <2>1. CASE StarterStep(g)
    BY <2>1 DEF StarterStep, start, HandshakeEnded, HandshakeTakes, PublishNonce,
                PublishControl, ReportPeer, StartConnected, server
  <2>2. CASE ListenerStep(g)
    BY <2>2 DEF ListenerStep, ListenerHolds, ListenerBinds, ListenerReleases, server
  <2>3. CASE ReaderStep(g)
    BY <2>3 DEF ReaderStep, ReaderTop, ReaderHears, ReaderFails, server
  <2>4. CASE HandlerStep(g) \/ HandlerWriteFails(g)
    BY <2>4 DEF HandlerStep, HandlerWriteFails, HandlerRTT, HandlerRTTFails, HandlerClosed,
                HandlerEnds, HandlerAsks, server
  <2> QED
    BY <2>1, <2>2, <2>3, <2>4 DEF RunStep
<1> QED
  BY <1>1 DEF RInv, RunTypes, OneLiveRun, Between

(* Nor do the client and the admission of its claims.                        *)
LEMMA ClientStepRInv ==
    ASSUME RInv, NEW c \in Conns, ClientStep(c)
    PROVE  RInv'
<1>1. UNCHANGED <<run, ctx, restart>>
  BY DEF ClientStep, ClientDials, ClientNotices, ClientFails, AdmitAnswers, AdmitOffers, server
<1> QED
  BY <1>1 DEF RInv, RunTypes, OneLiveRun, Between

(* A call of Restart cancels the installed run when it gets the mutex and    *)
(* does nothing when it does not.                                            *)
LEMMA RestartCallRInv ==
    ASSUME RInv, NEW x \in calls, RestartCall(x)
    PROVE  RInv'
<1>1. CASE RestartBegins(x)
  BY <1>1 DEF RestartBegins, RInv, RunTypes, OneLiveRun, Between, RestartAt
<1>2. CASE RestartSkipped(x)
  BY <1>2 DEF RestartSkipped, RInv, RunTypes, OneLiveRun, Between, server
<1> QED
  BY <1>1, <1>2 DEF RestartCall

(* The steps of a Restart that holds the mutex: only RestartInstalls makes a *)
(* run live, and it does so when none is.                                    *)
LEMMA RestartStepRInv ==
    ASSUME RInv, RestartStep
    PROVE  RInv'
<1>1. ASSUME NEW g \in Runs, RestartInstalls(g)
      PROVE  RInv'
  <2>1. \A h \in Runs : ctx[h] = "done"
    BY <1>1 DEF RestartInstalls, RInv, RunTypes, OneLiveRun, Between
  <2> QED
    BY <1>1, <2>1 DEF RestartInstalls, RInv, RunTypes, OneLiveRun, Between, RestartAt
<1>2. CASE RestartCloses \/ RestartWaited
  BY <1>2 DEF RestartCloses, RestartWaited, RInv, RunTypes, OneLiveRun, Between, RestartAt, server
<1>3. CASE RestartAbandoned \/ RestartClearsControl \/ RestartStarts \/ RestartUnlocks
  BY <1>3 DEF RestartAbandoned, RestartClearsControl, RestartStarts, RestartUnlocks,
              RInv, RunTypes, OneLiveRun, Between, RestartAt, server
<1> QED
  BY <1>1, <1>2, <1>3 DEF RestartStep

(* Every step of the specification keeps the invariant.                      *)
LEMMA StepRInv == RInv /\ [Next]_vars => RInv'
<1> SUFFICES ASSUME RInv, [Next]_vars
             PROVE  RInv'
  OBVIOUS
<1>1. CASE ParentEnds
  BY <1>1 DEF ParentEnds, RInv, RunTypes, OneLiveRun, Between
<1>2. CASE UNCHANGED vars
  BY <1>2 DEF vars, server, RInv, RunTypes, OneLiveRun, Between
<1> QED
  BY <1>1, <1>2, RunStepRInv, ClientStepRInv, RestartCallRInv, RestartStepRInv DEF Next

(* However many runs, connections and failures there are: at any moment at   *)
(* most one run is live, and it is the one whose cancel function s.run       *)
(* holds.                                                                    *)
THEOREM OneRun == Spec => []OneLiveRun
<1>1. RInv => OneLiveRun
  BY DEF RInv
<1> QED
  BY InitRInv, StepRInv, <1>1, PTL DEF Spec

------------------------------------------------------------------------------
(* Type correctness.  TypeOK says that start(g) holds a candidate exactly    *)
(* while it publishes one, which `go s.start(g)` keeps only because the run  *)
(* Restart installs has no start() of its own yet.                           *)
Fresh == restart \in {"installed", "uncontrolled"} => starter[run] = "none"

USE DEF StarterAt, ListenerAt, RestartAt

(* start(g) and channelHandshake keep every variable in its type.            *)
LEMMA StarterType ==
    ASSUME TypeOK, NEW g \in Runs, StarterStep(g)
    PROVE  TypeOK'
<1>1. CASE start(g)
  BY <1>1 DEF TypeOK, start, server, links
<1>2. CASE HandshakeTakes(g)
  BY <1>2 DEF TypeOK, HandshakeTakes, server, links
<1>3. CASE PublishNonce(g)
  BY <1>3 DEF TypeOK, PublishNonce, NonceOf, server, links
<1>4. CASE PublishControl(g)
  BY <1>4 DEF TypeOK, PublishControl, server, links
<1>5. CASE ReportPeer(g)
  BY <1>5 DEF TypeOK, ReportPeer, Checked, server, links
<1>6. CASE HandshakeEnded(g)
  BY <1>6 DEF TypeOK, HandshakeEnded, Checked, server, links
<1>7. CASE StartConnected(g)
  BY <1>7 DEF TypeOK, StartConnected, server, links
<1> QED
  BY <1>1, <1>2, <1>3, <1>4, <1>5, <1>6, <1>7 DEF StarterStep

(* So do tunnelListener and the reader of the control channel.               *)
LEMMA ListenerReaderType ==
    ASSUME TypeOK, NEW g \in Runs, ListenerStep(g) \/ ReaderStep(g)
    PROVE  TypeOK'
<1>1. CASE ListenerHolds(g)
  BY <1>1 DEF TypeOK, ListenerHolds, server, links
<1>2. CASE ListenerBinds(g)
  BY <1>2 DEF TypeOK, ListenerBinds, server, links
<1>3. CASE ListenerReleases(g)
  BY <1>3 DEF TypeOK, ListenerReleases, server, links
<1>4. CASE ReaderTop(g)
  BY <1>4 DEF TypeOK, ReaderTop, server, links
<1>5. CASE ReaderHears(g)
  BY <1>5 DEF TypeOK, ReaderHears, server, links
<1>6. CASE ReaderFails(g)
  BY <1>6 DEF TypeOK, ReaderFails, Callers, server, links
<1> QED
  BY <1>1, <1>2, <1>3, <1>4, <1>5, <1>6 DEF ListenerStep, ReaderStep

(* So does channelHandler.                                                   *)
LEMMA HandlerType ==
    ASSUME TypeOK, NEW g \in Runs, HandlerStep(g) \/ HandlerWriteFails(g)
    PROVE  TypeOK'
<1>1. CASE HandlerRTT(g)
  BY <1>1 DEF TypeOK, HandlerRTT, server, links
<1>2. CASE HandlerRTTFails(g)
  BY <1>2 DEF TypeOK, HandlerRTTFails, HandlerAsks, Callers, server, links
<1>3. CASE HandlerWriteFails(g)
  BY <1>3 DEF TypeOK, HandlerWriteFails, HandlerAsks, Callers, server, links
<1>4. CASE HandlerClosed(g)
  BY <1>4 DEF TypeOK, HandlerClosed, HandlerAsks, Callers, server, links
<1>5. CASE HandlerEnds(g)
  BY <1>5 DEF TypeOK, HandlerEnds, WriteMayPass, server, links
<1> QED
  BY <1>1, <1>2, <1>3, <1>4, <1>5 DEF HandlerStep

(* A client's claim, offered, dropped or turned into a restart.              *)
LEMMA AdmitOffersType ==
    ASSUME TypeOK, NEW c \in Conns, AdmitOffers(c)
    PROVE  TypeOK'
<1>1. home[c] \in Runs
  BY DEF TypeOK
<1>2. <<"claim", home[c], c>> \in Callers
  BY <1>1 DEF Callers
<1>3. calls' \subseteq Callers /\ sock' \in [Conns -> {"dialled", "acked", "offered", "shut"}]
  BY <1>2 DEF TypeOK, AdmitOffers
<1>4. inbox' \in [Runs -> Conns \cup {None}]
  BY <1>1 DEF TypeOK, AdmitOffers
<1>5. home' \in [Conns -> Runs] /\ path' \in [Conns -> {"up", "told", "bye", "eof", "dead"}]
  BY BoundsAssumption DEF TypeOK, AdmitOffers, Runs
<1> QED
  BY <1>3, <1>4, <1>5 DEF TypeOK, AdmitOffers, server

(* The client's steps and the admission of its claims.                       *)
LEMMA ClientType ==
    ASSUME TypeOK, NEW c \in Conns, ClientStep(c)
    PROVE  TypeOK'
<1>1. ASSUME NEW g \in Runs, ClientDials(c, g)
      PROVE  TypeOK'
  BY <1>1 DEF TypeOK, ClientDials, server, goroutines, links
<1>2. ASSUME NEW how \in {"bye", "eof", "dead"}, ClientFails(c, how)
      PROVE  TypeOK'
  BY <1>2, BoundsAssumption DEF TypeOK, ClientFails, server, goroutines, links
<1>3. CASE ClientNotices(c)
  BY <1>3 DEF TypeOK, ClientNotices, server, goroutines, links
<1>4. CASE AdmitAnswers(c)
  BY <1>4 DEF TypeOK, AdmitAnswers, server, goroutines, links
<1> QED
  BY <1>1, <1>2, <1>3, <1>4, AdmitOffersType DEF ClientStep

(* Restart, and the end of the parent context.                               *)
LEMMA RestartType ==
    ASSUME TypeOK, Fresh, RestartStep \/ ParentEnds \/ \E x \in calls : RestartCall(x)
    PROVE  TypeOK'
<1>1. ASSUME NEW x \in calls, RestartBegins(x) \/ RestartSkipped(x)
      PROVE  TypeOK'
  BY <1>1 DEF TypeOK, RestartBegins, RestartSkipped, server, goroutines, links
<1>2. ASSUME NEW g \in Runs, RestartInstalls(g)
      PROVE  TypeOK'
  BY <1>2 DEF TypeOK, RestartInstalls, server, goroutines, links
<1>3. CASE RestartCloses
  BY <1>3 DEF TypeOK, RestartCloses, server, goroutines, links
<1>4. CASE RestartWaited \/ RestartUnlocks
  BY <1>4 DEF TypeOK, RestartWaited, RestartUnlocks, server, goroutines, links
<1>8. CASE RestartAbandoned
  BY <1>8 DEF TypeOK, RestartAbandoned, server, goroutines, links
<1>5. CASE RestartClearsControl
  BY <1>5 DEF TypeOK, RestartClearsControl, server, goroutines, links
<1>6. CASE RestartStarts
  <2>1. hold[run] = None
    BY <1>6 DEF RestartStarts, TypeOK, Fresh
  <2>2. /\ starter' \in [Runs -> StarterAt]
        /\ \A g \in Runs : hold'[g] # None <=> starter'[g] \in {"taken", "nonced", "published"}
    BY <1>6, <2>1 DEF TypeOK, RestartStarts, StarterAt
  <2>3. peer' \in BOOLEAN /\ nonce' \in Conns \cup {None} /\ restart' \in RestartAt
    BY <1>6 DEF RestartStarts, RestartAt
  <2> QED
    BY <1>6, <2>2, <2>3 DEF TypeOK, RestartStarts, links
<1>7. CASE ParentEnds
  BY <1>7 DEF TypeOK, ParentEnds, server, goroutines, links
<1> QED
  BY <1>1, <1>2, <1>3, <1>4, <1>5, <1>6, <1>7, <1>8 DEF RestartStep, RestartCall

(* No step gives the installed run a start() before RestartStarts does.      *)
LEMMA FreshStep == TypeOK /\ Fresh /\ [Next]_vars => Fresh'
<1> SUFFICES ASSUME TypeOK, Fresh, [Next]_vars
             PROVE  Fresh'
  OBVIOUS
<1>1. ASSUME NEW g \in Runs, StarterStep(g)
      PROVE  Fresh'
  BY <1>1 DEF TypeOK, Fresh, StarterStep, start, HandshakeEnded, HandshakeTakes, PublishNonce,
              PublishControl, ReportPeer, StartConnected, server
<1>2. ASSUME NEW g \in Runs, ListenerStep(g) \/ ReaderStep(g)
      PROVE  Fresh'
  BY <1>2 DEF Fresh, ListenerStep, ListenerHolds, ListenerBinds, ListenerReleases,
              ReaderStep, ReaderTop, ReaderHears, ReaderFails, server
<1>3. ASSUME NEW g \in Runs, HandlerStep(g) \/ HandlerWriteFails(g)
      PROVE  Fresh'
  BY <1>3 DEF Fresh, HandlerStep, HandlerWriteFails, HandlerRTT, HandlerRTTFails, HandlerClosed,
              HandlerEnds, HandlerAsks, server
<1>4. ASSUME NEW c \in Conns, ClientStep(c)
      PROVE  Fresh'
  BY <1>4 DEF Fresh, ClientStep, ClientDials, ClientNotices, ClientFails, AdmitAnswers,
              AdmitOffers, server, goroutines
<1>5. ASSUME NEW x \in calls, RestartCall(x)
      PROVE  Fresh'
  BY <1>5 DEF Fresh, RestartCall, RestartBegins, RestartSkipped, server, goroutines
<1>6. ASSUME NEW g \in Runs, RestartInstalls(g)
      PROVE  Fresh'
  BY <1>6 DEF Fresh, RestartInstalls, RunFree
<1>7. CASE RestartCloses \/ RestartWaited \/ RestartAbandoned \/ RestartStarts \/ RestartUnlocks
  BY <1>7 DEF Fresh, RestartCloses, RestartWaited, RestartAbandoned, RestartStarts, RestartUnlocks,
              server, goroutines
<1>8. CASE RestartClearsControl \/ ParentEnds \/ UNCHANGED vars
  BY <1>8 DEF Fresh, RestartClearsControl, ParentEnds, vars, server, goroutines
<1> QED
  BY <1>1, <1>2, <1>3, <1>4, <1>5, <1>6, <1>7, <1>8 DEF Next, RunStep, RestartStep

(* The server's variables keep their types, and start() publishes nothing    *)
(* but a candidate it has received.                                          *)
THEOREM Types == Spec => []TypeOK
<1>1. Init => TypeOK /\ Fresh
  <2>1. 1 \in Runs /\ 0 \in 0..MaxFaults
    BY BoundsAssumption DEF Runs
  <2>2. Init => Fresh
    BY DEF Init, Fresh
  <2>3. Init => parent \in BOOLEAN /\ peer \in BOOLEAN /\ msg \in [Runs -> BOOLEAN]
    <3>1. Init => parent \in BOOLEAN
      BY Zenon DEF Init
    <3>2. Init => peer \in BOOLEAN
      BY Zenon DEF Init
    <3>3. Init => msg \in [Runs -> BOOLEAN]
      BY SMT DEF Init
    <3> QED
      BY <3>1, <3>2, <3>3
  <2>4. Init => TypeOK
    BY <2>1, <2>3 DEF Init, TypeOK
  <2> QED
    BY <2>2, <2>4
<1>2. TypeOK /\ Fresh /\ [Next]_vars => TypeOK'
  <2> SUFFICES ASSUME TypeOK, Fresh, [Next]_vars
               PROVE  TypeOK'
    OBVIOUS
  <2>1. CASE UNCHANGED vars
    BY <2>1 DEF TypeOK, vars, server, goroutines, links
  <2> QED
    BY <2>1, StarterType, ListenerReaderType, HandlerType, ClientType, RestartType
       DEF Next, RunStep
<1> QED
  BY <1>1, <1>2, FreshStep, PTL DEF Spec

-----------------------------------------------------------------------------
Sound(s) == s \in TunnelSpecs /\ Fits(s)
Sounds == {s \in TunnelSpecs : Fits(s)}

-----------------------------------------------------------------------------
(***************************************************************************)
(* What the edits do to sound settings.                                    *)
(***************************************************************************)

\* Settings are not the absence of a file.
LEMMA SpecIsFile == ASSUME NEW s \in TunnelSpecs PROVE s # NoFile
<1>1. NoFile.role = "none"
  BY DEF NoFile
<1>2. s.role # "none"
  BY DEF TunnelSpecs
<1> QED BY <1>1, <1>2

\* A carrier needs nothing but knobs and a certificate.
LEMMA NeedsAreSettings == \A r, t : Needs(r, t) \subseteq {"mux", "kcp", "cert"}
BY DEF Needs

\* Adding a setting keeps settings sound, unless both uses of the backups result.
LEMMA WithSound ==
  ASSUME NEW s, Sound(s), NEW X \in SUBSET Settings, ~({"lb", "hf"} \subseteq s.has \cup X)
  PROVE  Sound(With(s, X))
BY DEF Sound, TunnelSpecs, Fits, With

\* Taking away one that no carrier needs keeps settings sound.
LEMMA WithoutSound ==
  ASSUME NEW s, Sound(s), NEW X, X \cap {"mux", "kcp", "cert"} = {}
  PROVE  Sound(Without(s, X))
BY NeedsAreSettings DEF Sound, TunnelSpecs, Fits, Without

\* What reaches the file of sound settings is sound: Render drops nothing the
\* carrier needs, and leaves role and port alone.
LEMMA RenderSound == ASSUME NEW s, Sound(s) PROVE Sound(Render(s)) /\ Works(Render(s)) = Works(s)
<1>1. Sound(Render(s))
  BY DEF Sound, Render, Fits, TunnelSpecs, Needs
<1>2. /\ Render(s).role = s.role
      /\ Render(s).port = s.port
  BY DEF Sound, Render, TunnelSpecs
<1>3. s # NoFile /\ Render(s) # NoFile
  BY <1>1, SpecIsFile DEF Sound
<1> QED BY <1>1, <1>2, <1>3 DEF Works

\* Every carrier the switch leads to gets what it needs, whatever the file had
\* forgotten of it.
LEMMA SwitchSound ==
  ASSUME NEW s, Sound(s), NEW t \in Transports PROVE Sound(switchTransport(s, t))
BY NeedsAreSettings DEF Sound, switchTransport, With, Fits, TunnelSpecs, Settings

\* So does every profile.
LEMMA PresetSound == ASSUME NEW s, Sound(s), NEW p \in Presets PROVE Sound(ApplyPreset(s, p))
BY DEF Sound, ApplyPreset, With, Fits, TunnelSpecs, Settings

\* Another port keeps settings sound.
LEMMA PortSound == ASSUME NEW s, Sound(s), NEW p \in Ports PROVE Sound([s EXCEPT !.port = p])
BY DEF Sound, Fits, TunnelSpecs

\* So does forgetting the profile.
LEMMA FineSound == ASSUME NEW s, Sound(s) PROVE Sound(FineTune(s))
BY DEF Sound, FineTune, Fits, TunnelSpecs

\* Balancing retires failover, so the two are never both on.
LEMMA BalanceSound ==
  ASSUME NEW s, Sound(s), NEW on \in BOOLEAN, NEW r \in SetLoadBalance(s, on) PROVE Sound(r)
<1>1. CASE on
  <2>1. r = With(Without(s, {"hf"}), {"lb"})
    BY <1>1 DEF SetLoadBalance
  <2>2. Sound(Without(s, {"hf"})) /\ "hf" \notin Without(s, {"hf"}).has
    BY WithoutSound DEF Without, Sound, TunnelSpecs
  <2> QED BY <2>1, <2>2, WithSound DEF Settings
<1>2. CASE ~on
  <2>1. r = Without(s, {"lb"})
    BY <1>2 DEF SetLoadBalance
  <2> QED BY <2>1, WithoutSound
<1> QED BY <1>1, <1>2

\* The PROXY header, switched either way.
LEMMA HeaderSound ==
  ASSUME NEW s, Sound(s) PROVE Sound(With(s, {"header"})) /\ Sound(Without(s, {"header"}))
BY WithSound, WithoutSound DEF Settings, Sound, Fits

\* The certificate, of either kind.
LEMMA CertSound ==
  ASSUME NEW s, Sound(s)
  PROVE  /\ Sound(With(s, {"acme", "cert"}))
         /\ Sound(With(Without(s, {"acme"}), {"cert"}))
         /\ Sound(Without(s, {"acme"}))
         /\ Sound(With(s, {"cert"}))
<1>1. Sound(Without(s, {"acme"}))
  BY WithoutSound
<1> QED BY <1>1, WithSound DEF Settings, Sound, Fits

\* The backups, given or taken.
LEMMA BackupsSound ==
  ASSUME NEW s, Sound(s), NEW b \in BOOLEAN, NEW r \in SetFallbackAddrs(s, b) PROVE Sound(r)
BY WithSound, WithoutSound DEF SetFallbackAddrs, Settings, Sound, Fits

\* The drawer never turns both uses of the backups on.
LEMMA DrawerSound ==
  ASSUME NEW s, Sound(s), NEW c \in SUBSET Drawer, NEW r \in ConnTune(s, c) PROVE Sound(r)
<1> DEFINE X == {x \in c : /\ x \in {"lb", "hf"} => "backups" \in c
                           /\ x = "lb" => "hf" \notin c}
<1>1. r = s \/ r = With(Without(s, Drawer), X)
  BY DEF ConnTune
<1>2. Sound(Without(s, Drawer)) /\ "lb" \notin Without(s, Drawer).has
                                /\ "hf" \notin Without(s, Drawer).has
  <2>1. Drawer \cap {"mux", "kcp", "cert"} = {}
    BY DEF Drawer
  <2>2. Sound(Without(s, Drawer))
    BY <2>1, WithoutSound
  <2>3. Without(s, Drawer).has = s.has \ Drawer
    BY DEF Without, Sound, TunnelSpecs
  <2> QED BY <2>2, <2>3 DEF Drawer
<1>3. X \in SUBSET Settings /\ ~({"lb", "hf"} \subseteq X)
  BY DEF Drawer, Settings
<1> HIDE DEF X
<1> QED BY <1>1, <1>2, <1>3, WithSound

\* The menu: whatever a screen drawn from any settings asks for.
LEMMA MenuSound ==
  ASSUME TunnelsAssumption, NEW s, Sound(s), NEW shown, NEW free \in SUBSET Ports,
         NEW r \in editPortsMenu(shown, s, free) \cup pinPrimaryExit(s)
  PROVE  Sound(r)
<1> USE DEF Sound
<1>1. ASSUME NEW on \in BOOLEAN, r \in SetLoadBalance(s, on) \cup SetProxyProtocol(s, on)
                                      \cup SetFallbackAddrs(s, on) \cup SetCertificate(s, on)
      PROVE  Sound(r)
  <2>1. CASE r \in SetLoadBalance(s, on)
    BY <2>1, BalanceSound
  <2>2. CASE r \in SetProxyProtocol(s, on)
    BY <2>2, HeaderSound DEF SetProxyProtocol
  <2>3. CASE r \in SetFallbackAddrs(s, on)
    BY <2>3, BackupsSound
  <2>4. CASE r \in SetCertificate(s, on)
    BY <2>4, CertSound DEF SetCertificate
  <2> QED BY <1>1, <2>1, <2>2, <2>3, <2>4
<1>2. ASSUME NEW t \in Offered, r \in ChangeTransport(s, t) PROVE Sound(r)
  <2>1. t \in Transports
    BY TunnelsAssumption DEF TunnelsAssumption
  <2> QED BY <1>2, <2>1, SwitchSound DEF ChangeTransport
<1>3. ASSUME NEW p \in Presets, r \in ChangePreset(s, p) PROVE Sound(r)
  BY <1>3, PresetSound DEF ChangePreset
<1>5. s.port \in Ports
  BY DEF TunnelSpecs
<1>6. ASSUME r \in {s} PROVE Sound(r)
  BY <1>6
<1>7. CASE r \in toggleLoadBalance(shown, s) \cup toggleProxyProtocol(shown, s)
                 \cup changeFallbackAddrs(shown, s) \cup editCertificate(shown, s)
  BY <1>7, <1>1 DEF toggleLoadBalance, toggleProxyProtocol, changeFallbackAddrs, editCertificate
<1>8. CASE r \in toggleAcceptUDP(shown, s) \cup editLimits(shown, s) \cup editMSS(shown, s)
                 \cup editPckFlags(shown, s) \cup changeFallbackTransports(shown, s)
                 \cup pinPrimaryExit(s)
  BY <1>8, <1>6 DEF toggleAcceptUDP, editLimits, editMSS, editPckFlags, changeFallbackTransports,
                    pinPrimaryExit, SetAcceptUDP, SetLimits, SetMSS, SetPckFlags,
                    SetFallbackTransports
<1>9. CASE r \in changeClientHost(shown, s) \cup changeForwardedPorts(shown, s)
                 \cup changeTunnelPort(shown, s, free)
  <2>1. \E p \in Ports : r = [s EXCEPT !.port = p]
    BY <1>9, <1>5 DEF changeClientHost, changeForwardedPorts, changeTunnelPort, EditTunnel
  <2> QED BY <2>1, PortSound
<1>10. CASE r \in changeTunnelTransport(shown, s)
  BY <1>10, <1>2 DEF changeTunnelTransport
<1>11. CASE r \in changeTunnelPreset(shown, s)
  BY <1>11, <1>3 DEF changeTunnelPreset
<1> QED BY <1>7, <1>8, <1>9, <1>10, <1>11 DEF editPortsMenu

\* The panel's form, part by part and as a whole.
LEMMA FormSound ==
  ASSUME TunnelsAssumption, NEW s, Sound(s), NEW e \in TunnelEdits,
         NEW r \in EditTunnelSettings(s, e)
  PROVE  Sound(r)
<1> USE DEF Part
<1>1. ASSUME NEW a, Sound(a), NEW b \in editTransport(a, e) PROVE Sound(b)
  <2>1. e.transport \subseteq Transports
    BY TunnelsAssumption DEF TunnelEdits, TunnelsAssumption
  <2>2. ASSUME NEW t \in Transports PROVE Sound(withTransport(a, t))
    BY <1>1, SwitchSound, WithoutSound DEF withTransport, clearForTransport
  <2> QED BY <1>1, <2>1, <2>2 DEF editTransport
<1>2. ASSUME NEW a, Sound(a), NEW b \in editPreset(a, e) PROVE Sound(b)
  <2>1. e.preset \subseteq Presets
    BY DEF TunnelEdits
  <2> QED BY <1>2, <2>1, PresetSound DEF editPreset
<1>3. ASSUME NEW a, Sound(a), NEW b \in editTuning(a, e) PROVE Sound(b)
  BY <1>3, FineSound DEF editTuning
<1>4. ASSUME NEW a, Sound(a), NEW b \in editACME(a, e) PROVE Sound(b)
  BY <1>4, CertSound DEF editACME
<1>5. ASSUME NEW a, Sound(a), NEW b \in editPort(a, e) PROVE Sound(b)
  <2>1. e.port \subseteq Ports
    BY DEF TunnelEdits
  <2> QED BY <1>5, <2>1, PortSound DEF editPort
<1>6. ASSUME NEW a, Sound(a), NEW b \in editConn(a, e) PROVE Sound(b)
  <2>1. e.conn \subseteq SUBSET Drawer
    BY DEF TunnelEdits
  <2> QED BY <1>6, <2>1, DrawerSound DEF editConn
<1>7. ASSUME NEW a, Sound(a), NEW b \in editHeader(a, e) PROVE Sound(b)
  BY <1>7, HeaderSound DEF editHeader
<1> DEFINE S1 == editTransport(s, e)
           S2 == UNION {editPreset(a, e) : a \in S1}
           S3 == UNION {editTuning(a, e) : a \in S2}
           S4 == UNION {editACME(a, e) : a \in S3}
           S5 == UNION {editPort(a, e) : a \in S4}
           S6 == UNION {editConn(a, e) : a \in S5}
           S7 == UNION {editHeader(a, e) : a \in S6}
<1>8. r \in S7
  BY DEF EditTunnelSettings, Each
<1>11. \A a \in S1 : Sound(a)
  BY <1>1
<1> HIDE DEF S1
<1>12. \A a \in S2 : Sound(a)
  BY <1>2, <1>11
<1> HIDE DEF S2
<1>13. \A a \in S3 : Sound(a)
  BY <1>3, <1>12
<1> HIDE DEF S3
<1>14. \A a \in S4 : Sound(a)
  BY <1>4, <1>13
<1> HIDE DEF S4
<1>15. \A a \in S5 : Sound(a)
  BY <1>5, <1>14
<1> HIDE DEF S5
<1>16. \A a \in S6 : Sound(a)
  BY <1>6, <1>15
<1> HIDE DEF S6
<1> QED BY <1>7, <1>8, <1>16

\* Settings sound but for the knobs a profile fills.
Raw(s) == /\ s \in TunnelSpecs
          /\ Needs(s.role, s.transport) \subseteq {"mux", "kcp"} \cup s.has
          /\ ~({"lb", "hf"} \subseteq s.has)

\* The profile fills them, by hand or not.
LEMMA RawTuned ==
  ASSUME NEW s, Raw(s), NEW p \in Presets
  PROVE  Sound(ApplyPreset(s, p)) /\ Sound(applyManualTuning(ApplyPreset(s, p)))
<1>1. Sound(ApplyPreset(s, p))
  BY DEF Raw, Sound, ApplyPreset, With, Fits, TunnelSpecs, Settings
<1> QED BY <1>1, FineSound DEF FineTune, applyManualTuning

\* Settings added to and taken from these.
LEMMA RawWith ==
  ASSUME NEW s, Raw(s), NEW X \in SUBSET Settings, ~({"lb", "hf"} \subseteq s.has \cup X)
  PROVE  Raw(With(s, X))
BY DEF Raw, TunnelSpecs, With

LEMMA RawWithout ==
  ASSUME NEW s, Raw(s), NEW X, X \cap {"mux", "kcp", "cert"} = {}
  PROVE  Raw(Without(s, X)) /\ \A x \in X : x \notin Without(s, X).has
BY NeedsAreSettings DEF Raw, TunnelSpecs, Without

\* The drawer leaves such settings as they are in this.
LEMMA RawDrawer ==
  ASSUME NEW s, Raw(s), NEW c \in SUBSET Drawer, NEW r \in ConnTune(s, c) PROVE Raw(r)
<1> DEFINE X == {x \in c : /\ x \in {"lb", "hf"} => "backups" \in c
                           /\ x = "lb" => "hf" \notin c}
<1>1. r = s \/ r = With(Without(s, Drawer), X)
  BY DEF ConnTune
<1>3. X \in SUBSET Settings /\ ~({"lb", "hf"} \subseteq X)
  BY DEF Drawer, Settings
<1> HIDE DEF X
<1>4. /\ Raw(Without(s, Drawer))
      /\ "lb" \notin Without(s, Drawer).has
      /\ "hf" \notin Without(s, Drawer).has
  BY RawWithout DEF Drawer
<1> QED BY <1>1, <1>3, <1>4, RawWith

\* Settings newly made by a form or a wizard are sound.
LEMMA NewSound ==
  ASSUME TunnelsAssumption, NEW r \in Filled \cup Wizards \cup Directs
  PROVE  Sound(r)
<1> USE DEF Part
<1>1. ASSUME NEW n \in NewTunnels PROVE Raw(NewTunnelSpec(n))
  BY TunnelsAssumption DEF NewTunnels, NewTunnelSpec, TunnelSpecs, TunnelsAssumption, Settings,
                           Needs, Raw
<1>2. ASSUME NEW n \in NewTunnels
      PROVE  n.preset \in Presets /\ n.conn \subseteq SUBSET Drawer
  BY DEF NewTunnels
<1>3. ASSUME NEW n \in NewTunnels, r \in specFromNew(n) PROVE Sound(r)
  <2>1. Sound(ApplyPreset(NewTunnelSpec(n), n.preset))
    BY <1>1, <1>2, RawTuned
  <2> QED BY <1>3, <1>2, <2>1, DrawerSound DEF specFromNew, editConn
<1>4. ASSUME NEW n \in NewTunnels, r \in SetupServer(n) PROVE Sound(r)
  <2>1. ASSUME NEW s \in setupServerTLS(NewTunnelSpec(n)) PROVE Raw(s)
    BY <1>1, RawWith DEF setupServerTLS, Raw, Settings
  <2> QED BY <1>4, <1>2, <2>1, RawTuned DEF SetupServer, Tuned
<1>5. ASSUME NEW n \in NewTunnels, r \in SetupClient(n) PROVE Sound(r)
  <2>1. ASSUME NEW s \in editConn(NewTunnelSpec(n), n) PROVE Raw(s)
    BY <1>1, <1>2, RawDrawer DEF editConn
  <2> QED BY <1>5, <1>2, <2>1, RawTuned DEF SetupClient, Tuned
<1>6. ASSUME r \in Directs PROVE Sound(r)
  <2>1. PICK p \in Ports : r = NewDirectTunnel(p)
    BY <1>6 DEF Directs
  <2>2. r \in TunnelSpecs
    BY <2>1 DEF NewDirectTunnel, TunnelSpecs, Transports
  <2>3. Needs("l3", "udp") = {}
    BY DEF Needs, Carries, isMux, isKCP
  <2> QED BY <2>1, <2>2, <2>3 DEF Sound, Fits, NewDirectTunnel
<1>7. Forms \subseteq NewTunnels
  BY TunnelsAssumption DEF TunnelsAssumption
<1> QED BY <1>3, <1>4, <1>5, <1>6, <1>7 DEF Filled, Wizards

-----------------------------------------------------------------------------
(***************************************************************************)
(* The inductive invariant.  DiskSound: what is on disk and what every     *)
(* operator holds is sound, and an operator past the point where the old   *)
(* file was read holds it.                                                 *)
(***************************************************************************)
Past == {"write", "start", "restart", "verify", "revert", "back", "file", "record"}

Jobs == [stage: Stages, n: Names, s: Sounds \cup {NoFile}, prev: Sounds \cup {NoFile},
         was: {"up", "down"}, as: {"spec", "raw"}, kept: Seq(Sounds)]

Ready(w) ==
    /\ w \in Jobs
    /\ w.stage \in {"apply", "restore", "write", "new", "direct"} => w.s # NoFile
    /\ w.stage \in Past => w.prev # NoFile
    /\ w.stage = "direct" => w.s.role = "l3"

DiskSound ==
    /\ conf \in [Names -> Sounds \cup {NoFile}]
    /\ svc \in [Names -> Units]
    /\ hist \in [Names -> Seq(Sounds)]
    /\ work \in [Operators -> {Idle} \cup Jobs]
    /\ \A o \in Operators : work[o] = Idle \/ Ready(work[o])
    /\ ops \in 0 .. MaxOps
    /\ owed \in SUBSET Names

(***************************************************************************)
(* KeptFor(n): one operator at most is at work on the tunnel; a working    *)
(* configuration is the file, or in the history, or is what that operator  *)
(* has read; the file it put back is that one, and the list it is about to *)
(* extend is still the one on disk.                                        *)
(***************************************************************************)
KeptFor(n) ==
    /\ \A o, q \in Operators : AtWork(o, n) /\ AtWork(q, n) => o = q
    /\ \/ Works(conf[n])
       \/ HistWorks(n)
       \/ \E o \in Operators : AtWork(o, n) /\ work[o].stage \in Past
    /\ \A o \in Operators : AtWork(o, n) =>
          /\ work[o].stage \in Past => Works(work[o].prev) \/ HistWorks(n)
          /\ At(o, "back") => conf[n] = work[o].prev
          /\ At(o, "record") => work[o].kept = hist[n]

WayBackInv == \A n \in owed : KeptFor(n)

-----------------------------------------------------------------------------
(***************************************************************************)
(* DiskSound is inductive.                                                 *)
(***************************************************************************)

\* An operator that ends, or goes on with a job that is ready, keeps the table.
LEMMA TableKept ==
  ASSUME DiskSound, NEW o \in Operators, NEW w, w = Idle \/ Ready(w),
         work' = [work EXCEPT ![o] = w]
  PROVE  /\ work' \in [Operators -> {Idle} \cup Jobs]
         /\ \A q \in Operators : work'[q] = Idle \/ Ready(work'[q])
BY DEF DiskSound, Ready

\* Outside "idle" an operator has a job that is ready.
LEMMA Busied ==
  ASSUME DiskSound, NEW o \in Operators, NEW st \in Stages, At(o, st)
  PROVE  Ready(work[o]) /\ work[o].stage = st /\ work[o].n \in Names
<1>1. work[o] # Idle
  BY DEF At, Idle, Stages
<1> QED BY <1>1 DEF DiskSound, Ready, Jobs, At

\* Moving a job along keeps it ready, when the next stage asks for no more.
LEMMA Moved ==
  ASSUME NEW w, Ready(w), NEW st \in Stages,
         st \in Past => w.prev # NoFile,
         st \notin {"apply", "restore", "write", "new", "direct"}
  PROVE  Ready([w EXCEPT !.stage = st])
BY DEF Ready, Jobs, Past

\* A job that begins.
LEMMA Begun ==
  ASSUME NEW n \in Names, NEW st \in Stages, NEW s \in Sounds \cup {NoFile},
         st \notin Past,
         st \in {"apply", "restore", "write", "new", "direct"} => s # NoFile,
         st = "direct" => s.role = "l3"
  PROVE  Ready([stage |-> st, n |-> n, s |-> s, prev |-> NoFile,
                was |-> "down", as |-> "spec", kept |-> <<>>])
BY DEF Ready, Jobs, Past

\* An engine started on a file is up, for good or not.
LEMMA LaunchedUnit == \A s : Launched(s) \in Units
BY DEF Launched, Units

\* Sounds and the absence of a file, apart.
LEMMA SoundsFile == \A s : (s \in Sounds <=> Sound(s)) /\ (s \in Sounds => s # NoFile)
BY SpecIsFile DEF Sounds, Sound

\* Beginning a change.
LEMMA BeginSound ==
  ASSUME TunnelsAssumption, DiskSound, NEW o \in Operators, NEW n \in Names, Begin(o, n)
  PROVE  DiskSound'
<1>1. ASSUME NEW st \in Stages, NEW s \in Sounds \cup {NoFile}, Start(o, n, st, s),
             conf' = conf, hist' = hist, svc' \in [Names -> Units],
             st \notin Past,
             st \in {"apply", "restore", "write", "new", "direct"} => s # NoFile,
             st = "direct" => s.role = "l3"
      PROVE  DiskSound'
  <2>1. ops' \in 0 .. MaxOps /\ owed' \in SUBSET Names
    BY <1>1, TunnelsAssumption DEF Start, DiskSound, TunnelsAssumption
  <2>2. /\ work' \in [Operators -> {Idle} \cup Jobs]
        /\ \A q \in Operators : work'[q] = Idle \/ Ready(work'[q])
    BY <1>1, Begun, TableKept DEF Start
  <2> QED BY <1>1, <2>1, <2>2 DEF DiskSound
<1> USE DEF DiskSound, Stages, Past
<1>2. CASE manageOne(o, n)
  BY <1>2, <1>1 DEF manageOne
<1>3. CASE PanelEdit(o, n)
  <2>1. Sound(conf[n])
    BY <1>3, SoundsFile DEF PanelEdit, IsReverse
  <2>2. ASSUME NEW e \in Edits, NEW s \in EditTunnelSettings(conf[n], e) PROVE s \in Sounds /\ s # NoFile
    BY <2>1, <2>2, FormSound, SoundsFile, TunnelsAssumption DEF TunnelsAssumption
  <2> QED BY <1>3, <2>2, <1>1 DEF PanelEdit
<1>4. ASSUME NEW s \in Filled \cup Directs PROVE s \in Sounds /\ s # NoFile
  BY <1>4, NewSound, SoundsFile
<1>5. CASE ApplyTunnel(o, n)
  BY <1>5, <1>4, <1>1 DEF ApplyTunnel
<1>6. CASE CreateTunnel(o, n)
  BY <1>6, <1>4, <1>1 DEF CreateTunnel
<1>7. CASE CreateDirectTunnel(o, n)
  BY <1>7, <1>4, <1>1 DEF CreateDirectTunnel
<1>8. CASE uniqueName(o, n)
  BY <1>8, <1>1 DEF uniqueName
<1>9. CASE RestoreConfigFrom(o, n)
  <2>1. \A i \in DOMAIN hist[n] : hist[n][i] \in Sounds /\ hist[n][i] # NoFile
    BY SoundsFile
  <2> QED BY <1>9, <2>1, <1>1 DEF RestoreConfigFrom
<1>10. CASE Delete(o, n)
  <2>1. svc' \in [Names -> Units]
    BY <1>10 DEF Delete, Units
  <2> QED BY <1>10, <2>1, <1>1 DEF Delete
<1> QED BY <1>2, <1>3, <1>5, <1>6, <1>7, <1>8, <1>9, <1>10 DEF Begin

\* Going on with one.
LEMMA StepSound ==
  ASSUME TunnelsAssumption, DiskSound, NEW o \in Operators, Step(o)
  PROVE  DiskSound'
<1> DEFINE w == work[o]
<1>1. ASSUME NEW x, x = Idle \/ Ready(x), work' = [work EXCEPT ![o] = x],
             conf' \in [Names -> Sounds \cup {NoFile}], svc' \in [Names -> Units],
             hist' \in [Names -> Seq(Sounds)], ops' = ops, owed' \in SUBSET Names
      PROVE  DiskSound'
  BY <1>1, TableKept DEF DiskSound
<1>2. conf \in [Names -> Sounds \cup {NoFile}] /\ svc \in [Names -> Units]
      /\ hist \in [Names -> Seq(Sounds)] /\ owed \in SUBSET Names
  BY DEF DiskSound
<1>3. ASSUME NEW st \in Stages, Ready(w), st \in Past => w.prev # NoFile,
             st \notin {"apply", "restore", "write", "new", "direct"}, Goto(o, st),
             conf' \in [Names -> Sounds \cup {NoFile}], svc' \in [Names -> Units],
             hist' \in [Names -> Seq(Sounds)], ops' = ops, owed' \in SUBSET Names
      PROVE  DiskSound'
  <2>1. Ready([w EXCEPT !.stage = st])
    BY <1>3, Moved
  <2>2. work' = [work EXCEPT ![o] = [w EXCEPT !.stage = st]]
    BY <1>3 DEF Goto
  <2> QED BY <1>1, <1>3, <2>1, <2>2
<1>4. ASSUME Done(o), conf' \in [Names -> Sounds \cup {NoFile}], svc' \in [Names -> Units],
             hist' \in [Names -> Seq(Sounds)], ops' = ops, owed' \in SUBSET Names
      PROVE  DiskSound'
  BY <1>4, <1>1 DEF Done
<1>5. ASSUME NEW st \in Stages, At(o, st)
      PROVE  /\ Ready(w) /\ w.stage = st /\ w.n \in Names
             /\ st \in Past => w.prev \in Sounds
             /\ st \in {"apply", "restore", "write", "new", "direct"} => w.s \in Sounds
             /\ w.kept \in Seq(Sounds)
  BY <1>5, Busied DEF Ready, Jobs
<1>6. ASSUME NEW n \in Names, NEW f \in Sounds \cup {NoFile}
      PROVE  [conf EXCEPT ![n] = f] \in [Names -> Sounds \cup {NoFile}]
  BY <1>2
<1>7. ASSUME NEW n \in Names, NEW u \in Units PROVE [svc EXCEPT ![n] = u] \in [Names -> Units]
  BY <1>2
<1>8. ASSUME NEW s \in Sounds PROVE Render(s) \in Sounds
  BY RenderSound, SoundsFile
<1> HIDE DEF w
<1>11. CASE Confirm(o)
  <2>1. CASE Done(o)
    BY <1>11, <2>1, <1>2, <1>4 DEF Confirm
  <2>2. CASE ~Done(o)
    <3> DEFINE free == Ports \ (Busy \cup {conf[q].port : q \in {r \in Names :
                                IsReverse(r) /\ conf[r].role = "server" /\ IsActive(r)}})
    <3>1. Ready(w) /\ w.n \in Names
      BY <1>11, <1>5 DEF Confirm, Stages
    <3>2. PICK s \in editPortsMenu(w.s, conf[w.n], free) \cup pinPrimaryExit(conf[w.n]) :
             /\ IsReverse(w.n)
             /\ work' = [work EXCEPT ![o].stage = "apply", ![o].s = s]
      BY <1>11, <2>2 DEF Confirm, w
    <3>3. Sound(conf[w.n])
      BY <3>1, <3>2, <1>2, SoundsFile DEF IsReverse
    <3>4. free \in SUBSET Ports
      OBVIOUS
    <3> HIDE DEF free
    <3>5. s \in Sounds /\ s # NoFile
      BY <3>2, <3>3, <3>4, MenuSound, SoundsFile
    <3>6. Ready([w EXCEPT !.stage = "apply", !.s = s])
      BY <3>1, <3>5 DEF Ready, Jobs, Stages, Past
    <3>7. work' = [work EXCEPT ![o] = [w EXCEPT !.stage = "apply", !.s = s]]
      BY <3>2 DEF w
    <3> QED BY <1>11, <3>6, <3>7, <1>1, <1>2 DEF Confirm
  <2> QED BY <2>1, <2>2
<1>12. ASSUME At(o, "wizard"), NEW s \in Wizards \cup Directs,
              work' = [work EXCEPT ![o].stage = "new", ![o].s = s],
              UNCHANGED <<conf, svc, hist, ops, owed>>
       PROVE  DiskSound'
  <2>1. Ready(w)
    BY <1>12, <1>5 DEF Stages
  <2>2. s \in Sounds /\ s # NoFile
    BY NewSound, SoundsFile
  <2>3. Ready([w EXCEPT !.stage = "new", !.s = s])
    BY <2>1, <2>2 DEF Ready, Jobs, Stages, Past
  <2>4. work' = [work EXCEPT ![o] = [w EXCEPT !.stage = "new", !.s = s]]
    BY <1>12 DEF w
  <2> QED BY <1>12, <2>3, <2>4, <1>1, <1>2
<1>13. CASE finishSetup(o)
  BY <1>13, <1>12, <1>4, <1>2 DEF finishSetup
<1>14. CASE setupL3(o)
  BY <1>14, <1>12 DEF setupL3
<1>15. CASE Apply(o)
  <2>1. CASE Done(o)
    BY <1>15, <2>1, <1>2, <1>4 DEF Apply
  <2>2. CASE ~Done(o)
    <3>1. Ready(w) /\ w.n \in Names /\ w.s \in Sounds
      BY <1>15, <1>5 DEF Apply, Stages
    <3>2. PICK was \in SeenActive(w.n), as \in {"spec", "raw"} :
             /\ conf[w.n] # NoFile
             /\ work' = [work EXCEPT ![o].stage = "write", ![o].prev = conf[w.n],
                                     ![o].was = was, ![o].as = as]
      BY <1>15, <2>2 DEF Apply, w
    <3>3. was \in {"up", "down"}
      BY <3>2 DEF SeenActive
    <3>4. conf[w.n] \in Sounds /\ w.s # NoFile
      BY <3>1, <3>2, <1>2, SoundsFile
    <3>5. Ready([w EXCEPT !.stage = "write", !.prev = conf[w.n], !.was = was, !.as = as])
      BY <3>1, <3>2, <3>3, <3>4 DEF Ready, Jobs, Stages, Past
    <3>6. work' = [work EXCEPT ![o] = [w EXCEPT !.stage = "write", !.prev = conf[w.n],
                                               !.was = was, !.as = as]]
      BY <3>2 DEF w
    <3> QED BY <1>15, <3>5, <3>6, <1>1, <1>2 DEF Apply
  <2> QED BY <2>1, <2>2
<1>16. CASE Write(o)
  <2>1. Ready(w) /\ w.n \in Names /\ w.prev \in Sounds /\ w.s \in Sounds /\ w.prev # NoFile
    BY <1>16, <1>5, SoundsFile DEF Write, Stages, Past
  <2>2. conf' \in [Names -> Sounds \cup {NoFile}]
    BY <1>16, <2>1, <1>6, <1>8 DEF Write, w
  <2>3. Goto(o, "restart") \/ Goto(o, "start") \/ Done(o)
    BY <1>16 DEF Write
  <2> QED BY <1>16, <2>1, <2>2, <2>3, <1>2, <1>3, <1>4 DEF Write, Stages
<1>17. CASE SaveStart(o)
  <2>1. Ready(w) /\ w.n \in Names /\ w.prev \in Sounds /\ w.prev # NoFile
    BY <1>17, <1>5, SoundsFile DEF SaveStart, Stages, Past
  <2>2. conf' \in [Names -> Sounds \cup {NoFile}]
    BY <1>17, <2>1, <1>6, <1>2 DEF SaveStart, w
  <2>3. svc' \in [Names -> Units]
    <3>1. svc[w.n] \in Units /\ Launched(conf[w.n]) \in Units
      BY <2>1, <1>2, LaunchedUnit
    <3> QED BY <1>17, <3>1, <2>1, <1>7, <1>2 DEF SaveStart, w
  <2>4. Goto(o, "restart") \/ Done(o)
    BY <1>17 DEF SaveStart
  <2> QED BY <1>17, <2>1, <2>2, <2>3, <2>4, <1>2, <1>3, <1>4 DEF SaveStart, Stages
<1>18. CASE Restart(o)
  <2>1. Ready(w) /\ w.n \in Names /\ w.prev # NoFile
    BY <1>18, <1>5, SoundsFile DEF Restart, Stages, Past
  <2>2. svc' \in [Names -> Units]
    <3>1. Launched(conf[w.n]) \in Units
      BY <2>1, <1>2, LaunchedUnit
    <3>2. svc' = svc \/ \E u \in Units : svc' = [svc EXCEPT ![w.n] = u]
      BY <1>18, <3>1 DEF Restart, Relaunch, w
    <3>3. CASE svc' = svc
      BY <3>3, <1>2
    <3>4. CASE \E u \in Units : svc' = [svc EXCEPT ![w.n] = u]
      BY <2>1, <3>4, <1>7
    <3> QED BY <3>2, <3>3, <3>4
  <2> QED BY <1>18, <2>1, <2>2, <1>2, <1>3 DEF Restart, Stages
<1>19. CASE WaitServiceActive(o)
  <2>1. Ready(w) /\ w.prev # NoFile
    BY <1>19, <1>5, SoundsFile DEF WaitServiceActive, Stages, Past
  <2>2. Goto(o, "file") \/ Goto(o, "revert")
    BY <1>19 DEF WaitServiceActive
  <2> QED BY <1>19, <2>1, <2>2, <1>2, <1>3 DEF WaitServiceActive, Stages
<1>20. CASE revertSpec(o)
  <2>1. Ready(w) /\ w.n \in Names /\ w.prev \in Sounds /\ w.prev # NoFile
    BY <1>20, <1>5, SoundsFile DEF revertSpec, Stages, Past
  <2>2. conf' \in [Names -> Sounds \cup {NoFile}]
    BY <1>20, <2>1, <1>6 DEF revertSpec, w
  <2> QED BY <1>20, <2>1, <2>2, <1>2, <1>3 DEF revertSpec, Stages
<1>21. CASE revertService(o)
  <2>1. w.n \in Names
    BY <1>21, <1>5 DEF revertService, Stages
  <2>2. svc' \in [Names -> Units]
    BY <1>21, <2>1, <1>7, <1>2, LaunchedUnit DEF revertService, Units, w
  <2> QED BY <1>21, <2>2, <1>2, <1>4 DEF revertService
<1>22. CASE ConfigHistory(o)
  <2>1. Ready(w) /\ w.n \in Names /\ w.prev # NoFile
    BY <1>22, <1>5, SoundsFile DEF ConfigHistory, Stages, Past
  <2>2. Ready([w EXCEPT !.stage = "record", !.kept = hist[w.n]])
    BY <2>1, <1>2 DEF Ready, Jobs, Stages, Past
  <2>3. work' = [work EXCEPT ![o] = [w EXCEPT !.stage = "record", !.kept = hist[w.n]]]
    BY <1>22 DEF ConfigHistory, w
  <2> QED BY <1>22, <2>2, <2>3, <1>1, <1>2 DEF ConfigHistory
<1>23. CASE recordConfigChange(o)
  <2>1. w.n \in Names /\ w.prev \in Sounds /\ w.kept \in Seq(Sounds)
    BY <1>23, <1>5 DEF recordConfigChange, Stages, Past
  <2>2. <<w.prev>> \o w.kept \in Seq(Sounds)
    BY <2>1
  <2>3. ASSUME NEW h \in Seq(Sounds) PROVE Capped(h) \in Seq(Sounds)
    <3>1. Keep \in Nat /\ Len(h) \in Nat
      BY TunnelsAssumption DEF TunnelsAssumption
    <3> QED BY <3>1 DEF Capped
  <2>4. hist' \in [Names -> Seq(Sounds)]
    BY <1>23, <2>1, <2>2, <2>3, <1>2 DEF recordConfigChange, w
  <2>5. owed' \in SUBSET Names
    BY <1>23, <1>2 DEF recordConfigChange
  <2> QED BY <1>23, <2>4, <2>5, <1>2, <1>4 DEF recordConfigChange
<1>24. CASE SaveNew(o)
  <2>1. Ready(w) /\ w.n \in Names /\ w.s \in Sounds
    BY <1>24, <1>5 DEF SaveNew, Stages
  <2>2. conf' \in [Names -> Sounds \cup {NoFile}]
    BY <1>24, <2>1, <1>6, <1>8 DEF SaveNew, w
  <2>3. owed' \in SUBSET Names
    BY <1>24, <2>1, <1>2 DEF SaveNew, w
  <2> QED BY <1>24, <2>1, <2>2, <2>3, <1>2, <1>3 DEF SaveNew, Stages, Past
<1>25. CASE StartNew(o)
  <2>1. w.n \in Names
    BY <1>25, <1>5 DEF StartNew, Stages
  <2>2. svc' \in [Names -> Units]
    BY <1>25, <2>1, <1>7, <1>2, LaunchedUnit DEF StartNew, w
  <2> QED BY <1>25, <2>2, <1>2, <1>4 DEF StartNew
<1>26. CASE SaveL3(o)
  <2>1. Ready(w) /\ w.n \in Names /\ w.s \in Sounds
    BY <1>26, <1>5 DEF SaveL3, Stages
  <2>2. conf' \in [Names -> Sounds \cup {NoFile}]
    BY <1>26, <2>1, <1>6, <1>2 DEF SaveL3, w
  <2> QED BY <1>26, <2>1, <2>2, <1>2, <1>3, <1>4 DEF SaveL3, Stages, Past
<1>27. CASE RestartL3(o)
  <2>1. w.n \in Names
    BY <1>27, <1>5 DEF RestartL3, Stages
  <2>2. svc' \in [Names -> Units]
    BY <1>27, <2>1, <1>7, <1>2, LaunchedUnit DEF RestartL3, Relaunch, w
  <2> QED BY <1>27, <2>2, <1>2, <1>4 DEF RestartL3
<1>28. CASE removeTunnel(o)
  <2>1. w.n \in Names
    BY <1>28, <1>5 DEF removeTunnel, Stages
  <2>2. conf' \in [Names -> Sounds \cup {NoFile}] /\ svc' \in [Names -> Units]
    BY <1>28, <2>1, <1>6, <1>7 DEF removeTunnel, Units, w
  <2> QED BY <1>28, <2>2, <1>2, <1>4 DEF removeTunnel
<1>29. CASE Cut(o)
  BY <1>29, <1>2, <1>4 DEF Cut
<1> QED BY <1>11, <1>13, <1>14, <1>15, <1>16, <1>17, <1>18, <1>19, <1>20, <1>21, <1>22, <1>23,
           <1>24, <1>25, <1>26, <1>27, <1>28, <1>29 DEF Step

\* systemd, and the verbs that only start and stop.
LEMMA SystemSound ==
  ASSUME TunnelsAssumption, DiskSound, NEW n \in Names, System(n)
  PROVE  DiskSound'
<1>1. svc' \in [Names -> Units]
  BY LaunchedUnit DEF DiskSound, System, StartService, StopService, RestartService, Die,
                      AutoRestart, Relaunch, Units
<1>2. ops' \in 0 .. MaxOps /\ UNCHANGED <<conf, hist, work, owed>>
  BY TunnelsAssumption DEF DiskSound, System, StartService, StopService, RestartService, Die,
                           AutoRestart, TunnelsAssumption
<1> QED BY <1>1, <1>2 DEF DiskSound, Ready, Jobs

\* The invariant, in every reachable state.
THEOREM SoundDisk == TunSpec => []DiskSound
<1> USE TunnelsAssumption
<1>1. TunInit => DiskSound
  <2> SUFFICES ASSUME TunInit PROVE DiskSound
    OBVIOUS
  <2>1. ASSUME NEW s \in Filled \cup Directs PROVE Render(s) \in Sounds
    BY NewSound, RenderSound, SoundsFile
  <2>2. conf \in [Names -> Sounds \cup {NoFile}]
    BY <2>1 DEF TunInit
  <2>3. svc \in [Names -> Units]
    BY LaunchedUnit DEF TunInit, Units
  <2> QED BY <2>2, <2>3 DEF TunInit, DiskSound, TunnelsAssumption
<1>2. DiskSound /\ [TunNext]_tunVars => DiskSound'
  <2> SUFFICES ASSUME DiskSound, [TunNext]_tunVars PROVE DiskSound'
    OBVIOUS
  <2>1. CASE UNCHANGED tunVars
    BY <2>1 DEF tunVars, DiskSound, Ready, Jobs
  <2>2. CASE TunNext
    BY <2>2, StepSound, BeginSound, SystemSound DEF TunNext
  <2> QED BY <2>1, <2>2
<1> QED BY <1>1, <1>2, PTL DEF TunSpec

\* Type correctness of the disk, of systemd and of every operator at work
\* (TunTypeOK), for any number of them.
THEOREM TunTypeCorrect == TunSpec => []TunTypeOK
<1>1. DiskSound => TunTypeOK
  <2> SUFFICES ASSUME DiskSound PROVE TunTypeOK
    OBVIOUS
  <2>1. Sounds \subseteq TunnelSpecs
    BY DEF Sounds
  <2>2. Seq(Sounds) \subseteq Seq(TunnelSpecs)
    BY <2>1
  <2>3. Jobs \subseteq [stage: Stages, n: Names, s: Files, prev: Files, was: {"up", "down"},
                        as: {"spec", "raw"}, kept: Seq(TunnelSpecs)]
    BY <2>1, <2>2 DEF Jobs, Files
  <2>4. work \in [Operators -> {Idle} \cup
                     [stage: Stages, n: Names, s: Files, prev: Files, was: {"up", "down"},
                      as: {"spec", "raw"}, kept: Seq(TunnelSpecs)]]
    BY <2>3 DEF DiskSound
  <2>5. conf \in [Names -> Files] /\ hist \in [Names -> Seq(TunnelSpecs)]
    BY <2>1, <2>2 DEF DiskSound, Files
  <2> QED BY <2>4, <2>5 DEF DiskSound, TunTypeOK
<1> QED BY <1>1, SoundDisk, PTL

\* Every configuration file an edit leaves, and every one kept to go back to,
\* gives its carrier what it needs (ConfigUsable): whatever sequence of menu
\* changes, forms, wizards, reverts and restores led there, by however many
\* operators at once (switchTransport, edit.go:368; SetLoadBalance, edit.go:406).
THEOREM EveryFileFits == TunSpec => []ConfigUsable
<1>1. DiskSound => ConfigUsable
  <2> SUFFICES ASSUME DiskSound, NEW n \in Names
               PROVE  /\ conf[n] # NoFile => Fits(conf[n])
                      /\ \A i \in DOMAIN hist[n] : Fits(hist[n][i])
    BY DEF ConfigUsable
  <2>1. hist[n] \in Seq(Sounds) /\ conf[n] \in Sounds \cup {NoFile}
    BY DEF DiskSound
  <2>2. \A i \in DOMAIN hist[n] : hist[n][i] \in Sounds
    BY <2>1
  <2> QED BY <2>1, <2>2 DEF Sounds
<1> QED BY <1>1, SoundDisk, PTL

-----------------------------------------------------------------------------
(***************************************************************************)
(* WayBackInv is inductive.                                                *)
(***************************************************************************)

\* A step of an operator that is at work on another tunnel.
LEMMA Elsewhere ==
  ASSUME NEW n, KeptFor(n), NEW o \in Operators, ~AtWork(o, n), ~AtWork(o, n)',
         \A q \in Operators \ {o} : work'[q] = work[q],
         conf'[n] = conf[n], hist'[n] = hist[n]
  PROVE  KeptFor(n)'
<1>1. \A q \in Operators : AtWork(q, n)' <=> AtWork(q, n)
  BY DEF AtWork, At
<1>2. \A q \in Operators : AtWork(q, n)' => work'[q] = work[q]
  OBVIOUS
<1>3. HistWorks(n)' <=> HistWorks(n)
  BY DEF HistWorks, Works
<1>4. Works(conf[n])' <=> Works(conf[n])
  BY DEF Works
<1>5. \A q \in Operators : AtWork(q, n)' =>
         /\ work'[q].stage \in Past => Works(work'[q].prev) \/ HistWorks(n)'
         /\ At(q, "back")' => conf'[n] = work'[q].prev
         /\ At(q, "record")' => work'[q].kept = hist'[n]
  BY <1>1, <1>2, <1>3 DEF KeptFor, At
<1>6. \/ Works(conf[n])'
      \/ HistWorks(n)'
      \/ \E q \in Operators : AtWork(q, n)' /\ work'[q].stage \in Past
  BY <1>1, <1>2, <1>3, <1>4 DEF KeptFor
<1>7. \A p, q \in Operators : AtWork(p, n)' /\ AtWork(q, n)' => p = q
  BY <1>1 DEF KeptFor
<1> QED BY <1>5, <1>6, <1>7 DEF KeptFor, Works

\* A step of the only operator at work on it.
LEMMA Here ==
  ASSUME NEW n, NEW o \in Operators,
         \A q \in Operators \ {o} : ~AtWork(q, n) /\ work'[q] = work[q],
         \/ Works(conf'[n])
         \/ HistWorks(n)'
         \/ AtWork(o, n)' /\ work'[o].stage \in Past,
         AtWork(o, n)' =>
            /\ work'[o].stage \in Past => Works(work'[o].prev) \/ HistWorks(n)'
            /\ At(o, "back")' => conf'[n] = work'[o].prev
            /\ At(o, "record")' => work'[o].kept = hist'[n]
  PROVE  KeptFor(n)'
<1>1. \A q \in Operators \ {o} : ~AtWork(q, n)'
  BY DEF AtWork, At
<1> QED BY <1>1 DEF KeptFor, Works

\* Which operators are at work on a tunnel.
LEMMA OneAtWork ==
  ASSUME NEW n \in owed, WayBackInv, NEW o \in Operators, AtWork(o, n)
  PROVE  KeptFor(n) /\ \A q \in Operators \ {o} : ~AtWork(q, n)
BY DEF WayBackInv, KeptFor

\* A step of one operator, in short: it stays on its tunnel or ends, and touches
\* the file and the history of no other.
OneStep(o) ==
    /\ \A q \in Operators \ {o} : work'[q] = work[q]
    /\ work'[o] = Idle \/ work'[o].n = work[o].n
    /\ \A n \in Names \ {work[o].n} : conf'[n] = conf[n] /\ hist'[n] = hist[n]

\* The other tunnels keep their way back.
LEMMA OthersKept ==
  ASSUME DiskSound, WayBackInv, NEW o \in Operators, ~At(o, "idle"), OneStep(o),
         NEW n \in owed, n # work[o].n
  PROVE  KeptFor(n)'
<1>1. ~AtWork(o, n) /\ ~AtWork(o, n)'
  BY DEF AtWork, At, OneStep, Idle
<1>2. n \in Names
  BY DEF DiskSound
<1> QED BY <1>1, <1>2, Elsewhere DEF WayBackInv, OneStep

\* An operator at work on a tunnel that is owed its way back, and what the
\* invariant says of it.
LEMMA OwnNow ==
  ASSUME DiskSound, WayBackInv, NEW o \in Operators, ~At(o, "idle"), NEW n, n = work[o].n, n \in owed
  PROVE  /\ \A q \in Operators \ {o} : ~AtWork(q, n)
         /\ work[o].stage \notin Past => Works(conf[n]) \/ HistWorks(n)
         /\ work[o].stage \in Past => Works(work[o].prev) \/ HistWorks(n)
         /\ At(o, "back") => conf[n] = work[o].prev
         /\ At(o, "record") => work[o].kept = hist[n]
<1>1. AtWork(o, n)
  BY DEF AtWork
<1> QED BY <1>1, OneAtWork DEF KeptFor

\* Its next step: it ends, ...
LEMMA OwnEnds ==
  ASSUME DiskSound, WayBackInv, NEW o \in Operators, ~At(o, "idle"), OneStep(o),
         NEW n, n = work[o].n, n \in owed,
         work'[o] = Idle, hist'[n] = hist[n], Works(conf'[n]) \/ HistWorks(n)
  PROVE  KeptFor(n)'
<1>1. HistWorks(n)' <=> HistWorks(n)
  BY DEF HistWorks, Works
<1>2. ~AtWork(o, n)'
  BY DEF AtWork, At, Idle
<1>3. \A q \in Operators \ {o} : ~AtWork(q, n) /\ work'[q] = work[q]
  BY OwnNow DEF OneStep
<1> QED BY <1>1, <1>2, <1>3, Here

\* ... goes on before the old file is read, ...
LEMMA OwnEarly ==
  ASSUME DiskSound, WayBackInv, NEW o \in Operators, ~At(o, "idle"), OneStep(o),
         NEW n, n = work[o].n, n \in owed,
         work'[o].stage \notin Past, hist'[n] = hist[n], Works(conf'[n]) \/ HistWorks(n)
  PROVE  KeptFor(n)'
<1>1. HistWorks(n)' <=> HistWorks(n)
  BY DEF HistWorks, Works
<1>2. ~At(o, "back")' /\ ~At(o, "record")'
  BY DEF At, Past
<1>3. \A q \in Operators \ {o} : ~AtWork(q, n) /\ work'[q] = work[q]
  BY OwnNow DEF OneStep
<1> QED BY <1>1, <1>2, <1>3, Here

\* ... or after.
LEMMA OwnPast ==
  ASSUME DiskSound, WayBackInv, NEW o \in Operators, ~At(o, "idle"), OneStep(o),
         NEW n, n = work[o].n, n \in owed,
         work'[o].stage \in Past, work'[o].n = n, hist'[n] = hist[n],
         Works(work'[o].prev) \/ HistWorks(n),
         work'[o].stage = "back" => conf'[n] = work'[o].prev,
         work'[o].stage = "record" => work'[o].kept = hist'[n]
  PROVE  KeptFor(n)'
<1>1. HistWorks(n)' <=> HistWorks(n)
  BY DEF HistWorks, Works
<1>2. AtWork(o, n)'
  BY DEF AtWork, At, Past
<1>3. \A q \in Operators \ {o} : ~AtWork(q, n) /\ work'[q] = work[q]
  BY OwnNow DEF OneStep
<1> QED BY <1>1, <1>2, <1>3, Here DEF At

\* Going on with a change.
LEMMA StepKept ==
  ASSUME TunnelsAssumption, DiskSound, WayBackInv, NEW o \in Operators, Step(o)
  PROVE  WayBackInv'
<1>0. PICK w, n : w = work[o] /\ n = w.n
  OBVIOUS
<1> USE <1>0
<1>1. ~At(o, "idle")
  BY DEF Step, Confirm, finishSetup, setupL3, Apply, Write, SaveStart, Restart, WaitServiceActive,
         revertSpec, revertService, ConfigHistory, recordConfigChange, SaveNew, StartNew, SaveL3,
         RestartL3, removeTunnel, Cut, At
<1>2. /\ Ready(w) /\ n \in Names /\ w.stage \in Stages
      /\ w \in Jobs /\ work \in [Operators -> {Idle} \cup Jobs] /\ work[o] = w
      /\ conf \in [Names -> Sounds \cup {NoFile}]
      /\ hist \in [Names -> Seq(Sounds)] /\ owed \in SUBSET Names
  BY <1>1 DEF DiskSound, Ready, Jobs, At, Idle
<1>3. ASSUME OneStep(o), \A m \in owed' : m # n => m \in owed, n \in owed' => KeptFor(n)'
      PROVE  WayBackInv'
  <2> SUFFICES ASSUME NEW m \in owed' PROVE KeptFor(m)'
    BY DEF WayBackInv
  <2> QED BY <1>1, <1>3, OthersKept
<1>4. ASSUME n \in owed
      PROVE  /\ w.stage \notin Past => Works(conf[n]) \/ HistWorks(n)
             /\ w.stage \in Past => Works(w.prev) \/ HistWorks(n)
             /\ w.stage = "back" => conf[n] = w.prev
             /\ w.stage = "record" => w.kept = hist[n]
  BY <1>1, <1>4, OwnNow DEF At
<1>5. ASSUME Done(o) PROVE work'[o] = Idle /\ \A q \in Operators \ {o} : work'[q] = work[q]
  BY <1>5, <1>2 DEF Done
<1>6. ASSUME NEW st, Goto(o, st)
      PROVE  /\ work'[o].stage = st /\ work'[o].n = n /\ work'[o].prev = w.prev
             /\ \A q \in Operators \ {o} : work'[q] = work[q]
  BY <1>6, <1>2 DEF Goto, Jobs
\* The steps that touch no file and keep to the early stages, or end there.
<1>9. ASSUME conf' = conf, hist' = hist, owed' = owed, w.stage \notin Past, Done(o)
      PROVE  WayBackInv'
  <2>1. OneStep(o) /\ work'[o] = Idle
    BY <1>9, <1>5 DEF OneStep
  <2>2. ASSUME n \in owed PROVE KeptFor(n)'
    BY <1>1, <1>4, <1>9, <2>1, <2>2, OwnEnds
  <2> QED BY <1>3, <1>9, <2>1, <2>2
<1>10. ASSUME conf' = conf, hist' = hist, owed' = owed, w.stage \notin Past,
              \A q \in Operators \ {o} : work'[q] = work[q],
              work'[o].stage \notin Past, work'[o].n = n
       PROVE  WayBackInv'
  <2>1. OneStep(o)
    BY <1>10 DEF OneStep
  <2>2. ASSUME n \in owed PROVE KeptFor(n)'
    BY <1>1, <1>4, <1>10, <2>1, <2>2, OwnEarly
  <2> QED BY <1>3, <1>10, <2>1, <2>2
<1>11. CASE Confirm(o)
  <2>1. w.stage \notin Past /\ UNCHANGED <<conf, hist, owed>>
    BY <1>11 DEF Confirm, At, Past
  <2>2. Done(o) \/ \E s : work' = [work EXCEPT ![o].stage = "apply", ![o].s = s]
    BY <1>11 DEF Confirm
  <2>3. ASSUME NEW s, work' = [work EXCEPT ![o].stage = "apply", ![o].s = s]
        PROVE  /\ work'[o].stage \notin Past /\ work'[o].n = n
               /\ \A q \in Operators \ {o} : work'[q] = work[q]
    BY <2>3, <1>2 DEF Past, Jobs
  <2> QED BY <2>1, <2>2, <2>3, <1>9, <1>10
<1>12. CASE finishSetup(o) \/ setupL3(o)
  <2>1. w.stage \notin Past /\ UNCHANGED <<conf, hist, owed>>
    BY <1>12 DEF finishSetup, setupL3, At, Past
  <2>2. Done(o) \/ \E s : work' = [work EXCEPT ![o].stage = "new", ![o].s = s]
    BY <1>12 DEF finishSetup, setupL3
  <2>3. ASSUME NEW s, work' = [work EXCEPT ![o].stage = "new", ![o].s = s]
        PROVE  /\ work'[o].stage \notin Past /\ work'[o].n = n
               /\ \A q \in Operators \ {o} : work'[q] = work[q]
    BY <2>3, <1>2 DEF Past, Jobs
  <2> QED BY <2>1, <2>2, <2>3, <1>9, <1>10
<1>13. CASE StartNew(o) \/ RestartL3(o)
  <2>1. w.stage \notin Past /\ UNCHANGED <<conf, hist, owed>>
    BY <1>13 DEF StartNew, RestartL3, At, Past
  <2> QED BY <1>13, <2>1, <1>9 DEF StartNew, RestartL3
\* The old file is read: it works, or one in the history does.
<1>14. CASE Apply(o)
  <2>1. w.stage \notin Past /\ UNCHANGED <<conf, hist, owed>>
    BY <1>14 DEF Apply, At, Past
  <2>2. CASE Done(o)
    BY <2>1, <2>2, <1>9
  <2>3. CASE ~Done(o)
    <3>1. PICK was, as : work' = [work EXCEPT ![o].stage = "write", ![o].prev = conf[n],
                                              ![o].was = was, ![o].as = as]
      BY <1>14, <2>3 DEF Apply
    <3>2. /\ work'[o].stage = "write" /\ work'[o].n = n /\ work'[o].prev = conf[n]
          /\ \A q \in Operators \ {o} : work'[q] = work[q]
      BY <3>1, <1>2 DEF Jobs
    <3>3. OneStep(o)
      BY <2>1, <3>2 DEF OneStep
    <3>4. ASSUME n \in owed PROVE KeptFor(n)'
      BY <1>1, <1>4, <2>1, <3>2, <3>3, <3>4, OwnPast DEF Past
    <3> QED BY <1>3, <2>1, <3>3, <3>4
  <2> QED BY <2>2, <2>3
\* Once it is read, an operator that goes on keeps it, whatever it writes.
<1>15. ASSUME w.stage \in Past, UNCHANGED <<hist, owed>>,
              \A m \in Names \ {n} : conf'[m] = conf[m],
              NEW st \in Past \ {"record"}, Goto(o, st), st = "back" => conf'[n] = w.prev
       PROVE  WayBackInv'
  <2>1. OneStep(o)
    BY <1>15, <1>6 DEF OneStep
  <2>2. ASSUME n \in owed PROVE KeptFor(n)'
    BY <1>1, <1>4, <1>6, <1>15, <2>1, <2>2, OwnPast
  <2> QED BY <1>3, <1>15, <2>1, <2>2
\* One that gives up has put it back.
<1>16. ASSUME w.stage \in Past, UNCHANGED <<hist, owed>>,
              \A m \in Names \ {n} : conf'[m] = conf[m], Done(o), n \in owed => conf'[n] = w.prev
       PROVE  WayBackInv'
  <2>1. OneStep(o)
    BY <1>16, <1>5 DEF OneStep
  <2>2. ASSUME n \in owed PROVE KeptFor(n)'
    BY <1>1, <1>4, <1>5, <1>16, <2>1, <2>2, OwnEnds
  <2> QED BY <1>3, <1>16, <2>1, <2>2
<1>17. CASE Write(o)
  <2>1. w.stage \in Past /\ UNCHANGED <<hist, owed>>
    BY <1>17 DEF Write, At, Past
  <2>2. \A m \in Names \ {n} : conf'[m] = conf[m]
    BY <1>17, <1>2 DEF Write
  <2>3. \/ Goto(o, "restart") \/ Goto(o, "start")
        \/ Done(o) /\ conf'[n] = w.prev
    BY <1>17, <1>2 DEF Write
  <2> QED BY <2>1, <2>2, <2>3, <1>15, <1>16 DEF Past
<1>18. CASE SaveStart(o)
  <2>1. w.stage \in Past /\ UNCHANGED <<hist, owed>>
    BY <1>18 DEF SaveStart, At, Past
  <2>2. \A m \in Names \ {n} : conf'[m] = conf[m]
    BY <1>18, <1>2 DEF SaveStart
  <2>3. Goto(o, "restart") \/ (Done(o) /\ conf'[n] = w.prev)
    BY <1>18, <1>2 DEF SaveStart
  <2> QED BY <2>1, <2>2, <2>3, <1>15, <1>16 DEF Past
<1>19. CASE Restart(o) \/ WaitServiceActive(o)
  <2>1. w.stage \in Past /\ UNCHANGED <<conf, hist, owed>>
    BY <1>19 DEF Restart, WaitServiceActive, At, Past
  <2>2. Goto(o, "verify") \/ Goto(o, "revert") \/ Goto(o, "file")
    BY <1>19 DEF Restart, WaitServiceActive
  <2> QED BY <2>1, <2>2, <1>15 DEF Past
<1>20. CASE revertSpec(o)
  <2>1. w.stage \in Past /\ UNCHANGED <<hist, owed>>
    BY <1>20 DEF revertSpec, At, Past
  <2>2. conf'[n] = w.prev /\ \A m \in Names \ {n} : conf'[m] = conf[m]
    BY <1>20, <1>2 DEF revertSpec
  <2> QED BY <1>20, <2>1, <2>2, <1>15 DEF revertSpec, Past
<1>21. CASE revertService(o)
  <2>1. w.stage = "back" /\ UNCHANGED <<conf, hist, owed>> /\ Done(o)
    BY <1>21 DEF revertService, At
  <2> QED BY <2>1, <1>4, <1>16 DEF Past
\* The list is read, and written back with what was replaced in front.
<1>22. CASE ConfigHistory(o)
  <2>1. w.stage \in Past /\ UNCHANGED <<conf, hist, owed>>
    BY <1>22 DEF ConfigHistory, At, Past
  <2>2. /\ work'[o].stage = "record" /\ work'[o].n = n /\ work'[o].prev = w.prev
        /\ work'[o].kept = hist[n]
        /\ \A q \in Operators \ {o} : work'[q] = work[q]
    BY <1>22, <1>2 DEF ConfigHistory, Jobs
  <2>3. OneStep(o)
    BY <2>1, <2>2 DEF OneStep
  <2>4. ASSUME n \in owed PROVE KeptFor(n)'
    BY <1>1, <1>4, <2>1, <2>2, <2>3, <2>4, OwnPast DEF Past
  <2> QED BY <1>3, <2>1, <2>3, <2>4
<1>23. CASE recordConfigChange(o)
  <2>1. /\ w.stage = "record" /\ UNCHANGED conf /\ Done(o)
        /\ owed' = IF Len(w.kept) < Keep THEN owed ELSE owed \ {n}
        /\ hist' = [hist EXCEPT ![n] = Capped(<<w.prev>> \o w.kept)]
    BY <1>23 DEF recordConfigChange, At
  <2>2. OneStep(o)
    BY <2>1, <1>2, <1>5 DEF OneStep
  <2>3. ASSUME n \in owed' PROVE KeptFor(n)'
    <3>1. n \in owed /\ Len(w.kept) < Keep
      BY <2>1, <2>3
    <3>2. w.kept = hist[n] /\ (Works(w.prev) \/ HistWorks(n))
      BY <3>1, <2>1, <1>4 DEF Past
    <3> DEFINE h == <<w.prev>> \o w.kept
    <3>3. /\ w.kept \in Seq(Sounds) /\ w.prev \in Sounds
          /\ Len(w.kept) \in Nat /\ Keep \in Nat
      BY <1>2, <2>1, TunnelsAssumption DEF Ready, Jobs, Past, TunnelsAssumption
    <3>4. /\ h \in Seq(Sounds) /\ Len(h) = Len(w.kept) + 1
          /\ h[1] = w.prev /\ \A i \in 1 .. Len(w.kept) : h[i + 1] = w.kept[i]
      BY <3>3
    <3> HIDE DEF h
    <3>5. Capped(h) = h
      <4>1. ~(Len(h) > Keep)
        BY <3>1, <3>3, <3>4
      <4>2. SubSeq(h, 1, Len(h)) = h
        BY <3>4
      <4> QED BY <4>1, <4>2 DEF Capped
    <3>6. hist'[n] = h
      BY <2>1, <3>5, <1>2 DEF h
    <3>7. HistWorks(n)'
      <4>1. CASE Works(w.prev)
        <5>1. 1 \in DOMAIN h /\ Works(h[1])
          BY <4>1, <3>3, <3>4
        <5> QED BY <5>1, <3>6 DEF HistWorks, Works
      <4>2. CASE HistWorks(n)
        <5>1. PICK i \in DOMAIN hist[n] : Works(hist[n][i])
          BY <4>2 DEF HistWorks
        <5>2. i \in 1 .. Len(w.kept) /\ Works(w.kept[i])
          BY <5>1, <3>2, <3>3
        <5>3. i + 1 \in DOMAIN h /\ Works(h[i + 1])
          BY <5>2, <3>3, <3>4
        <5> QED BY <5>3, <3>6 DEF HistWorks, Works
      <4> QED BY <4>1, <4>2, <3>2
    <3>8. ~AtWork(o, n)'
      BY <2>1, <1>5 DEF AtWork, At, Idle
    <3>9. \A q \in Operators \ {o} : ~AtWork(q, n) /\ work'[q] = work[q]
      BY <3>1, <1>1, <1>5, <2>1, OwnNow
    <3> QED BY <3>7, <3>8, <3>9, Here
  <2>4. \A m \in owed' : m # n => m \in owed
    BY <2>1
  <2> QED BY <1>3, <2>2, <2>3, <2>4
\* A new tunnel is owed its way back when it works and nobody else is at it.
<1>24. CASE SaveNew(o)
  <2>1. /\ w.stage = "new" /\ UNCHANGED hist /\ Goto(o, "launch")
        /\ conf' = [conf EXCEPT ![n] = Render(w.s)]
        /\ owed' = IF /\ conf[n] = NoFile
                      /\ Works(w.s)
                      /\ \A q \in Operators \ {o} : ~AtWork(q, n)
                   THEN owed \cup {n} ELSE owed \ {n}
    BY <1>24 DEF SaveNew, At
  <2>2. OneStep(o)
    BY <2>1, <1>2, <1>6 DEF OneStep
  <2>3. ASSUME n \in owed' PROVE KeptFor(n)'
    <3>1. Works(w.s) /\ \A q \in Operators \ {o} : ~AtWork(q, n) /\ work'[q] = work[q]
      BY <2>1, <2>3, <1>6
    <3>2. Sound(w.s)
      BY <2>1, <1>2, SoundsFile DEF Ready, Jobs
    <3>3. Works(conf'[n])
      BY <2>1, <3>1, <3>2, <1>2, RenderSound
    <3>4. work'[o].stage \notin Past /\ ~At(o, "back")' /\ ~At(o, "record")'
      BY <2>1, <1>6 DEF Past, At
    <3> QED BY <3>1, <3>3, <3>4, Here
  <2>4. \A m \in owed' : m # n => m \in owed
    BY <2>1
  <2> QED BY <1>3, <2>2, <2>3, <2>4
\* A layer-3 tunnel has no port of ours to bind.
<1>25. CASE SaveL3(o)
  <2>1. /\ w.stage = "direct" /\ UNCHANGED <<hist, owed>>
        /\ \/ conf' = [conf EXCEPT ![n] = w.s] /\ Goto(o, "relaunch")
           \/ Done(o) /\ UNCHANGED conf
    BY <1>25 DEF SaveL3, At
  <2>2. CASE Done(o) /\ UNCHANGED conf
    BY <2>1, <2>2, <1>9 DEF Past
  <2>3. CASE conf' = [conf EXCEPT ![n] = w.s] /\ Goto(o, "relaunch")
    <3>1. OneStep(o)
      BY <2>1, <2>3, <1>2, <1>6 DEF OneStep
    <3>2. Works(conf'[n])
      BY <2>1, <2>3, <1>2 DEF Works, Ready
    <3>3. work'[o].stage \notin Past
      BY <2>3, <1>6 DEF Past
    <3>4. ASSUME n \in owed PROVE KeptFor(n)'
      BY <1>1, <2>1, <3>1, <3>2, <3>3, <3>4, OwnEarly
    <3> QED BY <1>3, <2>1, <3>1, <3>4
  <2> QED BY <2>1, <2>2, <2>3
\* Deleted or cut: nothing is owed any more.
<1>26. CASE removeTunnel(o) \/ Cut(o)
  <2>1. owed' = owed \ {n} /\ Done(o) /\ UNCHANGED hist
        /\ \A m \in Names \ {n} : conf'[m] = conf[m]
    BY <1>26, <1>2 DEF removeTunnel, Cut
  <2>2. OneStep(o)
    BY <2>1, <1>5 DEF OneStep
  <2> QED BY <1>3, <2>1, <2>2
<1> QED BY <1>11, <1>12, <1>13, <1>14, <1>17, <1>18, <1>19, <1>20, <1>21, <1>22, <1>23,
           <1>24, <1>25, <1>26 DEF Step

\* Beginning one: beside another of the same tunnel, nothing is owed any more.
LEMMA BeginKept ==
  ASSUME DiskSound, WayBackInv, NEW o \in Operators, NEW n \in Names, Begin(o, n)
  PROVE  WayBackInv'
<1>1. /\ conf' = conf /\ hist' = hist
      /\ \E st \in Stages \ Past : \E s : Start(o, n, st, s)
  BY DEF Begin, manageOne, PanelEdit, ApplyTunnel, CreateTunnel, CreateDirectTunnel, uniqueName,
         RestoreConfigFrom, Delete, Stages, Past
<1>2. PICK st \in Stages \ Past : \E s : Start(o, n, st, s)
  BY <1>1
<1>3. /\ work'[o].n = n /\ work'[o].stage = st /\ At(o, "idle")
      /\ \A q \in Operators \ {o} : work'[q] = work[q]
  BY <1>2 DEF Start, DiskSound
<1>4. SUFFICES ASSUME NEW m \in owed' PROVE KeptFor(m)'
  BY DEF WayBackInv
<1>5. m \in owed /\ KeptFor(m) /\ ~AtWork(o, m)
  BY <1>2, <1>3 DEF Start, WayBackInv, AtWork
<1>6. CASE m # n
  <2>1. ~AtWork(o, m)'
    BY <1>3, <1>6 DEF AtWork
  <2> QED BY <1>1, <1>3, <1>5, <2>1, Elsewhere
<1>7. CASE m = n
  <2>1. \A q \in Operators : ~AtWork(q, n)
    BY <1>2, <1>7 DEF Start
  <2>2. Works(conf[n]) \/ HistWorks(n)
    BY <1>5, <1>7, <2>1 DEF KeptFor
  <2>3. Works(conf'[n]) \/ HistWorks(n)'
    BY <1>1, <2>2 DEF HistWorks, Works
  <2>4. work'[o].stage \notin Past /\ ~At(o, "back")' /\ ~At(o, "record")'
    BY <1>3 DEF At, Past
  <2> QED BY <1>3, <1>7, <2>1, <2>3, <2>4, Here
<1> QED BY <1>6, <1>7

\* systemd changes neither file nor history.
LEMMA QuietKept ==
  ASSUME WayBackInv, UNCHANGED <<conf, hist, work, owed>> PROVE WayBackInv'
BY DEF WayBackInv, KeptFor, AtWork, At, HistWorks, Works

\* "A bad edit can never leave the user with a dead tunnel and a lost config"
\* (applySpec, edit.go:578): WayBackKept, for any number of tunnels, operators,
\* forms and ports and any length of history - while no two edits of the tunnel
\* overlap and none is cut, a working configuration that was there is the file,
\* in the history, or in the hands of the operator at work.
THEOREM NeverLost == TunSpec => []WayBackKept
<1> USE TunnelsAssumption
<1>1. TunInit => WayBackInv
  <2> SUFFICES ASSUME TunInit, NEW n \in owed PROVE KeptFor(n)
    BY DEF WayBackInv
  <2>1. \A o \in Operators : ~AtWork(o, n)
    BY DEF TunInit, AtWork, At, Idle
  <2>2. Works(conf[n])
    BY DEF TunInit
  <2> QED BY <2>1, <2>2 DEF KeptFor
<1>2. DiskSound /\ WayBackInv /\ [TunNext]_tunVars => WayBackInv'
  <2> SUFFICES ASSUME DiskSound, WayBackInv, [TunNext]_tunVars PROVE WayBackInv'
    OBVIOUS
  <2>1. CASE UNCHANGED tunVars
    BY <2>1, QuietKept DEF tunVars
  <2>2. ASSUME NEW o \in Operators, Step(o) PROVE WayBackInv'
    BY <2>2, StepKept
  <2>3. ASSUME NEW o \in Operators, NEW n \in Names, Begin(o, n) PROVE WayBackInv'
    BY <2>3, BeginKept
  <2>4. ASSUME NEW n \in Names, System(n) PROVE WayBackInv'
    BY <2>4, QuietKept DEF System, StartService, StopService, RestartService, Die, AutoRestart
  <2> QED BY <2>1, <2>2, <2>3, <2>4 DEF TunNext
<1>3. WayBackInv => WayBackKept
  BY DEF WayBackInv, WayBackKept, KeptFor
<1> QED BY <1>1, <1>2, <1>3, SoundDisk, PTL DEF TunSpec

------------------------------------------------------------------------------
(* RevUdp.  The limiter's counter is one for every run, while queues, loops  *)
(* and tables are a run's own.  That each flow is counted once rests on      *)
(* where a flow can be: once in its run's queue, or in its handle loop's     *)
(* hand, or paired with a socket.  That no socket is left unread rests on a  *)
(* paired flow being the only one that has a socket of the pool's.           *)

(* Where a flow can be.                                                      *)
FlowStages == {"none", "queued", "pairing", "relaying"}

FlowTypes ==
    /\ udpRun \in UdpRuns /\ live \in BOOLEAN /\ active \in Int
    /\ table \in [UdpRuns -> SUBSET Users] /\ queue \in [UdpRuns -> Seq(Users)]
    /\ stage \in [UdpRuns -> [Users -> FlowStages]]
    /\ udpReader \in [UdpRuns -> Users \cup {Nobody}]
    /\ loop \in [UdpRuns -> Users \cup {Nobody, "over"}]
    /\ with \in [UdpRuns -> [Users -> Sockets \cup {Nobody}]]
    /\ pool \in [UdpRuns -> Seq(Sockets)] /\ known \subseteq Sockets
    /\ ~live => udpRun < MaxUdpRuns

(* What waits in a run's queue is a queued flow of that run, and waits once. *)
FlowsQueued == \A g \in UdpRuns : \A i \in 1..Len(queue[g]) : stage[g][queue[g][i]] = "queued"
FlowsOnce == \A g \in UdpRuns : \A i, j \in 1..Len(queue[g]) : queue[g][i] = queue[g][j] => i = j

(* The flow in a handle loop's hand is being paired, and a flow that was     *)
(* paired is relayed.                                                        *)
InHand == \A g \in UdpRuns : \A u \in Users :
              /\ loop[g] = u => stage[g][u] = "pairing"
              /\ with[g][u] # Nobody => stage[g][u] = "relaying"

(* A flow has its address in the table as long as it has a stage.            *)
Entered == \A g \in UdpRuns : \A u \in Users : u \in table[g] <=> stage[g][u] # "none"

(* Somebody will read from, or take out, every socket a live run knows.      *)
SocketsKnown == live => known \subseteq ToSet(pool[udpRun]) \cup {with[udpRun][u] : u \in Users}

FlowInv == /\ FlowTypes /\ FlowsQueued /\ FlowsOnce /\ InHand /\ Entered
           /\ SocketsKnown /\ SlotsHeld

Held == {p \in UdpRuns \X Users : stage[p[1]][p[2]] # "none"}

(* The flow of u in run g goes to stage v, and no other flow does.           *)
Put(g, u, v) == \A h \in UdpRuns, w \in Users :
                    stage'[h][w] = IF h = g /\ w = u THEN v ELSE stage[h][w]

------------------------------------------------------------------------------
LEMMA HeldFinite == IsFiniteSet(Held) /\ Cardinality(Held) \in Nat
<1>1. IsFiniteSet(UdpRuns)
  BY UdpAssumption, FS_Interval DEF UdpRuns
<1>2. IsFiniteSet(UdpRuns \X Users)
  BY <1>1, UdpAssumption, FS_Product
<1> QED
  BY <1>2, FS_Subset, FS_CardinalityType DEF Held

(* The step's own way of writing it.                                         *)
LEMMA PutStage ==
    ASSUME FlowTypes, NEW g \in UdpRuns, NEW u \in Users, NEW v \in FlowStages,
           stage' = [stage EXCEPT ![g][u] = v]
    PROVE  Put(g, u, v) /\ stage' \in [UdpRuns -> [Users -> FlowStages]]
<1>1. stage[g] \in [Users -> FlowStages]
  BY DEF FlowTypes
<1>2. [stage[g] EXCEPT ![u] = v] \in [Users -> FlowStages]
  BY <1>1
<1> QED
  BY <1>1, <1>2 DEF FlowTypes, Put

(* A new flow is one more.                                                   *)
LEMMA HeldGains ==
    ASSUME FlowTypes, SlotsHeld, NEW g \in UdpRuns, NEW u \in Users, NEW v \in FlowStages \ {"none"},
           stage[g][u] = "none", Put(g, u, v), active' = active + 1
    PROVE  SlotsHeld'
<1>1. Held' = Held \cup {<<g, u>>} /\ <<g, u>> \notin Held
  BY DEF Held, Put
<1>2. Cardinality(Held') = Cardinality(Held) + 1
  BY <1>1, HeldFinite, FS_AddElement
<1> QED
  BY <1>2 DEF SlotsHeld, Held

(* A flow that is given up is one less.                                      *)
LEMMA HeldLoses ==
    ASSUME FlowTypes, SlotsHeld, NEW g \in UdpRuns, NEW u \in Users,
           stage[g][u] # "none", Put(g, u, "none"), active' = active - 1
    PROVE  SlotsHeld'
<1>1. Held' = Held \ {<<g, u>>} /\ <<g, u>> \in Held
  BY DEF Held, Put
<1>2. Cardinality(Held') = Cardinality(Held) - 1
  BY <1>1, HeldFinite, FS_RemoveElement
<1> QED
  BY <1>2 DEF SlotsHeld, Held

(* A flow that goes on is none.                                              *)
LEMMA HeldKept ==
    ASSUME FlowTypes, SlotsHeld, NEW g \in UdpRuns, NEW u \in Users, NEW v \in FlowStages \ {"none"},
           stage[g][u] # "none", Put(g, u, v), UNCHANGED active
    PROVE  SlotsHeld'
<1>1. Held' = Held
  BY DEF Held, Put
<1> QED
  BY <1>1 DEF SlotsHeld, Held

(* A step that moves a flow that is not queued disturbs no queue.            *)
LEMMA QueuesStand ==
    ASSUME FlowTypes, FlowsQueued, FlowsOnce, NEW g \in UdpRuns, NEW u \in Users, NEW v \in FlowStages,
           stage[g][u] # "queued", Put(g, u, v), UNCHANGED queue
    PROVE  FlowsQueued' /\ FlowsOnce'
<1>1. ASSUME NEW h \in UdpRuns, NEW i \in 1..Len(queue[h])
      PROVE  stage'[h][queue[h][i]] = "queued"
  <2>1. queue[h] \in Seq(Users)
    BY DEF FlowTypes
  <2>2. queue[h][i] \in Users
    BY <1>1, <2>1
  <2>3. stage[h][queue[h][i]] = "queued"
    BY <1>1 DEF FlowsQueued
  <2> QED
    BY <2>2, <2>3 DEF Put
<1>2. FlowsQueued'
  BY <1>1 DEF FlowsQueued
<1> QED
  BY <1>2 DEF FlowsOnce

(* What a flow's tunnel end is, when one flow's changes.                     *)
LEMMA WithSet ==
    ASSUME FlowTypes, NEW g \in UdpRuns, NEW u \in Users, NEW k \in Sockets \cup {Nobody},
           with' = [with EXCEPT ![g][u] = k]
    PROVE  /\ with' \in [UdpRuns -> [Users -> Sockets \cup {Nobody}]]
           /\ \A h \in UdpRuns, w \in Users : with'[h][w] = IF h = g /\ w = u THEN k ELSE with[h][w]
<1>1. with[g] \in [Users -> Sockets \cup {Nobody}]
  BY DEF FlowTypes
<1>2. [with[g] EXCEPT ![u] = k] \in [Users -> Sockets \cup {Nobody}]
  BY <1>1
<1> QED
  BY <1>1, <1>2 DEF FlowTypes

(* What is in a queue or pool that grew, and in one that lost its head.      *)
LEMMA SetOfAppend ==
    ASSUME NEW S, NEW s \in Seq(S), NEW e \in S
    PROVE  Append(s, e) \in Seq(S) /\ ToSet(Append(s, e)) = ToSet(s) \cup {e}
<1>1. /\ Append(s, e) \in Seq(S) /\ Len(Append(s, e)) = Len(s) + 1 /\ Len(s) \in Nat
      /\ \A i \in 1..Len(s) : Append(s, e)[i] = s[i]
      /\ Append(s, e)[Len(s) + 1] = e
  OBVIOUS
<1>2. ToSet(Append(s, e)) = {Append(s, e)[i] : i \in 1..(Len(s) + 1)} /\ ToSet(s) = {s[i] : i \in 1..Len(s)}
  BY <1>1 DEF ToSet
<1>3. 1..(Len(s) + 1) = 1..Len(s) \cup {Len(s) + 1}
  BY <1>1
<1>4. \A x : x \in {Append(s, e)[i] : i \in 1..(Len(s) + 1)} <=> x \in {s[i] : i \in 1..Len(s)} \cup {e}
  BY <1>1, <1>3
<1> QED
  BY <1>1, <1>2, <1>4
LEMMA SetOfTail ==
    ASSUME NEW S, NEW s \in Seq(S), s # <<>>
    PROVE  /\ Head(s) \in S /\ Tail(s) \in Seq(S) /\ Head(s) = s[1] /\ Len(s) \in Nat \ {0}
           /\ Len(Tail(s)) = Len(s) - 1
           /\ \A i \in 1..(Len(s) - 1) : i + 1 \in 1..Len(s) /\ Tail(s)[i] = s[i + 1]
           /\ ToSet(s) \subseteq ToSet(Tail(s)) \cup {Head(s)}
<1>1. /\ Head(s) \in S /\ Tail(s) \in Seq(S) /\ Head(s) = s[1] /\ Len(s) \in Nat \ {0}
      /\ Len(Tail(s)) = Len(s) - 1
      /\ \A i \in 1..(Len(s) - 1) : i + 1 \in 1..Len(s) /\ Tail(s)[i] = s[i + 1]
  OBVIOUS
<1>2. /\ ToSet(Tail(s)) = {Tail(s)[i] : i \in 1..(Len(s) - 1)}
      /\ ToSet(s) = {s[i] : i \in 1..Len(s)}
  <2>1. DOMAIN Tail(s) = 1..(Len(s) - 1) /\ DOMAIN s = 1..Len(s)
    BY <1>1
  <2> QED
    BY <2>1 DEF ToSet
<1>3. ASSUME NEW i \in 1..Len(s) PROVE s[i] \in {Tail(s)[j] : j \in 1..(Len(s) - 1)} \cup {Head(s)}
  <2>1. CASE i = 1
    BY <1>1, <2>1
  <2>2. CASE i # 1
    <3>1. i - 1 \in 1..(Len(s) - 1) /\ (i - 1) + 1 = i
      BY <1>1, <2>2
    <3>2. Tail(s)[i - 1] = s[i]
      BY <1>1, <3>1
    <3> QED
      BY <3>1, <3>2
  <2> QED
    BY <2>1, <2>2
<1> QED
  BY <1>1, <1>2, <1>3

------------------------------------------------------------------------------
(* The conjuncts that the set of flows decides, after one flow has moved     *)

LEMMA InHandMoves ==
    ASSUME FlowTypes, InHand, NEW g \in UdpRuns, NEW u \in Users, NEW v \in FlowStages, Put(g, u, v),
           \A h \in UdpRuns : loop'[h] = loop[h] \/ loop'[h] \in {Nobody, "over"}
                             \/ (h = g /\ loop'[h] = u /\ v = "pairing"),
           loop'[g] = u => v = "pairing",
           \A h \in UdpRuns, w \in Users : (h = g /\ w = u) \/ with'[h][w] = with[h][w],
           with'[g][u] # Nobody => v = "relaying"
    PROVE  InHand'
<1> SUFFICES ASSUME NEW h \in UdpRuns, NEW w \in Users
             PROVE  /\ loop'[h] = w => stage'[h][w] = "pairing"
                    /\ with'[h][w] # Nobody => stage'[h][w] = "relaying"
  BY DEF InHand
<1>1. stage'[h][w] = IF h = g /\ w = u THEN v ELSE stage[h][w]
  BY DEF Put
<1>2. loop'[h] = w => stage'[h][w] = "pairing"
  BY <1>1, UdpAssumption DEF InHand
<1> QED
  BY <1>1, <1>2 DEF InHand

(* A flow and its address go out together.                                   *)
LEMMA Drops ==
    ASSUME FlowTypes, SlotsHeld, Entered, NEW g \in UdpRuns, NEW u \in Users,
           stage[g][u] # "none", dropLocalFlow(g, u)
    PROVE  /\ Put(g, u, "none") /\ stage' \in [UdpRuns -> [Users -> FlowStages]]
           /\ table' \in [UdpRuns -> SUBSET Users] /\ active' \in Int
           /\ SlotsHeld' /\ Entered'
<1>1. Put(g, u, "none") /\ stage' \in [UdpRuns -> [Users -> FlowStages]]
  BY PutStage DEF dropLocalFlow, FlowStages
<1>2. table' = [table EXCEPT ![g] = @ \ {u}] /\ active' = active - 1
  BY DEF dropLocalFlow
<1>3. SlotsHeld'
  BY <1>1, <1>2, HeldLoses
<1>4. table' \in [UdpRuns -> SUBSET Users] /\ active' \in Int
  BY <1>2 DEF FlowTypes
<1>5. Entered'
  BY <1>1, <1>2 DEF Entered, Put, FlowTypes
<1> QED
  BY <1>1, <1>3, <1>4, <1>5

------------------------------------------------------------------------------
(* The actions                                                              *)

(* Nothing that a flow or a socket of a live run needs has changed.          *)
LEMMA UdpElsewhere ==
    ASSUME FlowInv, UNCHANGED <<udpRun, table, stage, queue, loop, with, active, pool, known>>,
           udpReader' \in [UdpRuns -> Users \cup {Nobody}], live' \in BOOLEAN,
           live' => live, ~live' => udpRun < MaxUdpRuns
    PROVE  FlowInv'
<1>1. FlowTypes'
  BY DEF FlowInv, FlowTypes
<1> QED
  BY <1>1 DEF FlowInv, FlowsQueued, FlowsOnce, InHand, Entered, SocketsKnown, SlotsHeld

(* The limiter, the table and the queue take a new address.                  *)
LEMMA NewFlowInv == ASSUME FlowInv, NEW u \in Users, NewFlow(u) PROVE FlowInv'
<1> DEFINE r == udpRun
<1>1. /\ r \in UdpRuns /\ live /\ u \notin table[r] /\ queue[r] \in Seq(Users)
      /\ active' = active + 1 /\ table' = [table EXCEPT ![r] = @ \cup {u}]
      /\ stage' = [stage EXCEPT ![r][u] = "queued"]
      /\ queue' = [queue EXCEPT ![r] = Append(@, u)]
      /\ udpReader' = [udpReader EXCEPT ![r] = u]
      /\ UNCHANGED <<udpRun, live, loop, with, pool, known>>
  BY DEF FlowInv, FlowTypes, NewFlow, tunnel
<1> HIDE DEF r
<1>2. FlowTypes /\ FlowsQueued /\ FlowsOnce /\ InHand /\ Entered /\ SocketsKnown /\ SlotsHeld
  BY DEF FlowInv
<1>3. stage[r][u] = "none"
  BY <1>1, <1>2 DEF Entered
<1>4. Put(r, u, "queued") /\ stage' \in [UdpRuns -> [Users -> FlowStages]]
  BY <1>1, <1>2, PutStage DEF FlowStages
<1>5. Append(queue[r], u) \in Seq(Users)
  BY <1>1
<1>6. FlowTypes'
  BY <1>1, <1>2, <1>4, <1>5 DEF FlowTypes
<1>7. SlotsHeld'
  BY <1>1, <1>2, <1>3, <1>4, HeldGains DEF FlowStages
<1>8. Entered'
  BY <1>1, <1>2, <1>4 DEF Entered, Put, FlowTypes
<1>9. loop[r] # u /\ with[r][u] = Nobody
  BY <1>1, <1>2, <1>3 DEF InHand
<1>10. InHand'
  BY <1>1, <1>2, <1>4, <1>9, InHandMoves DEF FlowStages
<1>11. SocketsKnown'
  BY <1>1, <1>2 DEF SocketsKnown
<1>12. FlowsQueued' /\ FlowsOnce'
  <2>1. ASSUME NEW g \in UdpRuns, NEW i \in 1..Len(queue[g])
        PROVE  queue[g][i] \in Users /\ stage[g][queue[g][i]] = "queued"
    <3>1. queue[g] \in Seq(Users)
      BY <1>2 DEF FlowTypes
    <3> QED
      BY <1>2, <2>1, <3>1 DEF FlowsQueued
  <2>2. ASSUME NEW g \in UdpRuns, NEW i \in 1..Len(queue'[g])
        PROVE  \/ i \in 1..Len(queue[g]) /\ queue'[g][i] = queue[g][i]
               \/ g = r /\ i = Len(queue[r]) + 1 /\ queue'[g][i] = u
    <3>1. CASE g # r
      BY <1>1, <1>2, <2>2, <3>1 DEF FlowTypes
    <3>2. CASE g = r
      <4>1. queue'[g] = Append(queue[r], u)
        BY <1>1, <1>2, <3>2 DEF FlowTypes
      <4> QED
        BY <1>1, <2>2, <3>2, <4>1
    <3> QED
      BY <3>1, <3>2
  <2>3. FlowsQueued'
    <3> SUFFICES ASSUME NEW g \in UdpRuns, NEW i \in 1..Len(queue'[g])
                 PROVE  stage'[g][queue'[g][i]] = "queued"
      BY DEF FlowsQueued
    <3>1. CASE i \in 1..Len(queue[g]) /\ queue'[g][i] = queue[g][i]
      BY <1>4, <2>1, <3>1 DEF Put
    <3>2. CASE g = r /\ queue'[g][i] = u
      BY <1>4, <3>2 DEF Put
    <3> QED
      BY <2>2, <3>1, <3>2
  <2>4. FlowsOnce'
    <3> SUFFICES ASSUME NEW g \in UdpRuns, NEW i \in 1..Len(queue'[g]), NEW j \in 1..Len(queue'[g]),
                        queue'[g][i] = queue'[g][j]
                 PROVE  i = j
      BY DEF FlowsOnce
    <3>1. CASE i \in 1..Len(queue[g]) /\ j \in 1..Len(queue[g])
      <4>1. queue[g][i] = queue[g][j]
        BY <1>1, <2>2, <3>1
      <4> QED
        BY <1>2, <3>1, <4>1 DEF FlowsOnce
    <3>2. CASE i \notin 1..Len(queue[g]) \/ j \notin 1..Len(queue[g])
      BY <1>3, <2>1, <2>2, <3>2
    <3> QED
      BY <3>1, <3>2
  <2> QED
    BY <2>3, <2>4
<1> QED
  BY <1>6, <1>7, <1>8, <1>10, <1>11, <1>12 DEF FlowInv

(* The process is started again with nothing.                                *)
LEMMA CrashesInv == ASSUME FlowInv, Crashes PROVE FlowInv'
<1>1. udpRun \in 1..MaxUdpRuns /\ udpRun < MaxUdpRuns
  BY DEF FlowInv, FlowTypes, UdpRuns, Crashes
<1>2. udpRun' \in UdpRuns
  BY <1>1, UdpAssumption DEF Crashes, UdpRuns
<1>3. /\ live' = TRUE /\ active' = 0 /\ table' = [g \in UdpRuns |-> {}]
      /\ stage' = [g \in UdpRuns |-> [u \in Users |-> "none"]]
      /\ queue' = [g \in UdpRuns |-> <<>>] /\ pool' = [g \in UdpRuns |-> <<>>]
      /\ udpReader' = [g \in UdpRuns |-> Nobody]
      /\ loop' = [g \in UdpRuns |-> IF g <= udpRun THEN "over" ELSE Nobody]
      /\ with' = [g \in UdpRuns |-> [u \in Users |-> Nobody]] /\ known' = {}
  BY DEF Crashes, none
<1>4. FlowTypes'
  BY <1>2, <1>3 DEF FlowTypes, FlowStages
<1>5. Held' = {}
  BY <1>3 DEF Held
<1>6. SlotsHeld'
  BY <1>3, <1>5, FS_EmptySet DEF SlotsHeld, Held
<1>7. InHand'
  BY <1>3, UdpAssumption DEF InHand
<1>8. FlowsQueued' /\ FlowsOnce' /\ Entered' /\ SocketsKnown'
  BY <1>3 DEF FlowsQueued, FlowsOnce, Entered, SocketsKnown
<1> QED
  BY <1>4, <1>6, <1>7, <1>8 DEF FlowInv

(* The handle loop takes the head of its queue in hand, or gives it up.      *)
LEMMA TakesInv == ASSUME FlowInv, NEW g \in UdpRuns, Takes(g) PROVE FlowInv'
<1> DEFINE u == Head(queue[g])
<1>1. /\ queue[g] \in Seq(Users) /\ queue[g] # <<>> /\ loop[g] = Nobody
      /\ queue' = [queue EXCEPT ![g] = Tail(@)]
      /\ \/ dropLocalFlow(g, u) /\ UNCHANGED loop
         \/ /\ stage' = [stage EXCEPT ![g][u] = "pairing"] /\ loop' = [loop EXCEPT ![g] = u]
            /\ UNCHANGED <<table, active>>
      /\ UNCHANGED <<udpRun, live, udpReader, with, pool, known>>
  BY DEF FlowInv, FlowTypes, Takes, tunnel
<1>2. /\ u \in Users /\ u = queue[g][1] /\ Tail(queue[g]) \in Seq(Users)
      /\ Len(queue[g]) \in Nat \ {0} /\ Len(Tail(queue[g])) = Len(queue[g]) - 1
      /\ \A i \in 1..(Len(queue[g]) - 1) : i + 1 \in 1..Len(queue[g]) /\ Tail(queue[g])[i] = queue[g][i + 1]
  BY <1>1, SetOfTail
<1>3. FlowTypes /\ FlowsQueued /\ FlowsOnce /\ InHand /\ Entered /\ SocketsKnown /\ SlotsHeld
  BY DEF FlowInv
<1>4. stage[g][u] = "queued"
  BY <1>2, <1>3 DEF FlowsQueued
<1> HIDE DEF u
<1>5. queue' \in [UdpRuns -> Seq(Users)]
  BY <1>1, <1>2, <1>3 DEF FlowTypes
<1>6. PICK v \in FlowStages \ {"queued"} :
         /\ Put(g, u, v) /\ FlowTypes' /\ SlotsHeld' /\ Entered' /\ InHand'
  <2>1. with[g][u] = Nobody /\ loop[g] # u
    BY <1>2, <1>3, <1>4 DEF InHand
  <2>2. CASE dropLocalFlow(g, u) /\ UNCHANGED loop
    <3>1. /\ Put(g, u, "none") /\ stage' \in [UdpRuns -> [Users -> FlowStages]]
          /\ table' \in [UdpRuns -> SUBSET Users] /\ active' \in Int
          /\ SlotsHeld' /\ Entered'
      BY <1>2, <1>3, <1>4, <2>2, Drops
    <3>2. FlowTypes'
      BY <1>1, <1>3, <1>5, <2>2, <3>1 DEF FlowTypes
    <3>3. InHand'
      BY <1>1, <1>2, <1>3, <2>1, <2>2, <3>1, InHandMoves DEF FlowStages
    <3> QED
      BY <3>1, <3>2, <3>3 DEF FlowStages
  <2>3. CASE /\ stage' = [stage EXCEPT ![g][u] = "pairing"] /\ loop' = [loop EXCEPT ![g] = u]
             /\ UNCHANGED <<table, active>>
    <3>1. Put(g, u, "pairing") /\ stage' \in [UdpRuns -> [Users -> FlowStages]]
      BY <1>2, <1>3, <2>3, PutStage DEF FlowStages
    <3>2. loop' \in [UdpRuns -> Users \cup {Nobody, "over"}]
      BY <1>2, <1>3, <2>3 DEF FlowTypes
    <3>3. FlowTypes'
      BY <1>1, <1>3, <1>5, <2>3, <3>1, <3>2 DEF FlowTypes
    <3>4. SlotsHeld'
      BY <1>2, <1>3, <1>4, <2>3, <3>1, HeldKept DEF FlowStages
    <3>5. Entered'
      BY <1>2, <1>3, <1>4, <2>3, <3>1 DEF Entered, Put
    <3>6. \A h \in UdpRuns : loop'[h] = loop[h] \/ (h = g /\ loop'[h] = u)
      BY <1>3, <2>3 DEF FlowTypes
    <3>7. InHand'
      BY <1>1, <1>2, <1>3, <2>1, <3>1, <3>6, InHandMoves DEF FlowStages
    <3> QED
      BY <3>1, <3>3, <3>4, <3>5, <3>7 DEF FlowStages
  <2> QED
    BY <1>1, <2>2, <2>3
<1>7. ASSUME NEW h \in UdpRuns, NEW i \in 1..Len(queue'[h])
      PROVE  \E k \in 1..Len(queue[h]) : /\ k = (IF h = g THEN i + 1 ELSE i)
                                         /\ queue'[h][i] = queue[h][k]
  <2>1. CASE h # g
    BY <1>1, <1>3, <1>7, <2>1 DEF FlowTypes
  <2>2. CASE h = g
    <3>1. queue'[h] = Tail(queue[g])
      BY <1>1, <1>3, <2>2 DEF FlowTypes
    <3>2. i \in 1..(Len(queue[g]) - 1)
      BY <1>2, <1>7, <3>1
    <3> QED
      BY <1>2, <2>2, <3>1, <3>2
  <2> QED
    BY <2>1, <2>2
<1>8. FlowsQueued'
  <2> SUFFICES ASSUME NEW h \in UdpRuns, NEW i \in 1..Len(queue'[h])
               PROVE  stage'[h][queue'[h][i]] = "queued"
    BY DEF FlowsQueued
  <2>1. PICK k \in 1..Len(queue[h]) : /\ k = (IF h = g THEN i + 1 ELSE i)
                                      /\ queue'[h][i] = queue[h][k]
    BY <1>7
  <2>2. queue[h] \in Seq(Users) /\ queue[h][k] \in Users
    BY <1>3, <2>1 DEF FlowTypes
  <2>3. stage[h][queue[h][k]] = "queued"
    BY <1>3, <2>1 DEF FlowsQueued
  <2>4. ~(h = g /\ queue[h][k] = u)
    <3>1. CASE h = g
      <4>1. k # 1
        BY <1>7, <2>1, <3>1
      <4> QED
        BY <1>2, <1>3, <2>1, <3>1, <4>1 DEF FlowsOnce
    <3> QED
      BY <3>1
  <2> QED
    BY <1>6, <2>1, <2>2, <2>3, <2>4 DEF Put
<1>9. FlowsOnce'
  <2> SUFFICES ASSUME NEW h \in UdpRuns, NEW i \in 1..Len(queue'[h]), NEW j \in 1..Len(queue'[h]),
                      queue'[h][i] = queue'[h][j]
               PROVE  i = j
    BY DEF FlowsOnce
  <2>1. PICK k \in 1..Len(queue[h]) : k = (IF h = g THEN i + 1 ELSE i) /\ queue'[h][i] = queue[h][k]
    BY <1>7
  <2>2. PICK l \in 1..Len(queue[h]) : l = (IF h = g THEN j + 1 ELSE j) /\ queue'[h][j] = queue[h][l]
    BY <1>7
  <2>3. k = l
    BY <1>3, <2>1, <2>2 DEF FlowsOnce
  <2> QED
    BY <2>1, <2>2, <2>3
<1>10. SocketsKnown'
  BY <1>1, <1>3 DEF SocketsKnown
<1> QED
  BY <1>6, <1>8, <1>9, <1>10 DEF FlowInv

(* The head of the pool becomes the flow's, or is lost to it.                *)
LEMMA PairsInv == ASSUME FlowInv, NEW g \in UdpRuns, Pairs(g) PROVE FlowInv'
<1> DEFINE u == loop[g]
           k == Head(pool[g])
<1>1. /\ u \in Users /\ pool[g] \in Seq(Sockets) /\ pool[g] # <<>>
      /\ \/ /\ stage' = [stage EXCEPT ![g][u] = "relaying"] /\ loop' = [loop EXCEPT ![g] = Nobody]
            /\ with' = [with EXCEPT ![g][u] = k] /\ UNCHANGED known
         \/ known' = known \ {k} /\ UNCHANGED <<stage, loop, with>>
      /\ pool' = [pool EXCEPT ![g] = Tail(@)]
      /\ UNCHANGED <<udpRun, live, table, queue, udpReader, active>>
  BY DEF FlowInv, FlowTypes, Pairs
<1>2. FlowTypes /\ FlowsQueued /\ FlowsOnce /\ InHand /\ Entered /\ SocketsKnown /\ SlotsHeld
  BY DEF FlowInv
<1>3. /\ k \in Sockets /\ Tail(pool[g]) \in Seq(Sockets)
      /\ ToSet(pool[g]) \subseteq ToSet(Tail(pool[g])) \cup {k}
  BY <1>1, SetOfTail
<1>4. stage[g][u] = "pairing" /\ with[g][u] = Nobody
  BY <1>1, <1>2 DEF InHand
<1>5. \A h \in UdpRuns : pool'[h] = IF h = g THEN Tail(pool[g]) ELSE pool[h]
  BY <1>1, <1>2 DEF FlowTypes
<1>6. pool' \in [UdpRuns -> Seq(Sockets)]
  BY <1>1, <1>2, <1>3 DEF FlowTypes
<1>7. CASE known' = known \ {k} /\ UNCHANGED <<stage, loop, with>>
  <2>1. FlowTypes'
    BY <1>1, <1>2, <1>6, <1>7 DEF FlowTypes
  <2>2. SocketsKnown'
    <3>1. udpRun \in UdpRuns
      BY <1>2 DEF FlowTypes
    <3> QED
      BY <1>1, <1>2, <1>3, <1>5, <1>7, <3>1 DEF SocketsKnown
  <2> QED
    BY <1>1, <1>2, <1>7, <2>1, <2>2
       DEF FlowInv, FlowsQueued, FlowsOnce, InHand, Entered, SlotsHeld
<1>8. CASE /\ stage' = [stage EXCEPT ![g][u] = "relaying"] /\ loop' = [loop EXCEPT ![g] = Nobody]
           /\ with' = [with EXCEPT ![g][u] = k] /\ UNCHANGED known
  <2> HIDE DEF u, k
  <2>1. Put(g, u, "relaying") /\ stage' \in [UdpRuns -> [Users -> FlowStages]]
    BY <1>1, <1>2, <1>8, PutStage DEF FlowStages
  <2>2. /\ with' \in [UdpRuns -> [Users -> Sockets \cup {Nobody}]]
        /\ \A h \in UdpRuns, w \in Users : with'[h][w] = IF h = g /\ w = u THEN k ELSE with[h][w]
    BY <1>1, <1>2, <1>3, <1>8, WithSet
  <2>3. loop' \in [UdpRuns -> Users \cup {Nobody, "over"}]
    BY <1>2, <1>8 DEF FlowTypes
  <2>4. FlowTypes'
    BY <1>1, <1>2, <1>6, <1>8, <2>1, <2>2, <2>3 DEF FlowTypes
  <2>5. SlotsHeld'
    BY <1>1, <1>2, <1>4, <2>1, HeldKept DEF FlowStages
  <2>6. FlowsQueued' /\ FlowsOnce'
    BY <1>1, <1>2, <1>4, <2>1, QueuesStand DEF FlowStages
  <2>7. Entered'
    BY <1>1, <1>2, <1>4, <2>1 DEF Entered, Put
  <2>8. loop'[g] = Nobody /\ \A h \in UdpRuns : h # g => loop'[h] = loop[h]
    BY <1>2, <1>8 DEF FlowTypes
  <2>9. InHand'
    BY <1>1, <1>2, <2>1, <2>2, <2>8, InHandMoves, UdpAssumption DEF FlowStages
  <2>10. SocketsKnown'
    <3> SUFFICES ASSUME live, NEW e \in known
                 PROVE  e \in ToSet(pool'[udpRun]) \cup {with'[udpRun][w] : w \in Users}
      BY <1>1, <1>8 DEF SocketsKnown
    <3>1. udpRun \in UdpRuns /\ e \in ToSet(pool[udpRun]) \cup {with[udpRun][w] : w \in Users}
      BY <1>2 DEF SocketsKnown, FlowTypes
    <3>2. CASE e \in ToSet(pool[udpRun])
      <4>1. e \in ToSet(pool'[udpRun]) \/ (udpRun = g /\ e = k)
        BY <1>3, <1>5, <3>1, <3>2
      <4> QED
        BY <1>1, <2>2, <4>1
    <3>3. CASE \E w \in Users : e = with[udpRun][w]
      <4>1. PICK w \in Users : e = with[udpRun][w]
        BY <3>3
      <4>2. e # Nobody
        BY <1>2, UdpAssumption DEF FlowTypes
      <4>3. with'[udpRun][w] = e
        BY <1>1, <1>4, <2>2, <3>1, <4>1, <4>2
      <4> QED
        BY <4>3
    <3> QED
      BY <3>1, <3>2, <3>3
  <2> QED
    BY <2>4, <2>5, <2>6, <2>7, <2>9, <2>10 DEF FlowInv
<1> QED
  BY <1>1, <1>7, <1>8

(* The handle loop of a run that is over drops what it has in hand.          *)
LEMMA LoopEndsInv == ASSUME FlowInv, NEW g \in UdpRuns, LoopEnds(g) PROVE FlowInv'
<1>1. FlowTypes /\ FlowsQueued /\ FlowsOnce /\ InHand /\ Entered /\ SocketsKnown /\ SlotsHeld
  BY DEF FlowInv
<1>2. /\ loop' = [loop EXCEPT ![g] = "over"]
      /\ UNCHANGED <<udpRun, live, queue, udpReader, with, pool, known>>
  BY DEF LoopEnds, tunnel
<1>3. /\ loop' \in [UdpRuns -> Users \cup {Nobody, "over"}] /\ loop'[g] = "over"
      /\ \A h \in UdpRuns : h # g => loop'[h] = loop[h]
  BY <1>1, <1>2 DEF FlowTypes
<1>4. SocketsKnown'
  BY <1>1, <1>2 DEF SocketsKnown
<1>5. CASE loop[g] \in Users
  <2> DEFINE u == loop[g]
  <2>1. dropLocalFlow(g, u) /\ u \in Users /\ stage[g][u] = "pairing" /\ with[g][u] = Nobody
    BY <1>1, <1>5 DEF LoopEnds, InHand
  <2> HIDE DEF u
  <2>2. /\ Put(g, u, "none") /\ stage' \in [UdpRuns -> [Users -> FlowStages]]
        /\ table' \in [UdpRuns -> SUBSET Users] /\ active' \in Int
        /\ SlotsHeld' /\ Entered'
    BY <1>1, <2>1, Drops
  <2>3. FlowTypes'
    BY <1>1, <1>2, <1>3, <2>2 DEF FlowTypes
  <2>4. FlowsQueued' /\ FlowsOnce'
    BY <1>1, <1>2, <2>1, <2>2, QueuesStand DEF FlowStages
  <2>5. InHand'
    BY <1>1, <1>2, <1>3, <2>1, <2>2, InHandMoves, UdpAssumption DEF FlowStages
  <2> QED
    BY <1>4, <2>2, <2>3, <2>4, <2>5 DEF FlowInv
<1>6. CASE loop[g] \notin Users
  <2>1. UNCHANGED <<stage, active, table>>
    BY <1>6 DEF LoopEnds
  <2>2. FlowTypes'
    BY <1>1, <1>2, <1>3, <2>1 DEF FlowTypes
  <2>3. InHand'
    BY <1>1, <1>2, <1>3, <2>1, UdpAssumption DEF InHand
  <2> QED
    BY <1>1, <1>2, <1>4, <2>1, <2>2, <2>3 DEF FlowInv, FlowsQueued, FlowsOnce, Entered, SlotsHeld
<1> QED
  BY <1>5, <1>6

(* A flow that both directions have left goes with its socket.               *)
LEMMA CopyInv == ASSUME FlowInv, NEW g \in UdpRuns, NEW u \in Users, udpCopy(g, u) PROVE FlowInv'
<1>1. FlowTypes /\ FlowsQueued /\ FlowsOnce /\ InHand /\ Entered /\ SocketsKnown /\ SlotsHeld
  BY DEF FlowInv
<1>2. /\ stage[g][u] = "relaying" /\ dropLocalFlow(g, u)
      /\ known' = IF Over(g) THEN known ELSE known \ {with[g][u]}
      /\ with' = [with EXCEPT ![g][u] = Nobody]
      /\ UNCHANGED <<udpRun, live, queue, udpReader, loop, pool>>
  BY DEF udpCopy
<1>3. /\ Put(g, u, "none") /\ stage' \in [UdpRuns -> [Users -> FlowStages]]
      /\ table' \in [UdpRuns -> SUBSET Users] /\ active' \in Int
      /\ SlotsHeld' /\ Entered'
  BY <1>1, <1>2, Drops
<1>4. /\ with' \in [UdpRuns -> [Users -> Sockets \cup {Nobody}]]
      /\ \A h \in UdpRuns, w \in Users : with'[h][w] = IF h = g /\ w = u THEN Nobody ELSE with[h][w]
  BY <1>1, <1>2, WithSet
<1>5. FlowTypes'
  BY <1>1, <1>2, <1>3, <1>4 DEF FlowTypes
<1>6. FlowsQueued' /\ FlowsOnce'
  BY <1>1, <1>2, <1>3, QueuesStand DEF FlowStages
<1>7. InHand'
  <2>1. loop[g] # u
    BY <1>1, <1>2 DEF InHand
  <2> QED
    BY <1>1, <1>2, <1>3, <1>4, <2>1, InHandMoves DEF FlowStages
<1>8. SocketsKnown'
  <2> SUFFICES ASSUME live, NEW e \in known'
               PROVE  e \in ToSet(pool[udpRun]) \cup {with'[udpRun][w] : w \in Users}
    BY <1>2 DEF SocketsKnown
  <2>1. /\ udpRun \in UdpRuns /\ e \in known /\ e # Nobody
        /\ e \in ToSet(pool[udpRun]) \cup {with[udpRun][w] : w \in Users}
    BY <1>1, <1>2, UdpAssumption DEF SocketsKnown, FlowTypes
  <2>2. CASE \E w \in Users : e = with[udpRun][w]
    <3>1. PICK w \in Users : e = with[udpRun][w]
      BY <2>2
    <3>2. ~(udpRun = g /\ w = u)
      <4>1. CASE udpRun = g
        <5>1. ~Over(g)
          BY <1>1, <4>1 DEF Over, FlowTypes, UdpRuns
        <5>2. e # with[g][u]
          BY <1>2, <5>1
        <5> QED
          BY <3>1, <4>1, <5>2
      <4> QED
        BY <4>1
    <3>3. with'[udpRun][w] = e
      BY <1>4, <2>1, <3>1, <3>2
    <3> QED
      BY <3>3
  <2> QED
    BY <2>1, <2>2
<1> QED
  BY <1>3, <1>5, <1>6, <1>7, <1>8 DEF FlowInv

(* A socket that introduces itself is known as long as it is in the pool.    *)
LEMMA IntroducedInv == ASSUME FlowInv, NEW k \in Sockets, Introduced(k) PROVE FlowInv'
<1> DEFINE r == udpRun
<1>1. FlowTypes /\ FlowsQueued /\ FlowsOnce /\ InHand /\ Entered /\ SocketsKnown /\ SlotsHeld
  BY DEF FlowInv
<1>2. /\ UNCHANGED <<udpRun, live, table, stage, queue, udpReader, loop, with, active>> /\ live
      /\ \/ known' = known \cup {k} /\ pool' = [pool EXCEPT ![r] = Append(@, k)]
         \/ UNCHANGED <<known, pool>>
  BY DEF Introduced, flows
<1>3. CASE UNCHANGED <<known, pool>>
  BY <1>1, <1>2, <1>3, UdpElsewhere DEF FlowTypes, FlowInv
<1>4. CASE known' = known \cup {k} /\ pool' = [pool EXCEPT ![r] = Append(@, k)]
  <2>1. r \in UdpRuns /\ pool[r] \in Seq(Sockets)
    BY <1>1 DEF FlowTypes
  <2> HIDE DEF r
  <2>2. Append(pool[r], k) \in Seq(Sockets) /\ ToSet(Append(pool[r], k)) = ToSet(pool[r]) \cup {k}
    BY <2>1, SetOfAppend
  <2>3. FlowTypes'
    BY <1>1, <1>2, <1>4, <2>1, <2>2 DEF FlowTypes
  <2>4. pool'[r] = Append(pool[r], k)
    BY <1>1, <1>4, <2>1 DEF FlowTypes
  <2>5. SocketsKnown'
    BY <1>1, <1>2, <1>4, <2>2, <2>4 DEF SocketsKnown, r
  <2> QED
    BY <1>1, <1>2, <2>3, <2>5 DEF FlowInv, FlowsQueued, FlowsOnce, InHand, Entered, SlotsHeld
<1> QED
  BY <1>2, <1>3, <1>4

(* The next run's table of sockets is new.                                   *)
LEMMA NextRunInv == ASSUME FlowInv, NextRun PROVE FlowInv'
<1>1. FlowTypes /\ FlowsQueued /\ FlowsOnce /\ InHand /\ Entered /\ SlotsHeld
  BY DEF FlowInv
<1>2. /\ udpRun' = udpRun + 1 /\ live' = TRUE /\ known' = {} /\ udpRun < MaxUdpRuns
      /\ UNCHANGED <<table, stage, queue, udpReader, loop, with, active, pool>>
  BY <1>1 DEF NextRun, flows, FlowTypes
<1>3. udpRun' \in UdpRuns
  BY <1>1, <1>2, UdpAssumption DEF FlowTypes, UdpRuns
<1>4. FlowTypes'
  BY <1>1, <1>2, <1>3 DEF FlowTypes
<1> QED
  BY <1>1, <1>2, <1>4 DEF FlowInv, FlowsQueued, FlowsOnce, InHand, Entered, SocketsKnown, SlotsHeld

(* NewUDPServer: no flow and no socket.                                      *)
LEMMA UdpInitInv == UdpInit => FlowInv
<1> SUFFICES ASSUME UdpInit
             PROVE  FlowInv
  OBVIOUS
<1>1. FlowTypes
  BY UdpAssumption DEF UdpInit, FlowTypes, FlowStages, UdpRuns, none
<1>2. Held = {}
  BY DEF UdpInit, Held, none
<1>3. SlotsHeld
  BY <1>2, FS_EmptySet DEF UdpInit, SlotsHeld, Held
<1>4. InHand /\ FlowsQueued /\ FlowsOnce /\ Entered /\ SocketsKnown
  BY UdpAssumption DEF UdpInit, InHand, FlowsQueued, FlowsOnce, Entered, SocketsKnown, none
<1> QED
  BY <1>1, <1>3, <1>4 DEF FlowInv

(* One case per action.                                                      *)
LEMMA UdpStepInv == FlowInv /\ [UdpNext]_udpVars => FlowInv'
<1> SUFFICES ASSUME FlowInv, [UdpNext]_udpVars
             PROVE  FlowInv'
  OBVIOUS
<1> USE DEF flows, tunnel
<1>1. udpReader \in [UdpRuns -> Users \cup {Nobody}] /\ live \in BOOLEAN /\ (~live => udpRun < MaxUdpRuns)
  BY DEF FlowInv, FlowTypes
<1>2. ASSUME NEW g \in UdpRuns, FirstPayload(g)
      PROVE  FlowInv'
  <2>1. CASE Crashes
    BY <2>1, CrashesInv
  <2>2. CASE ~Crashes
    BY <1>1, <1>2, <2>2, UdpElsewhere DEF FirstPayload
  <2> QED
    BY <2>1, <2>2
<1>3. ASSUME NEW g \in UdpRuns, NEW u \in Users, udpLocalCopy(g, u) \/ udpTunnelCopy(g, u)
      PROVE  FlowInv'
  BY <1>1, <1>3, UdpElsewhere DEF udpLocalCopy, udpTunnelCopy
<1>4. ASSUME NEW k \in Sockets,
             tunnelDialer(k) \/ Targeted(k) \/ Mistaken(k) \/ copyEnds(k) \/ Recycled(k)
      PROVE  FlowInv'
  BY <1>1, <1>4, UdpElsewhere DEF tunnelDialer, Targeted, Mistaken, copyEnds, Recycled
<1>5. CASE ClientEnds \/ \E d \in wire : Lose(d)
  BY <1>1, <1>5, UdpElsewhere DEF ClientEnds, Lose
<1>7. CASE UdpRunEnds
  <2>1. live' = FALSE /\ udpRun < MaxUdpRuns
    BY <1>7 DEF UdpRunEnds
  <2> QED
    BY <1>1, <1>7, <2>1, UdpElsewhere DEF UdpRunEnds
<1>6. CASE UNCHANGED udpVars
  BY <1>1, <1>6, UdpElsewhere DEF udpVars
<1> QED
  BY <1>2, <1>3, <1>4, <1>5, <1>6, <1>7, NewFlowInv, TakesInv, PairsInv, LoopEndsInv, CopyInv, IntroducedInv,
     NextRunInv DEF UdpNext, Server

(* For any number of users, sockets, runs and queue places: the limiter      *)
(* counts each flow that holds a slot once, in whatever run it began.        *)
THEOREM UdpSlotsHeld == UdpSpec => []SlotsHeld
<1>1. FlowInv => SlotsHeld
  BY DEF FlowInv
<1> QED
  BY UdpInitInv, UdpStepInv, <1>1, PTL DEF UdpSpec

(* No address and no socket stays in a table with nobody to read what is     *)
(* filed with it or to take it out.                                          *)
THEOREM UdpNoStaleEntry == UdpSpec => []NoStaleEntry
<1>1. FlowInv => NoStaleEntry
  <2> SUFFICES ASSUME FlowInv
               PROVE  NoStaleEntry
    OBVIOUS
  <2>1. \A g \in UdpRuns : \A u \in table[g] : u \in Users
    BY DEF FlowInv, FlowTypes
  <2>2. \A g \in UdpRuns : \A u \in table[g] : stage[g][u] # "none"
    BY <2>1 DEF FlowInv, Entered
  <2> QED
    BY <2>2 DEF FlowInv, SocketsKnown, NoStaleEntry
<1> QED
  BY UdpInitInv, UdpStepInv, <1>1, PTL DEF UdpSpec

(* The variables no flow's slot depends on.                                  *)
OtherTypes ==
    /\ dirs \in [UdpRuns -> [Users -> SUBSET Both]] /\ requests \in 0..ChannelSize
    /\ udpSock \in [Sockets -> {"unused", "waiting", "serving", "closed"}] /\ lost \in 0..MaxLost
    /\ wire \subseteq {intro(k) : k \in Sockets} \cup {target(k) : k \in Sockets}

LEMMA OtherTypesStep == FlowInv /\ OtherTypes /\ [UdpNext]_udpVars => OtherTypes'
<1> SUFFICES ASSUME FlowInv, OtherTypes, [UdpNext]_udpVars
             PROVE  OtherTypes'
  OBVIOUS
<1> USE DEF flows, tunnel
<1>1. ASSUME NEW g \in UdpRuns, NEW u \in Users, NEW d \in SUBSET Both, dirs' = [dirs EXCEPT ![g][u] = d]
      PROVE  dirs' \in [UdpRuns -> [Users -> SUBSET Both]]
  <2>1. dirs[g] \in [Users -> SUBSET Both]
    BY DEF OtherTypes
  <2>2. [dirs[g] EXCEPT ![u] = d] \in [Users -> SUBSET Both]
    BY <2>1
  <2> QED
    BY <1>1, <2>2 DEF OtherTypes
<1>2. ASSUME NEW u \in Users, NewFlow(u)
      PROVE  OtherTypes'
  BY <1>2 DEF NewFlow, OtherTypes
<1>3. ASSUME NEW g \in UdpRuns, Takes(g) \/ LoopEnds(g)
      PROVE  OtherTypes'
  BY <1>3 DEF Takes, LoopEnds, OtherTypes
<1>4. ASSUME NEW g \in UdpRuns, FirstPayload(g)
      PROVE  OtherTypes'
  <2>1. CASE Crashes
    BY <2>1, UdpAssumption DEF Crashes, OtherTypes
  <2>2. CASE ~Crashes
    BY <1>4, <2>2, UdpAssumption DEF FirstPayload, OtherTypes
  <2> QED
    BY <2>1, <2>2
<1>5. ASSUME NEW g \in UdpRuns, Pairs(g)
      PROVE  OtherTypes'
  <2> DEFINE u == loop[g]
             k == Head(pool[g])
  <2>1. /\ u \in Users /\ pool[g] \in Seq(Sockets) /\ pool[g] # <<>> /\ UNCHANGED <<requests, udpSock>>
        /\ \/ dirs' = [dirs EXCEPT ![g][u] = Both] /\ wire' = wire \cup {target(k)} /\ UNCHANGED lost
           \/ /\ Over(g) \/ lost < MaxLost
              /\ lost' = IF Over(g) THEN lost ELSE lost + 1
              /\ UNCHANGED <<dirs, wire>>
    BY <1>5 DEF FlowInv, FlowTypes, Pairs
  <2>2. k \in Sockets
    BY <2>1
  <2> HIDE DEF u, k
  <2>3. CASE dirs' = [dirs EXCEPT ![g][u] = Both] /\ wire' = wire \cup {target(k)} /\ UNCHANGED lost
    <3>1. dirs' \in [UdpRuns -> [Users -> SUBSET Both]]
      BY <1>1, <2>1, <2>3
    <3> QED
      BY <2>1, <2>2, <2>3, <3>1 DEF OtherTypes
  <2>4. CASE /\ Over(g) \/ lost < MaxLost
             /\ lost' = IF Over(g) THEN lost ELSE lost + 1
             /\ UNCHANGED <<dirs, wire>>
    BY <2>1, <2>4, UdpAssumption DEF OtherTypes
  <2> QED
    BY <2>1, <2>3, <2>4
<1>6. ASSUME NEW g \in UdpRuns, NEW u \in Users, udpLocalCopy(g, u) \/ udpTunnelCopy(g, u)
      PROVE  OtherTypes'
  <2>1. PICK d \in {"out", "back"} : dirs' = [dirs EXCEPT ![g][u] = dirs[g][u] \ {d}]
    BY <1>6 DEF udpLocalCopy, udpTunnelCopy, OtherTypes
  <2>2. dirs[g][u] \ {d} \in SUBSET Both
    BY DEF OtherTypes
  <2>3. dirs' \in [UdpRuns -> [Users -> SUBSET Both]]
    BY <1>1, <2>1, <2>2
  <2> QED
    BY <1>6, <2>3 DEF udpLocalCopy, udpTunnelCopy, OtherTypes
<1>7. ASSUME NEW g \in UdpRuns, NEW u \in Users, udpCopy(g, u)
      PROVE  OtherTypes'
  BY <1>7 DEF udpCopy, OtherTypes
<1>8. ASSUME NEW k \in Sockets,
             \/ Introduced(k) \/ tunnelDialer(k) \/ Targeted(k) \/ Mistaken(k) \/ copyEnds(k) \/ Recycled(k)
      PROVE  OtherTypes'
  BY <1>8, UdpAssumption DEF Introduced, tunnelDialer, Targeted, Mistaken, copyEnds, Recycled, OtherTypes
<1>9. CASE ClientEnds \/ UdpRunEnds \/ NextRun \/ \E d \in wire : Lose(d)
  BY <1>9, UdpAssumption DEF ClientEnds, UdpRunEnds, NextRun, Lose, OtherTypes
<1>10. CASE UNCHANGED udpVars
  BY <1>10 DEF udpVars, OtherTypes
<1> QED
  BY <1>2, <1>3, <1>4, <1>5, <1>6, <1>7, <1>8, <1>9, <1>10 DEF UdpNext, Server

(* Every variable of the datagram transport keeps its type; that the         *)
(* limiter's counter is never negative follows from what it counts.          *)
THEOREM UdpTypes == UdpSpec => []UdpTypeOK
<1>1. UdpInit => OtherTypes
  BY UdpAssumption DEF UdpInit, OtherTypes
<1>2. FlowInv /\ OtherTypes => UdpTypeOK
  <2> SUFFICES ASSUME FlowInv, OtherTypes
               PROVE  UdpTypeOK
    OBVIOUS
  <2>1. active \in Nat
    BY HeldFinite DEF FlowInv, SlotsHeld, Held
  <2> QED
    BY <2>1 DEF FlowInv, FlowTypes, FlowStages, OtherTypes, UdpTypeOK
<1> QED
  BY UdpInitInv, UdpStepInv, OtherTypesStep, <1>1, <1>2, PTL DEF UdpSpec
=============================================================================
