----------------------------- MODULE TunnelSpec -----------------------------
(***************************************************************************)
(* The settings of one tunnel and the edits that change them               *)
(* (internal/manage: edit.go, webapi.go, webapi_advanced.go, config.go).   *)
(*                                                                         *)
(* An edit reads the settings back from the file, changes some and hands   *)
(* them over to be written; here it is the set of settings it may hand     *)
(* over, empty when it refuses.  Of the settings only those are kept apart *)
(* that one edit needs and another may take away: a carrier's knobs, its   *)
(* certificate, the backups and the two ways of using them, the PROXY      *)
(* header, the edge address (each there or not) and the profile.  Every    *)
(* other one (limits, forwarded ports, UDP, segment size, packet flags,    *)
(* chain, host) is left out: an edit of one hands over the settings as     *)
(* they are, or refuses.                                                   *)
(***************************************************************************)
EXTENDS Naturals

CONSTANTS Offered,      \* the carriers an operator picks from
          Ports         \* the tunnel ports an operator picks from

isMux(t) == t \in {"tcpmux", "wsmux", "wssmux", "kcp", "xdi", "pck"}
isKCP(t) == t \in {"kcp", "xdi", "pck"}
isDatagram(t) == t \in {"udp", "kcp", "xdi", "quic", "pck"}
isWS(t) == t \in {"ws", "wss", "wsmux", "wssmux"}
needsTLS(t) == t \in {"wss", "wssmux"}
supportsProxyProtocol(t) ==
    t \in {"tcp", "tcpmux", "kcp", "wsmux", "wssmux", "stealth", "quic", "pck"}

Transports == {"tcp", "tcpmux", "udp", "kcp", "ws", "wss", "wsmux", "wssmux",
               "stealth", "xdi", "quic", "pck"}

(***************************************************************************)
(* A profile: "turbo" stands for the three that suit every carrier, ""     *)
(* for settings tuned by hand.                                             *)
(***************************************************************************)
Presets == {"turbo", "throughput"}
presetSuitsTransport(p, t) == p = "throughput" => t = "kcp"

Settings == {"mux", "kcp", "cert", "acme", "header", "edge", "backups", "lb", "hf"}
Drawer == {"edge", "backups", "lb", "hf"}

TunnelSpecs ==
    [role: {"server", "client", "l3"}, transport: Transports, port: Ports,
     preset: Presets \cup {""}, has: SUBSET Settings]

With(s, X) == [s EXCEPT !.has = @ \cup X]
Without(s, X) == [s EXCEPT !.has = @ \ X]

(***************************************************************************)
(* The settings the file of such a tunnel has a place for, and those its   *)
(* carrier cannot do without.                                              *)
(***************************************************************************)
Carries(x, r, t) ==
    /\ x = "mux" => isMux(t)
    /\ x = "kcp" => isKCP(t)
    /\ x \in {"cert", "acme"} => r = "server" /\ needsTLS(t)
    /\ x = "header" => r = "server" /\ supportsProxyProtocol(t)
    /\ x = "edge" => r = "client" /\ isWS(t)
    /\ x \in {"backups", "lb", "hf"} => r = "client"

Needs(r, t) == {x \in {"mux", "kcp", "cert"} : Carries(x, r, t)}

(***************************************************************************)
(* What of the settings reaches the file: a carrier's own settings are     *)
(* written only while the tunnel is on that carrier, so the next edit      *)
(* reads the others back as unset.                                         *)
(***************************************************************************)
Render(s) == [s EXCEPT !.has = {x \in @ : Carries(x, s.role, s.transport)}]

(***************************************************************************)
(* ApplyPreset fills the mux and KCP knobs whatever the carrier.           *)
(***************************************************************************)
ApplyPreset(s, p) == With([s EXCEPT !.preset = p], {"mux", "kcp"})

-----------------------------------------------------------------------------
(***************************************************************************)
(* The setters behind the menu and the bot.                                *)
(***************************************************************************)

EditTunnel(s, host, p, forwarded) ==
    IF \/ host /\ s.role = "server"
       \/ forwarded /\ s.role # "server"
    THEN {}
    ELSE {[s EXCEPT !.port = p]}

SetFallbackAddrs(s, some) ==
    IF s.role # "client" THEN {}
    ELSE {IF some THEN With(s, {"backups"}) ELSE Without(s, {"backups"})}

noKnobs(s, t) == With([s EXCEPT !.transport = t], Needs(s.role, t) \ {"kcp"})

(***************************************************************************)
(* A carrier gets what it needs and cannot inherit: the mux knobs, the     *)
(* server's certificate, the KCP knobs from the tunnel's own profile.      *)
(***************************************************************************)
switchTransport(s, t) == With([s EXCEPT !.transport = t], Needs(s.role, t))

ChangeTransport(s, t) ==
    IF t = s.transport THEN {} ELSE {switchTransport(s, t)}

SetLoadBalance(s, on) ==
    IF s.role # "client" \/ on = ("lb" \in s.has) \/ (on /\ "backups" \notin s.has) THEN {}
    ELSE {IF on THEN With(Without(s, {"hf"}), {"lb"}) ELSE Without(s, {"lb"})}

SetProxyProtocol(s, on) ==
    IF \/ s.role # "server"
       \/ ~supportsProxyProtocol(s.transport)
       \/ on = ("header" \in s.has)
    THEN {}
    ELSE {IF on THEN With(s, {"header"}) ELSE Without(s, {"header"})}

SetLimits(s) == IF s.role # "server" THEN {} ELSE {s}

SetAcceptUDP(s) == IF s.role # "server" THEN {} ELSE {s}

SetMSS(s) == IF isDatagram(s.transport) THEN {} ELSE {s}

SetPckFlags(s) == IF s.transport # "pck" THEN {} ELSE {s}

ChangePreset(s, p) ==
    IF ~presetSuitsTransport(p, s.transport) THEN {} ELSE {ApplyPreset(s, p)}

SetFallbackTransports(s) == {s}

SetCertificate(s, domain) ==
    IF s.role # "server" \/ ~needsTLS(s.transport) THEN {}
    ELSE {With(IF domain THEN s ELSE Without(s, {"acme"}),
               IF domain THEN {"acme", "cert"} ELSE {"cert"})}

(***************************************************************************)
(* The best exit becomes the primary and the primary a backup: which       *)
(* address is which is not told apart.                                     *)
(***************************************************************************)
pinPrimaryExit(s) == IF s.role = "client" /\ "backups" \in s.has THEN {s} ELSE {}

-----------------------------------------------------------------------------
(***************************************************************************)
(* The menu.  A screen is drawn from settings read when it was opened      *)
(* (shown); what it asks for is applied to the settings read again when    *)
(* the operator confirms (s).                                              *)
(***************************************************************************)
toggleLoadBalance(shown, s) == SetLoadBalance(s, "lb" \notin shown.has)
toggleProxyProtocol(shown, s) == SetProxyProtocol(s, "header" \notin shown.has)
toggleAcceptUDP(shown, s) == IF shown.role = "server" THEN SetAcceptUDP(s) ELSE {}
editLimits(shown, s) == IF shown.role = "server" THEN SetLimits(s) ELSE {}
editMSS(shown, s) == IF isDatagram(shown.transport) THEN {} ELSE SetMSS(s)
editPckFlags(shown, s) == IF shown.transport = "pck" THEN SetPckFlags(s) ELSE {}
changeFallbackAddrs(shown, s) ==
    IF shown.role = "client" THEN UNION {SetFallbackAddrs(s, b) : b \in BOOLEAN} ELSE {}
changeFallbackTransports(shown, s) == SetFallbackTransports(s)
changeClientHost(shown, s) ==
    IF shown.role = "client" THEN EditTunnel(s, TRUE, s.port, FALSE) ELSE {}
changeForwardedPorts(shown, s) ==
    IF shown.role = "server" THEN EditTunnel(s, FALSE, s.port, TRUE) ELSE {}
changeTunnelPort(shown, s, free) ==
    UNION {EditTunnel(s, FALSE, p, FALSE) :
              p \in IF shown.role = "server" THEN free \ {shown.port}
                                             ELSE Ports \ {shown.port}}
changeTunnelTransport(shown, s) ==
    UNION {ChangeTransport(s, t) : t \in Offered \ {shown.transport}}
changeTunnelPreset(shown, s) ==
    UNION {ChangePreset(s, p) : p \in {q \in Presets \ {shown.preset} :
                                          presetSuitsTransport(q, shown.transport)}}
editCertificate(shown, s) ==
    IF shown.role = "server" /\ needsTLS(shown.transport)
    THEN SetCertificate(s, TRUE) \cup (IF "acme" \in shown.has THEN SetCertificate(s, FALSE) ELSE {})
    ELSE {}

(***************************************************************************)
(* What the Edit screen of a tunnel can lead to.  free: the ports nothing  *)
(* listens on when the operator confirms.                                  *)
(***************************************************************************)
editPortsMenu(shown, s, free) ==
    UNION {toggleLoadBalance(shown, s), toggleProxyProtocol(shown, s),
           toggleAcceptUDP(shown, s), editLimits(shown, s), editMSS(shown, s),
           editPckFlags(shown, s), changeFallbackAddrs(shown, s),
           changeFallbackTransports(shown, s), changeClientHost(shown, s),
           changeForwardedPorts(shown, s), changeTunnelPort(shown, s, free),
           changeTunnelTransport(shown, s), changeTunnelPreset(shown, s),
           editCertificate(shown, s)}

-----------------------------------------------------------------------------
(***************************************************************************)
(* The panel's form: several changes in one write.  A part of the form is  *)
(* a set of at most one value, empty when the form did not send it.        *)
(***************************************************************************)
Part(S) == {{}} \cup {{x} : x \in S}

clearForTransport(s) == IF isWS(s.transport) THEN s ELSE Without(s, {"edge"})

withTransport(s, t) ==
    IF t = s.transport THEN s ELSE clearForTransport(switchTransport(s, t))

(***************************************************************************)
(* Fine tuning: a number of the form's replaces one of the profile's, and  *)
(* the settings match no profile any more.                                 *)
(***************************************************************************)
FineTune(s) == [s EXCEPT !.preset = ""]

(***************************************************************************)
(* The connectivity drawer, given whole: what it leaves out is cleared,    *)
(* and without backups there is no way of using them.                      *)
(***************************************************************************)
ConnTune(s, c) ==
    IF s.role # "client" THEN {s}
    ELSE IF "edge" \in c /\ ~isWS(s.transport) THEN {}
    ELSE {With(Without(s, Drawer), {x \in c : /\ x \in {"lb", "hf"} => "backups" \in c
                                              /\ x = "lb" => "hf" \notin c})}

(***************************************************************************)
(* The carrier first, then the profile, then fine tuning, the certificate, *)
(* the port, the drawer and the PROXY header: each part is judged against  *)
(* the settings the ones before it left.                                   *)
(***************************************************************************)
TunnelEdits ==
    [transport: Part(Offered), preset: Part(Presets), fine: BOOLEAN, acme: Part(BOOLEAN),
     port: Part(Ports), conn: Part(SUBSET Drawer), header: Part(BOOLEAN)]

editTransport(s, e) == IF e.transport = {} THEN {s} ELSE {withTransport(s, t) : t \in e.transport}

editPreset(s, e) ==
    IF e.preset \in {{}, {s.preset}} THEN {s}
    ELSE {ApplyPreset(s, p) : p \in {q \in e.preset : presetSuitsTransport(q, s.transport)}}

editTuning(s, e) == {IF e.fine THEN FineTune(s) ELSE s}

editACME(s, e) ==
    IF e.acme = {} THEN {s}
    ELSE IF s.role = "server" /\ needsTLS(s.transport)
    THEN {With(IF on THEN s ELSE Without(s, {"acme"}),
               IF on THEN {"acme", "cert"} ELSE {"cert"}) : on \in e.acme}
    ELSE {Without(s, {"acme"}) : on \in e.acme \ {TRUE}}

editPort(s, e) == IF e.port = {} THEN {s} ELSE {[s EXCEPT !.port = p] : p \in e.port}

editConn(s, e) == IF e.conn = {} THEN {s} ELSE UNION {ConnTune(s, c) : c \in e.conn}

editHeader(s, e) ==
    IF e.header = {} THEN {s}
    ELSE IF s.role # "server" THEN {}
    ELSE {IF on THEN With(s, {"header"}) ELSE Without(s, {"header"}) :
             on \in {v \in e.header : v => supportsProxyProtocol(s.transport)}}

Each(Edit(_, _), S, e) == UNION {Edit(s, e) : s \in S}

EditTunnelSettings(s, e) ==
    LET changed == Each(editHeader, Each(editConn, Each(editPort, Each(editACME,
                     Each(editTuning, Each(editPreset, editTransport(s, e), e), e), e), e), e), e)
    IN  {r \in changed : r # s \/ e.conn # {} \/ e.fine}

(***************************************************************************)
(* Set-up: the panel's form (specFromNew) and the two wizards.  The        *)
(* profile fills the knobs; a wizard may then go through the numbers one   *)
(* by one, which are taken to be the positive ones it proposes.            *)
(***************************************************************************)
NewTunnels ==
    [role: {"server", "client"}, transport: Offered, port: Ports, header: BOOLEAN,
     preset: Presets, conn: Part(SUBSET Drawer)]

NewTunnelSpec(n) ==
    [role |-> n.role, transport |-> n.transport, port |-> n.port, preset |-> "",
     has |-> {x \in {"cert", "header"} : /\ Carries(x, n.role, n.transport)
                                         /\ x = "header" => n.header}]

specFromNew(n) ==
    IF ~presetSuitsTransport(n.preset, n.transport) THEN {}
    ELSE editConn(ApplyPreset(NewTunnelSpec(n), n.preset), n)

applyManualTuning(s) == [s EXCEPT !.preset = ""]

(* Self-signed, from Let's Encrypt with a self-signed pair behind it, or    *)
(* the operator's own files.                                                *)
setupServerTLS(s) ==
    IF needsTLS(s.transport) THEN {With(s, {"cert"}), With(s, {"cert", "acme"})} ELSE {s}

Tuned(s, p) ==
    IF ~presetSuitsTransport(p, s.transport) THEN {}
    ELSE {ApplyPreset(s, p), applyManualTuning(ApplyPreset(s, p))}

SetupServer(n) ==
    IF n.role # "server" THEN {}
    ELSE UNION {Tuned(s, n.preset) : s \in setupServerTLS(NewTunnelSpec(n))}

SetupClient(n) ==
    IF n.role # "client" THEN {}
    ELSE UNION {Tuned(s, n.preset) : s \in editConn(NewTunnelSpec(n), n)}

(* A direct layer-3 tunnel has none of these settings.                       *)
NewDirectTunnel(p) ==
    [role |-> "l3", transport |-> "udp", port |-> p, preset |-> "", has |-> {}]

-----------------------------------------------------------------------------
(***************************************************************************)
(* Settings the engine can run as they stand: the carrier has the knobs    *)
(* and the certificate it needs, and the two ways of using the backups do  *)
(* not both claim them.                                                    *)
(***************************************************************************)
Fits(s) ==
    /\ Needs(s.role, s.transport) \subseteq s.has
    /\ ~({"lb", "hf"} \subseteq s.has)
=============================================================================
