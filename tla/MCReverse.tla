------------------------------ MODULE MCReverse ------------------------------
(***************************************************************************)
(* Three parts of one machine, each alone, in one run: the initial state   *)
(* picks RevServer (the reverse TCP server's runs, with slow listeners, a  *)
(* legacy client and shutdown), RevUdp (the flows of the datagram          *)
(* transport) or Tunnels (two operators changing a tunnel at once), and    *)
(* only that part moves.                                                   *)
(***************************************************************************)
EXTENDS RevServer, Tunnels, RevUdp

VARIABLE part

MCvars == <<part, vars, udpVars, tunVars>>

(***************************************************************************)
(* A server on a free port or a busy one, or a client, is there or is set  *)
(* up; the panel moves it to wss, with or without backups and failover,    *)
(* or changes certificate, header and port in one form.                    *)
(***************************************************************************)
form(r, p) == [role |-> r, transport |-> "tcp", port |-> p, header |-> FALSE,
               preset |-> "turbo", conn |-> {}]
MCForms == {form("server", 1), form("server", 2), form("client", 1)}

NoEdit == [transport |-> {}, preset |-> {}, port |-> {}, fine |-> FALSE,
           acme |-> {}, conn |-> {}, header |-> {}]
MCEdits == {[NoEdit EXCEPT !.transport = {"wss"}, !.conn = c] :
               c \in {{}, {{"edge", "backups", "hf"}}}}
           \cup {[NoEdit EXCEPT !.acme = {TRUE}, !.header = {v}, !.port = {2}] : v \in BOOLEAN}

MCInit ==
    /\ part \in {"tcp", "udp", "tunnels"}
    /\ Init
    /\ UdpInit
    /\ TunInit
    /\ part # "tunnels" => conf = [n \in Names |-> NoFile]

MCNext == \/ part = "tcp" /\ Next /\ UNCHANGED <<part, udpVars, tunVars>>
          \/ part = "udp" /\ UdpNext /\ UNCHANGED <<part, vars, tunVars>>
          \/ part = "tunnels" /\ TunNext /\ UNCHANGED <<part, vars, udpVars>>

MCSpec == MCInit /\ [][MCNext]_MCvars
=============================================================================
