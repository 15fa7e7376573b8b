----------------------------- MODULE Forwarding ------------------------------
(***************************************************************************)
(* What a tunnel promises about forwarded conversations, whatever carries  *)
(* them: at most Limit are held at once, a user is joined to one backend   *)
(* only, to one that was asked for and reached on this user's behalf, and  *)
(* a backend that may not be reached never is.                             *)
(***************************************************************************)
EXTENDS Integers, FiniteSets

CONSTANTS Convs, Targets, Forbidden, Limit

VARIABLES phase,    \* per conversation: idle, held, joined, over
          link,     \* per conversation and target: none, asked, reached, ended, refused
          joined    \* per conversation: the targets it is joined to

fvars == <<phase, link, joined>>

Held == {c \in Convs : phase[c] \in {"held", "joined"}}

FInit == /\ phase = [c \in Convs |-> "idle"]
         /\ link = [c \in Convs |-> [t \in Targets |-> "none"]]
         /\ joined = [c \in Convs |-> {}]

Admit(c) == /\ phase[c] = "idle" /\ Cardinality(Held) < Limit
            /\ phase' = [phase EXCEPT ![c] = "held"]
            /\ UNCHANGED <<link, joined>>

Ask(c, t) == /\ phase[c] = "held" /\ link[c][t] = "none"
             /\ link' = [link EXCEPT ![c][t] = "asked"]
             /\ UNCHANGED <<phase, joined>>

Reach(c, t) == /\ link[c][t] = "asked" /\ t \notin Forbidden
               /\ link' = [link EXCEPT ![c][t] = "reached"]
               /\ UNCHANGED <<phase, joined>>

Fail(c, t) == /\ link[c][t] = "asked"
              /\ link' = [link EXCEPT ![c][t] = "refused"]
              /\ UNCHANGED <<phase, joined>>

Hangup(c, t) == /\ link[c][t] = "reached"
                /\ link' = [link EXCEPT ![c][t] = "ended"]
                /\ UNCHANGED <<phase, joined>>

Join(c, t) == /\ phase[c] = "held" /\ joined[c] = {} /\ link[c][t] \in {"reached", "ended"}
              /\ phase' = [phase EXCEPT ![c] = "joined"]
              /\ joined' = [joined EXCEPT ![c] = {t}]
              /\ UNCHANGED link

Leave(c) == /\ phase[c] # "over"
            /\ phase' = [phase EXCEPT ![c] = "over"]
            /\ joined' = [joined EXCEPT ![c] = {}]
            /\ UNCHANGED link

(* No step leaves everything as it was.                                      *)
FNext == /\ fvars' # fvars
         /\ \E c \in Convs :
               \/ Admit(c) \/ Leave(c)
               \/ \E t \in Targets : \/ Ask(c, t) \/ Reach(c, t) \/ Fail(c, t)
                                     \/ Hangup(c, t) \/ Join(c, t)

FSpec == FInit /\ [][FNext]_fvars

(* What follows: the cap holds, and a joined user's backend is one, was      *)
(* reached for this user, and may be reached.                                *)
Promised == /\ Cardinality(Held) <= Limit
            /\ \A c \in Convs : \A t \in joined[c] : /\ joined[c] = {t} /\ phase[c] = "joined"
                                                   /\ link[c][t] \in {"reached", "ended"}
                                                   /\ t \in Targets \ Forbidden
=============================================================================
