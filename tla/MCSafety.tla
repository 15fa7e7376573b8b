------------------------------ MODULE MCSafety -------------------------------
(***************************************************************************)
(* Components whose properties need no fairness, in one run: the initial   *)
(* state picks a part and only that part moves; the others stay in their   *)
(* initial states.  The parts share no variable and no constant.           *)
(***************************************************************************)
EXTENDS ReplayWindow, L3Tunnel, Direct, Maintain

VARIABLE part

MCvars == <<part, windowVars, vars, maintVars, directVars>>

(* What the other parts never look at is fixed where they move.              *)
MCInit == /\ part \in {"window", "session", "maintain", "direct"}
          /\ WindowInit /\ Init /\ DirectInit /\ MaintInit
          /\ part # "session" => ~legacy
          /\ part # "maintain" => breaks = {}

(* A bound: only the first handshake may go without a timestamp.             *)
LegacyBound == legacy' => clock' <= 1

MCNext == \/ part = "window" /\ WindowNext /\ UNCHANGED <<part, vars, maintVars, directVars>>
          \/ part = "session" /\ Next /\ LegacyBound /\ UNCHANGED <<part, windowVars, maintVars, directVars>>
          \/ part = "maintain" /\ MaintNext /\ UNCHANGED <<part, windowVars, vars, directVars>>
          \/ part = "direct" /\ DirectNext /\ UNCHANGED <<part, windowVars, vars, maintVars>>

MCSpec == MCInit /\ [][MCNext]_MCvars
=============================================================================
