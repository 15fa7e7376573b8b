------------------------------- MODULE Chain --------------------------------
(***************************************************************************)
(* The transport fallback chain: both ends walk the same list of carriers, *)
(* one at a time, and neither tells the other where it is.  The server     *)
(* holds each candidate for the whole dwell, the client for a share of it, *)
(* and they have to meet on a carrier that gets through.                   *)
(*                                                                         *)
(* Time passes in seconds, at the same rate at both ends but from starts   *)
(* of their own.  What is due (a deadline, a poll that finds the candidate *)
(* settled) happens before time goes on; when two things are due at once   *)
(* either may come first, as in the code's select.                         *)
(***************************************************************************)
EXTENDS Integers, FiniteSets

CONSTANTS
    N,          \* candidates, the primary included: two at least, one never rotates
    Dwell,      \* fallback_dwell
    Floor,      \* windowFloor
    Teardown,   \* teardown
    Regrace,    \* regrace
    Settle,     \* seconds a carrier that gets through may take to connect
    MaxEvents   \* carriers blocked or freed, and processes restarted

ASSUME ChainAssumption ==
    /\ N \in Nat /\ N >= 2 /\ Dwell \in Nat /\ Floor \in Nat /\ Teardown \in Nat
    /\ Regrace \in Nat \ {0} /\ Settle \in Nat \ {0} /\ MaxEvents \in Nat

Candidates == 0..(N - 1)
Ends == {"server", "client"}

VARIABLES
    mode,       \* per end: where its chain is
    at,         \* per end: the index of the candidate in c.candidates
    left,       \* per end: seconds until the deadline or the end of teardown
    downFor,    \* per end: seconds since hold first found the candidate down
    settled,    \* per end: what Settled() answers
    open,       \* the carriers that get through
    overlap,    \* seconds both ends have tried the same open carrier
    up,         \* the tunnel is connected
    waited,     \* seconds both ends have been rotating without a tunnel
    events

chainVars == <<mode, at, left, downFor, settled, open, overlap, up, waited, events>>

(* A mutant: the client does not divide the dwell.                           *)
attemptWindowUndivided(e) == Dwell

(* How long one candidate gets: the whole dwell on the server, a share of it *)
(* on the client, so that it sweeps the list while the server dwells.        *)
attemptWindow(e) ==
    IF e = "server" THEN Dwell
    ELSE IF Dwell \div N < Floor THEN Floor ELSE Dwell \div N

(* One round of the server over its list, and the rest of the one it is in.  *)
Round == (N + 1) * (Dwell + Teardown)

(* The type invariant. *)
ChainTypeOK ==
    /\ mode \in [Ends -> {"off", "trying", "holding", "teardown"}]
    /\ at \in [Ends -> Candidates]
    /\ \A e \in Ends : left[e] \in 0..attemptWindow(e) \/ left[e] \in 0..Teardown
    /\ downFor \in [Ends -> 0..Regrace] /\ settled \in [Ends -> BOOLEAN]
    /\ open \subseteq Candidates /\ overlap \in 0..Settle /\ up \in BOOLEAN
    /\ waited \in 0..(Round + 1) /\ events \in 0..MaxEvents

ChainInit ==
    /\ mode = [e \in Ends |-> "off"] /\ at = [e \in Ends |-> 0]
    /\ left = [e \in Ends |-> 0] /\ downFor = [e \in Ends |-> 0]
    /\ settled = [e \in Ends |-> FALSE]
    /\ open \in SUBSET Candidates
    /\ overlap = 0 /\ up = FALSE /\ waited = 0 /\ events = 0

------------------------------------------------------------------------------
(* The candidate an end has running *)

Running(e) == mode[e] \in {"trying", "holding"}
Together == /\ \A e \in Ends : Running(e)
            /\ at["server"] = at["client"] /\ at["client"] \in open

(* Run starts the candidate at index i: a new transport, not connected.      *)
Starts(e, i) ==
    /\ mode' = [mode EXCEPT ![e] = "trying"]
    /\ at' = [at EXCEPT ![e] = i]
    /\ left' = [left EXCEPT ![e] = attemptWindow(e)]
    /\ settled' = [settled EXCEPT ![e] = FALSE]

(* The process starts, for the first time or again: the list from its head.  *)
Run(e) ==
    /\ mode[e] = "off" \/ events < MaxEvents
    /\ Starts(e, 0)
    /\ downFor' = [downFor EXCEPT ![e] = 0]
    /\ up' = FALSE /\ overlap' = 0 /\ waited' = 0
    /\ events' = IF mode[e] = "off" THEN events ELSE events + 1
    /\ UNCHANGED open

(* attempt's deferred cancel: the candidate is torn down.                    *)
Leaves(e) ==
    /\ mode' = [mode EXCEPT ![e] = "teardown"]
    /\ left' = [left EXCEPT ![e] = Teardown]
    /\ settled' = [settled EXCEPT ![e] = FALSE]
    /\ downFor' = [downFor EXCEPT ![e] = 0]
    /\ up' = FALSE /\ overlap' = 0
    /\ UNCHANGED <<at, open, waited, events>>

(* attempt: the window is over, whatever the last poll has not yet seen.     *)
Deadline(e) == mode[e] = "trying" /\ left[e] = 0 /\ Leaves(e)

(* attempt: a poll finds the candidate settled.                              *)
PollSettled(e) ==
    /\ mode[e] = "trying" /\ settled[e]
    /\ mode' = [mode EXCEPT ![e] = "holding"]
    /\ left' = [left EXCEPT ![e] = 0]
    /\ UNCHANGED <<at, downFor, settled, open, overlap, up, waited, events>>

(* A mutant: a settled candidate is held for ever.                           *)
holdForEver(e) == FALSE /\ Leaves(e)

(* hold: down for regrace without a break.                                   *)
hold(e) == mode[e] = "holding" /\ ~settled[e] /\ downFor[e] = Regrace /\ Leaves(e)

(* The index Run goes on with.                                               *)
following(i) == (i + 1) % N

(* The teardown is over and Run starts the next candidate.                   *)
NextCandidate(e) ==
    /\ mode[e] = "teardown" /\ left[e] = 0
    /\ Starts(e, following(at[e]))
    /\ UNCHANGED <<downFor, open, overlap, up, waited, events>>

------------------------------------------------------------------------------
(* The carriers, and what the transports make of them (external)             *)

Connect ==
    /\ Together /\ ~up /\ overlap > 0
    /\ up' = TRUE /\ overlap' = 0 /\ waited' = 0
    /\ settled' = [e \in Ends |-> TRUE]
    /\ UNCHANGED <<mode, at, left, downFor, open, events>>

(* An end notices that its tunnel is gone; when is up to its transport.      *)
Notice(e) ==
    /\ Running(e) /\ settled[e] /\ ~up
    /\ settled' = [settled EXCEPT ![e] = FALSE]
    /\ UNCHANGED <<mode, at, left, downFor, open, overlap, up, waited, events>>

(* A carrier is filtered, or gets through again.                             *)
Filter(i) ==
    /\ events < MaxEvents /\ events' = events + 1
    /\ open' = IF i \in open THEN open \ {i} ELSE open \cup {i}
    /\ up' = (up /\ i # at["client"]) /\ overlap' = 0 /\ waited' = 0
    /\ UNCHANGED <<mode, at, left, downFor, settled>>

------------------------------------------------------------------------------
Due(e) == \/ mode[e] \in {"trying", "teardown"} /\ left[e] = 0
          \/ mode[e] = "trying" /\ settled[e]
          \/ mode[e] = "holding" /\ ~settled[e] /\ downFor[e] = Regrace
OneMore(n, most) == IF n < most THEN n + 1 ELSE n

(* A second passes.                                                          *)
Tick ==
    /\ \A e \in Ends : ~Due(e)
    /\ ~(Together /\ ~up /\ overlap = Settle)
    /\ left' = [e \in Ends |-> IF mode[e] \in {"trying", "teardown"} THEN left[e] - 1 ELSE left[e]]
    /\ downFor' = [e \in Ends |-> IF mode[e] = "holding" /\ ~settled[e]
                                  THEN OneMore(downFor[e], Regrace) ELSE 0]
    /\ overlap' = IF Together /\ ~up THEN OneMore(overlap, Settle) ELSE 0
    /\ waited' = IF (\A e \in Ends : mode[e] \in {"trying", "teardown"}) /\ open # {}
                 THEN OneMore(waited, Round + 1) ELSE 0
    /\ UNCHANGED <<mode, at, settled, open, up, events>>

EndStep(e) == Deadline(e) \/ PollSettled(e) \/ hold(e) \/ NextCandidate(e)

ChainNext ==
    \/ \E e \in Ends : EndStep(e) \/ Run(e) \/ Notice(e)
    \/ \E i \in Candidates : Filter(i)
    \/ Connect \/ Tick

ChainSpec == ChainInit /\ [][ChainNext]_chainVars

(* Time passes and timers fire; both processes are started; a dead tunnel is *)
(* noticed sooner or later.                                                  *)
ChainFairness ==
    /\ WF_chainVars(Tick) /\ WF_chainVars(Connect /\ overlap = Settle)
    /\ \A e \in Ends : /\ WF_chainVars(EndStep(e)) /\ WF_chainVars(Notice(e))
                       /\ WF_chainVars(Run(e) /\ mode[e] = "off")

ChainFairSpec == ChainSpec /\ ChainFairness

------------------------------------------------------------------------------
(* Properties                                                               *)

(* While both ends rotate they meet within one round of the server, whatever *)
(* they start from and whichever carriers get through.                       *)
MeetInARound == waited <= Round

(* As long as some carrier gets through in the end, the tunnel comes up and  *)
(* stays up, whatever was filtered and whoever restarted before.             *)
ComesUp == <>[](open # {}) => <>[]up

=============================================================================
