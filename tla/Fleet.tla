------------------------------- MODULE Fleet -------------------------------
(***************************************************************************)
(* A panel and the servers it manages over SSH: joining and leaving the    *)
(* fleet, the far ends of tunnels and what the panel remembers of them,    *)
(* and the staged rollout of a release.                                    *)
(*                                                                         *)
(* A node stands for its name, so the order of the names is the order of   *)
(* the numbers.  There is one tunnel between the panel and each node.  A   *)
(* call is one command over a pooled connection; a connection that fails   *)
(* is dropped and the command sent once more, so it may run twice, and may *)
(* have run although the panel hears of an error.                          *)
(***************************************************************************)
EXTENDS Integers, Sequences, FiniteSets

CONSTANTS
    Nodes,          \* the servers, as numbers
    Tunnels,        \* those a tunnel may be built to
    Wave, Tolerance, \* size of a wave, and the failures it may have
    Requests,       \* requests of operators the panel serves at one time
    MaxEvents,      \* requests, restarts of the panel, things done by hand
    Faulty          \* nodes on which the release may not come back

ASSUME FleetAssumption ==
    /\ Nodes \subseteq Nat \ {0} /\ IsFiniteSet(Nodes) /\ Tunnels \subseteq Nodes
    /\ Wave \in Nat \ {0} /\ Tolerance \in Nat
    /\ MaxEvents \in Nat /\ Faulty \subseteq Nodes

VARIABLES
    members, pinned, \* nodes.json: who is in the fleet, who is held back
    joining,    \* nodes whose Join has not come to its end
    answered,   \* history: nodes that have answered since they joined, or whose Join a restart cut short
    here, far,  \* the two ends of each tunnel
    pairs,      \* node-pairs.json: tunnels whose far end is known
    intent,     \* desired.json
    call,       \* the requests under way
    touched,    \* history: nodes whose far end the panel has reason to be wrong about
    faulty,     \* nodes on which the release does not come back
    released,   \* history: the nodes this rollout has put the release on
    job,        \* the rollout
    cancelled,  \* it has been cancelled
    events      \* how many of MaxEvents have been

registry == <<members, pinned, joining, answered>>
tunnels == <<here, far, pairs, intent, touched>>
fleetJob == <<job, cancelled, released, faulty>>
vars == <<registry, tunnels, call, fleetJob, events>>

Ends == {"absent", "active", "stopped"}
Ops == {"create", "edit", "start", "stop", "restart", "delete"}
Steps == {"first", "second", "ran"}
Phases == {"none", "upgrade", "soak", "verify", "next", "over"}
NoCall == [op |-> "none", node |-> 0, at |-> "none", got |-> "absent"]
NoJob == [phase |-> "none", plan |-> <<>>, at |-> 0,
          upgraded |-> {}, failed |-> {}, untouched |-> {}]

CallRecs == {NoCall} \cup [op : Ops, node : Nodes, at : Steps, got : Ends]
JobRecs == [phase : Phases, plan : Seq(Nodes), at : Nat, upgraded : SUBSET Nodes,
            failed : SUBSET Nodes, untouched : SUBSET Nodes]

(* The type invariant.                                                       *)
TypeOK ==
    /\ members \subseteq Nodes /\ pinned \subseteq Nodes /\ joining \subseteq members
    /\ answered \subseteq Nodes /\ touched \subseteq Nodes
    /\ here \in [Nodes -> Ends] /\ far \in [Nodes -> Ends]
    /\ pairs \subseteq Nodes /\ intent \in [Nodes -> {"none", "running", "stopped"}]
    /\ call \in [Requests -> CallRecs]
    /\ faulty \subseteq Nodes /\ released \subseteq Nodes
    /\ job \in JobRecs /\ (job.phase = "none" \/ job.at \in 1..Len(job.plan))
    /\ cancelled \in BOOLEAN /\ events \in 0..MaxEvents

Init ==
    /\ members = Nodes /\ pinned = {} /\ joining = {} /\ answered = Nodes
    /\ here = [n \in Nodes |-> "absent"] /\ far = [n \in Nodes |-> "absent"]
    /\ pairs = {} /\ intent = [n \in Nodes |-> "none"] /\ touched = {}
    /\ call = [r \in Requests |-> NoCall]
    /\ faulty \in SUBSET Faulty /\ released = {} /\ job = NoJob /\ cancelled = FALSE
    /\ events = 0

event == events < MaxEvents /\ events' = events + 1

------------------------------------------------------------------------------
(* The registry                                                             *)

(* Add: the entry is there before the server has been asked anything.        *)
JoinBegins(n) ==
    /\ n \notin members /\ event
    /\ members' = members \cup {n} /\ joining' = joining \cup {n}
    /\ answered' = answered \ {n}
    /\ UNCHANGED <<pinned, tunnels, call, fleetJob>>

(* A mutant: an entry that cannot be reached is kept for later.              *)
JoinEndsKeeping(n) ==
    /\ n \in joining /\ joining' = joining \ {n}
    /\ \/ answered' = answered \cup {n}
       \/ UNCHANGED answered
    /\ UNCHANGED <<members, pinned, tunnels, call, fleetJob, events>>

(* The server answers, after an installation if it needs one; or it does not *)
(* and the entry goes.                                                       *)
JoinEnds(n) ==
    /\ n \in joining /\ joining' = joining \ {n}
    /\ \/ answered' = answered \cup {n} /\ UNCHANGED <<members, pinned>>
       \/ members' = members \ {n} /\ pinned' = pinned \ {n} /\ UNCHANGED answered
    /\ UNCHANGED <<tunnels, call, fleetJob, events>>

(* "remove": the entry, the pairs and the intents of the node are forgotten. *)
RemoveNode(n) ==
    /\ n \in members /\ n \notin joining /\ event
    /\ members' = members \ {n} /\ pinned' = pinned \ {n}
    /\ pairs' = pairs \ {n} /\ intent' = [intent EXCEPT ![n] = "none"]
    /\ touched' = touched \cup {n}
    /\ UNCHANGED <<joining, answered, here, far, call, fleetJob>>

Pin(n) ==
    /\ n \in members \ pinned /\ event /\ pinned' = pinned \cup {n}
    /\ UNCHANGED <<members, joining, answered, tunnels, call, fleetJob>>
Unpin(n) ==
    /\ n \in members \cap pinned /\ event /\ pinned' = pinned \ {n}
    /\ UNCHANGED <<members, joining, answered, tunnels, call, fleetJob>>

------------------------------------------------------------------------------
(* Requests about a tunnel.  First this end, then the call for the other.   *)

busyWith(n) == {r \in Requests : call[r].node = n}
(* targetFor finds the node once, when the call begins; a node removed after *)
(* that is called all the same.  Two requests about one tunnel at one time   *)
(* are answered in an order of their own.                                    *)
asks(r, o, n) ==
    /\ n \in members
    /\ call' = [call EXCEPT ![r] = [op |-> o, node |-> n, at |-> "first", got |-> "absent"]]
    /\ touched' = IF busyWith(n) = {} THEN touched ELSE touched \cup {n}
asksNobody == UNCHANGED <<call, touched>>
free(r) == call[r] = NoCall /\ event
alone == UNCHANGED <<registry, far, intent, fleetJob>>

(* handleNodePair; the node is asked first whether it can be reached.        *)
CreatePair(r, n) ==
    /\ free(r) /\ n \in Tunnels \cap members /\ here[n] = "absent"
    /\ here' = [here EXCEPT ![n] = "active"]
    /\ asks(r, "create", n)
    /\ UNCHANGED pairs /\ alone

(* EditTunnelSettings and afterEdit, which writes the far end anew.          *)
EditTunnel(r, n) ==
    /\ free(r) /\ here[n] # "absent" /\ n \in pairs
    /\ here' = [here EXCEPT ![n] = "active"]
    /\ \/ asks(r, "edit", n)
       \/ n \notin members /\ asksNobody
    /\ UNCHANGED pairs /\ alone

(* handleTunnelAction and alsoOnNode; a node that did not answer lately is   *)
(* left alone, and so is one that is not known.                              *)
StartStop(r, n, o) ==
    /\ free(r) /\ here[n] # "absent" /\ o \in {"start", "stop", "restart"}
    /\ here' = [here EXCEPT ![n] = IF o = "stop" THEN "stopped" ELSE "active"]
    /\ \/ n \in pairs /\ asks(r, o, n)
       \/ asksNobody
    /\ UNCHANGED pairs /\ alone

(* Delete forgets the pair; the far end goes only when that was asked for.   *)
DeleteTunnel(r, n) ==
    /\ free(r) /\ here[n] # "absent"
    /\ here' = [here EXCEPT ![n] = "absent"] /\ pairs' = pairs \ {n}
    /\ \/ n \in pairs /\ asks(r, "delete", n)
       \/ asksNobody
    /\ alone

------------------------------------------------------------------------------
(* SSHRunner.Call and Execute                                               *)

(* What the command may leave at the node; start, stop and restart of a      *)
(* tunnel that is not there are refused.  A tunnel that is written may fail  *)
(* to run, and a delete of one that is gone has done what was asked.         *)
Execute(o, e) ==
    CASE o \in {"create", "edit"} -> {"active", "stopped"}
      [] o = "delete" -> {"absent"}
      [] o = "stop" -> IF e = "absent" THEN {} ELSE {"stopped"}
      [] OTHER -> IF e = "absent" THEN {} ELSE {"active"}

(* A mutant: a tunnel that was stopped on purpose is still expected to run.  *)
recordNoStop(o, n, e) ==
    [intent EXCEPT ![n] =
        CASE o \in {"create", "edit"} -> IF e = "active" THEN "running" ELSE "stopped"
          [] o = "delete" -> "none"
          [] OTHER -> @]

(* Record with the answer of the node, SetRunning where something is         *)
(* expected, Forget.                                                         *)
record(o, n, e) ==
    [intent EXCEPT ![n] =
        CASE o \in {"create", "edit"} -> IF e = "active" THEN "running" ELSE "stopped"
          [] o = "delete" -> "none"
          [] o = "start" -> IF @ = "none" THEN @ ELSE "running"
          [] o = "stop" -> IF @ = "none" THEN @ ELSE "stopped"
          [] OTHER -> @]

(* An attempt that the panel hears nothing of: the command has run, or has   *)
(* not.  The first is followed by a second, if a fresh connection can be     *)
(* had.                                                                      *)
AttemptFails(r) ==
    LET c == call[r] n == c.node IN
    /\ c.at \in {"first", "second"}
    /\ \/ UNCHANGED far
       \/ \E e \in Execute(c.op, far[n]) : far' = [far EXCEPT ![n] = e]
    /\ \/ c.at = "first" /\ call' = [call EXCEPT ![r].at = "second"] /\ UNCHANGED touched
       \/ call' = [call EXCEPT ![r] = NoCall] /\ touched' = touched \cup {n}
    /\ UNCHANGED <<registry, here, pairs, intent, fleetJob, events>>

(* The node refuses and has left its end as it was; what the first attempt   *)
(* did is not known when it was the second.                                  *)
Refused(r) ==
    LET c == call[r] IN
    /\ c.at \in {"first", "second"}
    /\ call' = [call EXCEPT ![r] = NoCall]
    /\ touched' = IF c.at = "second" THEN touched \cup {c.node} ELSE touched
    /\ UNCHANGED <<registry, here, far, pairs, intent, fleetJob, events>>

(* The command runs and the answer comes.  A tunnel written or deleted is    *)
(* again what the panel knows it to be.  A restart brings up a tunnel that   *)
(* was stopped from here, and is not written down.                           *)
AttemptRuns(r) ==
    LET c == call[r] n == c.node IN
    /\ c.at \in {"first", "second"}
    /\ \E e \in Execute(c.op, far[n]) :
          /\ far' = [far EXCEPT ![n] = e]
          /\ call' = [call EXCEPT ![r].at = "ran", ![r].got = e]
    /\ touched' = IF c.op \in {"create", "edit", "delete"} /\ busyWith(n) = {r} THEN touched \ {n}
                  ELSE IF c.op = "restart" /\ intent[n] = "stopped" THEN touched \cup {n}
                  ELSE touched
    /\ UNCHANGED <<registry, here, pairs, intent, fleetJob, events>>

(* The answer is written down: the intent, and after a creation the pair.    *)
Recorded(r) ==
    LET c == call[r] n == c.node IN
    /\ c.at = "ran"
    /\ intent' = record(c.op, n, c.got)
    /\ pairs' = IF c.op = "create" THEN pairs \cup {n} ELSE pairs
    /\ call' = [call EXCEPT ![r] = NoCall]
    /\ UNCHANGED <<registry, here, far, touched, fleetJob, events>>

(* Somebody with a terminal on the node.                                     *)
ByHand(n) ==
    /\ n \in Tunnels /\ event /\ far[n] # "absent"
    /\ \E e \in Ends \ {far[n]} : far' = [far EXCEPT ![n] = e]
    /\ touched' = touched \cup {n}
    /\ UNCHANGED <<registry, here, pairs, intent, call, fleetJob>>

(* Reconcile: how what a node has differs from what was asked for.           *)
Reconcile(n) ==
    (IF intent[n] # "none" /\ far[n] = "absent" THEN {"missing"} ELSE {})
    \cup (IF intent[n] = "running" /\ far[n] = "stopped" THEN {"stopped"} ELSE {})
    \cup (IF intent[n] = "stopped" /\ far[n] = "active" THEN {"running"} ELSE {})
    \cup (IF intent[n] = "none" /\ far[n] # "absent" THEN {"unexpected"} ELSE {})

------------------------------------------------------------------------------
(* PlanRollout, Jobs and Rollout.Run                                        *)

(* The stage of the i-th node of a plan: the canary is alone in stage 0.     *)
stage(i) == (i + Wave - 2) \div Wave

rest(i) == {job.plan[j] : j \in {k \in 1..Len(job.plan) : stage(k) > stage(i)}}
failures(s) == Cardinality({i \in 1..Len(job.plan) : stage(i) = s /\ job.plan[i] \in job.failed})
LastOfStage(i) == i = Len(job.plan) \/ stage(i + 1) # stage(i)
running == job.phase \in {"upgrade", "soak", "verify", "next"}
planned == {job.plan[i] : i \in 1..Len(job.plan)}
quiet == UNCHANGED <<registry, tunnels, call, cancelled, faulty, events>>

(* The servers of a fleet in the order of their names.                       *)
PlanRollout(S) ==
    {p \in [1..Cardinality(S) -> S] : \A i, j \in 1..Cardinality(S) : i < j => p[i] < p[j]}

(* "upgradeall": the plan is made from the fleet as it is, in the order of   *)
(* the names; a second rollout is refused while one runs.                    *)
StartRollout ==
    /\ ~running /\ event /\ members \ pinned # {}
    /\ \E p \in PlanRollout(members \ pinned) :
          job' = [NoJob EXCEPT !.phase = "upgrade", !.at = 1, !.plan = p]
    /\ released' = {} /\ cancelled' = FALSE
    /\ UNCHANGED <<registry, tunnels, call, faulty>>

(* The node under way has failed: the rollout halts if it was the canary.    *)
GivenUp == [job EXCEPT !.failed = @ \cup {job.plan[job.at]}, !.phase = "next"]

(* The installer over SSH: the node has left the fleet or cannot be reached; *)
(* or the release is put on it, and the panel hears so, or does not.         *)
Upgrade ==
    LET n == job.plan[job.at] IN
    /\ job.phase = "upgrade"
    /\ \/ job' = GivenUp /\ UNCHANGED released
       \/ n \in members /\ job' = GivenUp /\ released' = released \cup {n}
       \/ /\ n \in members /\ released' = released \cup {n}
          /\ job' = [job EXCEPT !.phase = IF job.at = 1 THEN "soak" ELSE "verify"]
    /\ quiet

(* The canary is left alone for a while; a cancelled rollout does not wait.  *)
Soak ==
    /\ job.phase = "soak"
    /\ \/ ~cancelled /\ job' = [job EXCEPT !.phase = "verify"]
       \/ cancelled /\ job' = GivenUp
    /\ UNCHANGED released /\ quiet

(* A mutant: a server that answers is taken to be healthy.                   *)
VerifyHello ==
    /\ job.phase = "verify"
    /\ job' = [job EXCEPT !.upgraded = @ \cup {job.plan[job.at]}, !.phase = "next"]
    /\ UNCHANGED released /\ quiet

(* verifyNode: it answers and its tunnels run and have a peer; a call that   *)
(* fails is no answer.                                                       *)
Verify ==
    LET n == job.plan[job.at] IN
    /\ job.phase = "verify"
    /\ \/ job' = GivenUp
       \/ /\ n \in members \ faulty
          /\ job' = [job EXCEPT !.upgraded = @ \cup {n}, !.phase = "next"]
    /\ UNCHANGED released /\ quiet

halt == job' = [job EXCEPT !.phase = "over", !.untouched = rest(job.at)]

(* A mutant: a halt does not say whom it left alone.                         *)
StageEndsForgetful ==
    /\ job.phase = "next"
    /\ IF ~LastOfStage(job.at) \/ (job.at < Len(job.plan) /\ ~cancelled
            /\ failures(stage(job.at)) <= (IF job.at = 1 THEN 0 ELSE Tolerance))
       THEN job' = [job EXCEPT !.at = @ + 1, !.phase = "upgrade"]
       ELSE job' = [job EXCEPT !.phase = "over"]
    /\ UNCHANGED released /\ quiet

(* A mutant: a rollout with too many failures waits for a decision.          *)
StageEndsWaiting ==
    LET i == job.at s == stage(i) IN
    /\ job.phase = "next"
    /\ \/ ~LastOfStage(i) /\ job' = [job EXCEPT !.at = i + 1, !.phase = "upgrade"]
       \/ /\ LastOfStage(i) /\ failures(s) <= (IF i = 1 THEN 0 ELSE Tolerance)
          /\ IF i = Len(job.plan) THEN job' = [job EXCEPT !.phase = "over"]
             ELSE IF cancelled THEN halt
             ELSE job' = [job EXCEPT !.at = i + 1, !.phase = "upgrade"]
    /\ UNCHANGED released /\ quiet

(* After a node: the next one of its wave, come what may; after the canary   *)
(* or a wave: a halt when too many have failed or the rollout has been       *)
(* cancelled, else the next wave.                                            *)
StageEnds ==
    LET i == job.at s == stage(i) IN
    /\ job.phase = "next"
    /\ \/ ~LastOfStage(i) /\ job' = [job EXCEPT !.at = i + 1, !.phase = "upgrade"]
       \/ LastOfStage(i) /\ failures(s) > (IF i = 1 THEN 0 ELSE Tolerance) /\ halt
       \/ /\ LastOfStage(i) /\ failures(s) <= (IF i = 1 THEN 0 ELSE Tolerance)
          /\ IF i = Len(job.plan) THEN job' = [job EXCEPT !.phase = "over"]
             ELSE IF cancelled THEN halt
             ELSE job' = [job EXCEPT !.at = i + 1, !.phase = "upgrade"]
    /\ UNCHANGED released /\ quiet

(* "rolloutcancel".                                                          *)
Cancel ==
    /\ running /\ ~cancelled /\ cancelled' = TRUE
    /\ UNCHANGED <<registry, tunnels, call, job, released, faulty, events>>

(* The panel's process starts again: what it was doing is gone, what it had  *)
(* written down is not.                                                      *)
PanelRestarts ==
    /\ event
    /\ call' = [r \in Requests |-> NoCall]
    /\ touched' = touched \cup {call[r].node : r \in {q \in Requests : call[q] # NoCall}}
    /\ job' = IF running THEN NoJob ELSE job
    /\ UNCHANGED cancelled
    /\ answered' = answered \cup joining /\ joining' = {}
    /\ UNCHANGED <<members, pinned, here, far, pairs, intent, released, faulty>>

------------------------------------------------------------------------------
Rollout == Upgrade \/ Soak \/ Verify \/ StageEnds

Next ==
    \/ \E n \in Nodes : JoinBegins(n) \/ JoinEnds(n) \/ RemoveNode(n) \/ Pin(n) \/ Unpin(n) \/ ByHand(n)
    \/ \E r \in Requests, n \in Tunnels :
          \/ CreatePair(r, n) \/ EditTunnel(r, n) \/ DeleteTunnel(r, n)
          \/ \E o \in Ops : StartStop(r, n, o)
    \/ \E r \in Requests : AttemptFails(r) \/ Refused(r) \/ AttemptRuns(r) \/ Recorded(r)
    \/ StartRollout \/ Rollout \/ Cancel \/ PanelRestarts

Spec == Init /\ [][Next]_vars

(* Fairness: the goroutine of the rollout goes on; an installation and a     *)
(* call come to an end, at the latest with sshInstallTimeout, sshOpTimeout.  *)
FairSpec == Spec /\ WF_vars(Rollout)

------------------------------------------------------------------------------
(* Properties                                                               *)

(* A report of drift has a cause: since a tunnel was last written or deleted *)
(* as a whole, nobody has acted on the node itself, no call was cut short,   *)
(* no two overlapped and no stopped tunnel was restarted; then what the node *)
(* has is what the panel says it asked for, whatever was created, stopped,   *)
(* edited, deleted and created again, and however often a command was sent.  *)
DriftIsReal ==
    \A n \in members \ touched :
        busyWith(n) = {} => Reconcile(n) = {}

(* A server in the fleet has answered, unless its Join is still under way: a *)
(* failed Join leaves nothing behind.                                        *)
MembersAnswered == members \subseteq answered \cup joining

(* A release that does not come back costs the stage it was noticed in: no   *)
(* node but the canary has it when the canary did not come back or was said  *)
(* to have failed, and none beyond a wave with too many failures.            *)
StopsAtTheFault ==
    \A j \in 2..Len(job.plan) : job.plan[j] \in released =>
        /\ job.plan[1] \notin faulty \cup job.failed
        /\ \A s \in 1..(stage(j) - 1) : failures(s) <= Tolerance

(* The report of a rollout that is over accounts for every server of its     *)
(* plan, once, and those it calls untouched are.                             *)
ReportIsTrue ==
    job.phase = "over" =>
        /\ job.upgraded \cup job.failed \cup job.untouched = planned
        /\ job.upgraded \cap job.failed = {} /\ job.untouched \cap released = {}
        /\ job.upgraded \subseteq released

(* A rollout comes to an end, whatever fails and whoever leaves meanwhile.   *)
RolloutEnds == running ~> ~running
=============================================================================
