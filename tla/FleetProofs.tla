---------------------------- MODULE FleetProofs ----------------------------
(***************************************************************************)
(* What the panel may rely on, for a fleet of any size, any number of      *)
(* requests at one time and waves of any length: the registry holds        *)
(* servers that have answered, drift has a cause, a rollout stops where it *)
(* must and reports what it did.                                           *)
(***************************************************************************)
EXTENDS Fleet, FiniteSetTheorems, TLAPS

(* The intent of a node and its far end say the same.                        *)
Agreed(i, e) == /\ i = "none" <=> e = "absent"
                /\ i = "running" <=> e = "active"
                /\ i = "stopped" <=> e = "stopped"

(* What the panel knows while request r is under way: before the command is  *)
(* sent the two agree; after an attempt of unknown outcome, that a tunnel    *)
(* that had to be there is there; after an answer, what will be written down *)
(* agrees with the far end.                                                  *)
Underway(r, n) ==
    LET c == call[r] IN
    /\ c.at = "first" => Agreed(intent[n], far[n])
    /\ c.at = "second" /\ c.op \in {"start", "stop", "restart"} =>
          (intent[n] = "none" <=> far[n] = "absent")
    /\ c.at = "ran" => c.got = far[n] /\ Agreed(record(c.op, n, c.got)[n], far[n])

(* A node the panel has no reason to be wrong about has one request at most. *)
Known(n) ==
    /\ \A q, r \in busyWith(n) : q = r
    /\ busyWith(n) = {} => Agreed(intent[n], far[n])
    /\ \A r \in busyWith(n) : Underway(r, n)

(* The inductive invariant of the far ends.                                  *)
FarEndsInv == \A n \in Nodes \ touched : Known(n)

Behind(i) == i < job.at \/ (i = job.at /\ job.phase \in {"next", "over"})

(* The plan of a rollout that has begun, and where in it the rollout is.     *)
PlanInv ==
    /\ job.phase = "none" => job.plan = <<>>
    /\ job.phase # "none" =>
          \A i, j \in 1..Len(job.plan) : job.plan[i] = job.plan[j] => i = j

(* Every node behind has its line in the report, no other has.               *)
LinesInv ==
    job.phase # "none" =>
        /\ \A i \in 1..Len(job.plan) : job.plan[i] \in job.upgraded \cup job.failed <=> Behind(i)
        /\ job.upgraded \cup job.failed \subseteq planned
        /\ job.upgraded \cap job.failed = {}
        /\ job.untouched = IF job.phase = "over"
                           THEN {job.plan[i] : i \in {k \in 1..Len(job.plan) : k > job.at}}
                           ELSE {}

(* Who has the release.                                                      *)
ReleaseInv ==
    job.phase # "none" =>
        /\ \A i \in 1..Len(job.plan) : job.plan[i] \in released => i <= job.at
        /\ job.phase \in {"soak", "verify"} => job.plan[job.at] \in released
        /\ job.upgraded \subseteq released /\ job.upgraded \cap faulty = {}

(* What the stages behind have shown.                                        *)
StagesInv ==
    job.phase # "none" =>
        /\ job.at > 1 => job.plan[1] \notin job.failed
        /\ \A s \in 1..(stage(job.at) - 1) : failures(s) <= Tolerance

(* The inductive invariant of the rollout.                                   *)
RolloutInv == PlanInv /\ LinesInv /\ ReleaseInv /\ StagesInv

------------------------------------------------------------------------------
(* Types                                                                    *)

(* A plan is a sequence without repetitions over the nodes it is made from.  *)
LEMMA PlanIsSequence ==
    ASSUME NEW S \in SUBSET Nodes, S # {}, NEW p \in PlanRollout(S)
    PROVE  /\ p \in Seq(Nodes) /\ Len(p) \in Nat \ {0}
           /\ \A i, j \in 1..Len(p) : p[i] = p[j] => i = j
<1>1. IsFiniteSet(S) /\ Cardinality(S) \in Nat \ {0}
  BY FS_Subset, FS_CardinalityType, FS_EmptySet, FleetAssumption
<1>2. p \in [1..Cardinality(S) -> S] /\ p \in Seq(Nodes) /\ Len(p) = Cardinality(S)
  BY <1>1 DEF PlanRollout
<1>3. \A i, j \in 1..Cardinality(S) : i < j => p[i] < p[j]
  BY DEF PlanRollout
<1>4. \A i \in 1..Cardinality(S) : p[i] \in Nat
  BY <1>2, FleetAssumption
<1>5. \A i, j \in 1..Cardinality(S) : p[i] = p[j] => i = j
  BY <1>1, <1>3, <1>4
<1> QED BY <1>1, <1>2, <1>5

(* The parts of the type invariant.                                          *)
SetTypes ==
    /\ members \subseteq Nodes /\ pinned \subseteq Nodes /\ joining \subseteq members
    /\ answered \subseteq Nodes /\ touched \subseteq Nodes /\ pairs \subseteq Nodes
    /\ faulty \subseteq Nodes /\ released \subseteq Nodes
EndTypes ==
    /\ here \in [Nodes -> Ends] /\ far \in [Nodes -> Ends]
    /\ intent \in [Nodes -> {"none", "running", "stopped"}]
CallTypes == call \in [Requests -> CallRecs]
JobTypes == job \in JobRecs /\ (job.phase = "none" \/ job.at \in 1..Len(job.plan))
RestTypes == cancelled \in BOOLEAN /\ events \in 0..MaxEvents

LEMMA TypeParts == TypeOK <=> SetTypes /\ EndTypes /\ CallTypes /\ JobTypes /\ RestTypes
BY DEF TypeOK, SetTypes, EndTypes, CallTypes, JobTypes, RestTypes

LEMMA TypePartsNext == SetTypes' /\ EndTypes' /\ CallTypes' /\ JobTypes' /\ RestTypes' => TypeOK'
BY DEF TypeOK, SetTypes, EndTypes, CallTypes, JobTypes, RestTypes

(* A call is put in the place of another, or its step changes.               *)
LEMMA CallPut ==
    ASSUME CallTypes, NEW r \in Requests, NEW c \in CallRecs, call' = [call EXCEPT ![r] = c]
    PROVE  CallTypes'
BY DEF CallTypes

LEMMA CallFields ==
    ASSUME CallTypes, NEW r \in Requests, call[r] # NoCall
    PROVE  /\ call[r] \in [op : Ops, node : Nodes, at : Steps, got : Ends]
           /\ call[r].op \in Ops /\ call[r].node \in Nodes /\ call[r].at \in Steps /\ call[r].got \in Ends
BY DEF CallTypes, CallRecs

LEMMA NoCallIsOne == NoCall \in CallRecs
BY DEF CallRecs

LEMMA NewCall ==
    ASSUME NEW o \in Ops, NEW n \in Nodes, NEW a \in Steps, NEW e \in Ends
    PROVE  [op |-> o, node |-> n, at |-> a, got |-> e] \in CallRecs
BY DEF CallRecs

LEMMA JobFields ==
    ASSUME JobTypes
    PROVE  /\ job.phase \in Phases /\ job.plan \in Seq(Nodes) /\ job.at \in Nat /\ Len(job.plan) \in Nat
           /\ job.upgraded \subseteq Nodes /\ job.failed \subseteq Nodes /\ job.untouched \subseteq Nodes
           /\ \A i \in 1..Len(job.plan) : job.plan[i] \in Nodes
           /\ job = [phase |-> job.phase, plan |-> job.plan, at |-> job.at, upgraded |-> job.upgraded,
                     failed |-> job.failed, untouched |-> job.untouched]
BY DEF JobTypes, JobRecs

LEMMA NewJob ==
    ASSUME NEW ph \in Phases, NEW p \in Seq(Nodes), NEW i \in Nat, ph = "none" \/ i \in 1..Len(p), NEW u \in SUBSET Nodes,
           NEW f \in SUBSET Nodes, NEW w \in SUBSET Nodes,
           job' = [phase |-> ph, plan |-> p, at |-> i, upgraded |-> u, failed |-> f, untouched |-> w]
    PROVE  JobTypes'
BY DEF JobTypes, JobRecs

LEMMA TypeInit == Init => TypeOK
<1> SUFFICES ASSUME Init PROVE TypeOK
  OBVIOUS
<1>1. SetTypes /\ EndTypes BY FleetAssumption DEF Init, SetTypes, EndTypes, Ends
<1>2. CallTypes BY NoCallIsOne DEF Init, CallTypes
<1>3. JobTypes BY DEF Init, JobTypes, JobRecs, NoJob, Phases
<1>4. cancelled \in BOOLEAN BY DEF Init
<1>5. events \in 0..MaxEvents BY FleetAssumption DEF Init
<1> QED BY <1>5, <1>1, <1>2, <1>3, <1>4, TypeParts DEF RestTypes

LEMMA TypeRegistry ==
    ASSUME TypeOK, NEW n \in Nodes,
           JoinBegins(n) \/ JoinEnds(n) \/ RemoveNode(n) \/ Pin(n) \/ Unpin(n) \/ ByHand(n)
    PROVE  TypeOK'
<1> USE FleetAssumption DEF TypeOK, Ends, event, tunnels, fleetJob, registry
<1>1. CASE JoinBegins(n) BY <1>1 DEF JoinBegins
<1>2. CASE JoinEnds(n) BY <1>2 DEF JoinEnds
<1>3. CASE RemoveNode(n) BY <1>3 DEF RemoveNode
<1>4. CASE Pin(n) BY <1>4 DEF Pin
<1>5. CASE Unpin(n) BY <1>5 DEF Unpin
<1>6. CASE ByHand(n) BY <1>6 DEF ByHand
<1> QED BY <1>1, <1>2, <1>3, <1>4, <1>5, <1>6

(* What every request does to the two ends and to the calls.                 *)
LEMMA RequestFrame ==
    ASSUME NEW r \in Requests, NEW n \in Tunnels,
           \/ CreatePair(r, n) \/ EditTunnel(r, n) \/ DeleteTunnel(r, n)
           \/ \E o \in Ops : StartStop(r, n, o)
    PROVE  /\ free(r) /\ UNCHANGED <<registry, far, intent, fleetJob>>
           /\ \E e \in Ends : here' = [here EXCEPT ![n] = e]
           /\ pairs' \in {pairs, pairs \ {n}}
           /\ (\E o \in Ops : asks(r, o, n)) \/ UNCHANGED <<call, touched>>
BY DEF CreatePair, EditTunnel, DeleteTunnel, StartStop, alone, asksNobody, Ops, Ends

LEMMA TypeRequests ==
    ASSUME TypeOK, NEW r \in Requests, NEW n \in Tunnels,
           \/ CreatePair(r, n) \/ EditTunnel(r, n) \/ DeleteTunnel(r, n)
           \/ \E o \in Ops : StartStop(r, n, o)
    PROVE  TypeOK'
<1>0. /\ free(r) /\ UNCHANGED <<registry, far, intent, fleetJob>>
      /\ \E e \in Ends : here' = [here EXCEPT ![n] = e]
      /\ pairs' \in {pairs, pairs \ {n}}
      /\ (\E o \in Ops : asks(r, o, n)) \/ UNCHANGED <<call, touched>>
  BY RequestFrame
<1>1. SetTypes' BY <1>0, FleetAssumption DEF TypeOK, SetTypes, registry, fleetJob, asks
<1>2. EndTypes' BY <1>0 DEF TypeOK, EndTypes
<1>3. CallTypes'
  <2>1. ASSUME NEW o \in Ops, asks(r, o, n) PROVE CallTypes'
    <3>1. [op |-> o, node |-> n, at |-> "first", got |-> "absent"] \in CallRecs
      BY NewCall, FleetAssumption DEF Steps, Ends
    <3> QED BY <2>1, <3>1, CallPut, TypeParts DEF asks
  <2> QED BY <1>0, <2>1, TypeParts DEF CallTypes
<1>4. JobTypes' BY <1>0, TypeParts DEF JobTypes, fleetJob
<1>5. events' \in 0..MaxEvents BY <1>0, TypeParts, FleetAssumption DEF RestTypes, free, event
<1>6. cancelled' \in BOOLEAN BY <1>0 DEF TypeOK, fleetJob
<1> QED BY <1>1, <1>2, <1>3, <1>4, <1>5, <1>6, TypePartsNext DEF RestTypes

LEMMA Sent ==
    ASSUME TypeOK, NEW r \in Requests, call[r].at \in Steps
    PROVE  /\ call[r] # NoCall
           /\ call[r].op \in Ops /\ call[r].node \in Nodes /\ call[r].got \in Ends
           /\ call[r] \in [op : Ops, node : Nodes, at : Steps, got : Ends]
<1>1. call[r] # NoCall BY DEF NoCall, Steps
<1> QED BY <1>1, CallFields, TypeParts

LEMMA TypeCalls ==
    ASSUME TypeOK, NEW r \in Requests,
           AttemptFails(r) \/ Refused(r) \/ AttemptRuns(r) \/ Recorded(r)
    PROVE  TypeOK'
<1> DEFINE n == call[r].node
<1>0. call[r].at \in Steps
  BY DEF AttemptFails, Refused, AttemptRuns, Recorded, Steps
<1>1. n \in Nodes /\ call[r].op \in Ops /\ call[r].got \in Ends
      /\ call[r] \in [op : Ops, node : Nodes, at : Steps, got : Ends]
  BY <1>0, Sent
<1>2. UNCHANGED <<registry, here, fleetJob, events>>
  BY DEF AttemptFails, Refused, AttemptRuns, Recorded
<1>3. SetTypes'
  <2>1. touched' \in {touched, touched \cup {n}, touched \ {n}} /\ pairs' \in {pairs, pairs \cup {n}}
    BY DEF AttemptFails, Refused, AttemptRuns, Recorded
  <2> QED BY <1>1, <1>2, <2>1 DEF TypeOK, SetTypes, registry, fleetJob
<1>4. EndTypes'
  <2>1. \A o, e : Execute(o, e) \subseteq Ends BY DEF Execute, Ends
  <2>2. \/ UNCHANGED <<far, intent>>
        \/ UNCHANGED intent /\ \E e \in Ends : far' = [far EXCEPT ![n] = e]
        \/ UNCHANGED far /\ intent' = record(call[r].op, n, call[r].got)
    BY <2>1 DEF AttemptFails, Refused, AttemptRuns, Recorded
  <2>3. record(call[r].op, n, call[r].got) \in [Nodes -> {"none", "running", "stopped"}]
    BY <1>1 DEF record, TypeOK
  <2> QED BY <1>1, <1>2, <2>2, <2>3 DEF TypeOK, EndTypes
<1>5. CallTypes'
  <2>1. CASE AttemptFails(r)
    <3>1. [call[r] EXCEPT !.at = "second"] \in CallRecs BY <1>1 DEF CallRecs, Steps
    <3> QED BY <2>1, <3>1, NoCallIsOne, CallPut, TypeParts DEF AttemptFails
  <2>2. CASE Refused(r) BY <2>2, NoCallIsOne, CallPut, TypeParts DEF Refused
  <2>3. CASE AttemptRuns(r)
    <3>1. PICK e \in Ends : call' = [call EXCEPT ![r].at = "ran", ![r].got = e]
      BY <2>3 DEF AttemptRuns, Execute, Ends
    <3>2. call' = [call EXCEPT ![r] = [call[r] EXCEPT !.at = "ran", !.got = e]]
      BY <3>1, TypeParts DEF CallTypes
    <3>3. [call[r] EXCEPT !.at = "ran", !.got = e] \in CallRecs BY <1>1 DEF CallRecs, Steps
    <3> QED BY <3>2, <3>3, CallPut, TypeParts
  <2>4. CASE Recorded(r) BY <2>4, NoCallIsOne, CallPut, TypeParts DEF Recorded
  <2> QED BY <2>1, <2>2, <2>3, <2>4
<1>6. JobTypes' /\ RestTypes' BY <1>2, TypeParts DEF JobTypes, RestTypes, fleetJob
<1> QED BY <1>3, <1>4, <1>5, <1>6, TypePartsNext

(* The shapes a step of the rollout gives the job.                           *)
LEMMA JobStep ==
    ASSUME JobTypes, Upgrade \/ Soak \/ Verify \/ StageEnds
    PROVE  /\ JobTypes' /\ quiet /\ job'.plan = job.plan
           /\ released' \in {released, released \cup {job.plan[job.at]}}
<1>1. /\ job.phase \in Phases /\ job.plan \in Seq(Nodes) /\ job.at \in Nat /\ Len(job.plan) \in Nat
      /\ job.upgraded \subseteq Nodes /\ job.failed \subseteq Nodes /\ job.untouched \subseteq Nodes
      /\ \A i \in 1..Len(job.plan) : job.plan[i] \in Nodes
      /\ job = [phase |-> job.phase, plan |-> job.plan, at |-> job.at, upgraded |-> job.upgraded,
                failed |-> job.failed, untouched |-> job.untouched]
  BY JobFields
<1>a. job.phase # "none" BY DEF Upgrade, Soak, Verify, StageEnds
<1>b. job.at \in 1..Len(job.plan) /\ job.plan[job.at] \in Nodes BY <1>1, <1>a DEF JobTypes
<1>2. /\ quiet
      /\ released' \in {released, released \cup {job.plan[job.at]}}
  BY DEF Upgrade, Soak, Verify, StageEnds
<1>3. rest(job.at) \subseteq Nodes
  <2> DEFINE W == {k \in 1..Len(job.plan) : stage(k) > stage(job.at)}
  <2>1. W \subseteq 1..Len(job.plan) OBVIOUS
  <2>2. rest(job.at) = {job.plan[j] : j \in W} BY DEF rest
  <2> HIDE DEF W
  <2> QED BY <1>1, <2>1, <2>2
<1>4. PICK ph \in Phases, u \in SUBSET Nodes, f \in SUBSET Nodes, w \in SUBSET Nodes, i \in 1..Len(job.plan) :
         job' = [phase |-> ph, plan |-> job.plan, at |-> i, upgraded |-> u, failed |-> f, untouched |-> w]
  <2>1. \A ph \in Phases : [job EXCEPT !.phase = ph] = [phase |-> ph, plan |-> job.plan, at |-> job.at,
            upgraded |-> job.upgraded, failed |-> job.failed, untouched |-> job.untouched]
    BY <1>1
  <2>3. job.failed \cup {job.plan[job.at]} \in SUBSET Nodes /\ job.upgraded \cup {job.plan[job.at]} \in SUBSET Nodes
    BY <1>1, <1>b
  <2>4. {"upgrade", "soak", "verify", "next", "over"} \subseteq Phases BY DEF Phases
  <2>5. CASE job' = GivenUp
    <3>1. job' = [phase |-> "next", plan |-> job.plan, at |-> job.at, upgraded |-> job.upgraded,
            failed |-> job.failed \cup {job.plan[job.at]}, untouched |-> job.untouched]
      BY <1>1, <2>5 DEF GivenUp
    <3> QED BY <1>1, <1>b, <2>3, <2>4, <3>1
  <2>6. CASE \E ph \in Phases : job' = [job EXCEPT !.phase = ph] BY <1>1, <1>b, <2>1, <2>6
  <2>7. CASE halt
    <3>1. job' = [phase |-> "over", plan |-> job.plan, at |-> job.at,
            upgraded |-> job.upgraded, failed |-> job.failed, untouched |-> rest(job.at)]
      BY <1>1, <2>7 DEF halt
    <3> QED BY <1>1, <1>b, <1>3, <2>4, <3>1
  <2>8. CASE job' = [job EXCEPT !.upgraded = @ \cup {job.plan[job.at]}, !.phase = "next"]
    <3>1. job' = [phase |-> "next", plan |-> job.plan, at |-> job.at,
            upgraded |-> job.upgraded \cup {job.plan[job.at]}, failed |-> job.failed, untouched |-> job.untouched]
      BY <1>1, <2>8
    <3> QED BY <1>1, <1>b, <2>3, <2>4, <3>1
  <2>9. CASE job.at < Len(job.plan) /\ job' = [job EXCEPT !.at = job.at + 1, !.phase = "upgrade"]
    <3>1. job' = [phase |-> "upgrade", plan |-> job.plan, at |-> job.at + 1,
            upgraded |-> job.upgraded, failed |-> job.failed, untouched |-> job.untouched]
      BY <1>1, <2>9
    <3>2. job.at + 1 \in 1..Len(job.plan) BY <1>1, <2>9
    <3> QED BY <1>1, <3>2, <2>4, <3>1
  <2>10. CASE Upgrade BY <2>10, <2>5, <2>6, <2>4 DEF Upgrade
  <2>11. CASE Soak BY <2>11, <2>5, <2>6, <2>4 DEF Soak
  <2>12. CASE Verify BY <2>12, <2>5, <2>8 DEF Verify
  <2>13. CASE StageEnds
    <3>1. job.at # Len(job.plan) => job.at < Len(job.plan) BY <1>1, <1>b
    <3> QED BY <2>13, <3>1, <2>4, <2>6, <2>7, <2>9 DEF StageEnds, LastOfStage
  <2> QED BY <2>10, <2>11, <2>12, <2>13
<1>5. JobTypes' BY <1>1, <1>4, NewJob
<1>6. job'.plan = job.plan BY <1>4
<1> QED BY <1>2, <1>5, <1>6

LEMMA TypeRollout ==
    ASSUME TypeOK, StartRollout \/ Rollout \/ Cancel \/ PanelRestarts
    PROVE  TypeOK'
<1>1. CASE StartRollout
  <2>1. PICK p \in PlanRollout(members \ pinned) :
            job' = [NoJob EXCEPT !.phase = "upgrade", !.at = 1, !.plan = p]
    BY <1>1 DEF StartRollout
  <2>2. p \in Seq(Nodes) /\ Len(p) \in Nat \ {0}
    BY <1>1, PlanIsSequence DEF StartRollout, TypeOK
  <2>3. job' = [phase |-> "upgrade", plan |-> p, at |-> 1, upgraded |-> {}, failed |-> {}, untouched |-> {}]
    BY <2>1 DEF NoJob
  <2>4. JobTypes' BY <2>2, <2>3, NewJob DEF Phases
  <2>5. SetTypes' /\ EndTypes' /\ CallTypes'
    BY <1>1 DEF StartRollout, registry, tunnels, TypeOK, SetTypes, EndTypes, CallTypes
  <2>6. cancelled' \in BOOLEAN
    <3>1. cancelled' = FALSE BY <1>1 DEF StartRollout
    <3> QED BY <3>1
  <2>7. events' \in 0..MaxEvents
    <3>1. event BY <1>1 DEF StartRollout
    <3>2. events \in 0..MaxEvents BY DEF TypeOK
    <3> QED BY <3>1, <3>2, FleetAssumption DEF event
  <2> QED BY <2>4, <2>5, <2>6, <2>7, TypePartsNext DEF RestTypes
<1>2. CASE Rollout
  <2>1. /\ JobTypes' /\ quiet
        /\ released' \in {released, released \cup {job.plan[job.at]}}
    BY <1>2, JobStep, TypeParts DEF Rollout
  <2>2. job.plan[job.at] \in Nodes
    <3>1. job.phase # "none" BY <1>2 DEF Rollout, Upgrade, Soak, Verify, StageEnds
    <3> QED BY <3>1, JobFields, TypeParts DEF JobTypes
  <2>3. SetTypes' BY <2>1, <2>2 DEF quiet, registry, tunnels, TypeOK, SetTypes
  <2>4. EndTypes' /\ CallTypes' /\ RestTypes'
    BY <2>1 DEF quiet, registry, tunnels, TypeOK, EndTypes, CallTypes, RestTypes
  <2> QED BY <2>1, <2>3, <2>4, TypePartsNext
<1>3. CASE Cancel
  <2>1. SetTypes' /\ EndTypes' /\ CallTypes' /\ JobTypes'
    BY <1>3 DEF Cancel, registry, tunnels, TypeOK, SetTypes, EndTypes, CallTypes, JobTypes
  <2>2. cancelled' \in BOOLEAN BY <1>3 DEF Cancel
  <2>3. events' \in 0..MaxEvents BY <1>3 DEF Cancel, TypeOK
  <2> QED BY <2>1, <2>2, <2>3, TypePartsNext DEF RestTypes
<1>4. CASE PanelRestarts
  <2>1. {call[r].node : r \in {q \in Requests : call[q] # NoCall}} \subseteq Nodes
    BY CallFields, TypeParts
  <2>2. SetTypes' BY <1>4, <2>1 DEF PanelRestarts, TypeOK, SetTypes
  <2>3. EndTypes' BY <1>4 DEF PanelRestarts, TypeOK, EndTypes
  <2>4. CallTypes' BY <1>4, NoCallIsOne DEF PanelRestarts, CallTypes
  <2>5. JobTypes'
    <3>1. NoJob = [phase |-> "none", plan |-> <<>>, at |-> 0, upgraded |-> {}, failed |-> {}, untouched |-> {}]
      BY DEF NoJob
    <3>2. "none" \in Phases /\ <<>> \in Seq(Nodes) /\ {} \in SUBSET Nodes BY DEF Phases
    <3>3. job' = NoJob => JobTypes' BY <3>1, <3>2, NewJob
    <3> QED BY <1>4, <3>3, TypeParts DEF PanelRestarts, JobTypes
  <2>6. cancelled' \in BOOLEAN BY <1>4 DEF PanelRestarts, TypeOK
  <2>7. events' \in 0..MaxEvents BY <1>4, FleetAssumption, TypeParts DEF PanelRestarts, event, RestTypes
  <2> QED BY <2>2, <2>3, <2>4, <2>5, <2>6, <2>7, TypePartsNext DEF RestTypes
<1> QED BY <1>1, <1>2, <1>3, <1>4

LEMMA TypeStep == TypeOK /\ [Next]_vars => TypeOK'
<1> SUFFICES ASSUME TypeOK, [Next]_vars PROVE TypeOK'
  OBVIOUS
<1>1. CASE Next BY <1>1, TypeRegistry, TypeRequests, TypeCalls, TypeRollout DEF Next
<1>2. CASE UNCHANGED vars BY <1>2 DEF vars, registry, tunnels, fleetJob, TypeOK
<1> QED BY <1>1, <1>2

(* Every variable has its type, whatever the operators ask for.              *)
THEOREM FleetTypeCorrect == Spec => []TypeOK
BY TypeInit, TypeStep, PTL DEF Spec

------------------------------------------------------------------------------
(* The registry                                                             *)

(* Every server of the fleet has answered or is joining.                     *)
THEOREM EveryMemberAnswered == Spec => []MembersAnswered
<1>1. Init => MembersAnswered BY DEF Init, MembersAnswered
<1>2. MembersAnswered /\ [Next]_vars => MembersAnswered'
  <2> SUFFICES ASSUME MembersAnswered, [Next]_vars PROVE MembersAnswered'
    OBVIOUS
  <2> USE DEF MembersAnswered
  <2>1. CASE UNCHANGED registry BY <2>1 DEF registry
  <2>2. ASSUME NEW n \in Nodes, JoinBegins(n) PROVE MembersAnswered' BY <2>2 DEF JoinBegins
  <2>3. ASSUME NEW n \in Nodes, JoinEnds(n) PROVE MembersAnswered' BY <2>3 DEF JoinEnds
  <2>4. ASSUME NEW n \in Nodes, RemoveNode(n) PROVE MembersAnswered' BY <2>4 DEF RemoveNode
  <2>5. ASSUME NEW n \in Nodes, Pin(n) \/ Unpin(n) PROVE MembersAnswered' BY <2>5 DEF Pin, Unpin
  <2>6. ASSUME NEW n \in Nodes, ByHand(n) PROVE MembersAnswered' BY <2>1, <2>6 DEF ByHand
  <2>7. ASSUME NEW r \in Requests, NEW n \in Tunnels,
               \/ CreatePair(r, n) \/ EditTunnel(r, n) \/ DeleteTunnel(r, n)
               \/ \E o \in Ops : StartStop(r, n, o)
        PROVE  MembersAnswered'
    BY <2>1, <2>7, RequestFrame
  <2>8. ASSUME NEW r \in Requests, AttemptFails(r) \/ Refused(r) \/ AttemptRuns(r) \/ Recorded(r)
        PROVE  MembersAnswered'
    BY <2>1, <2>8 DEF AttemptFails, Refused, AttemptRuns, Recorded
  <2>9. CASE StartRollout \/ Rollout \/ Cancel
    BY <2>1, <2>9 DEF StartRollout, Rollout, Upgrade, Soak, Verify, StageEnds, Cancel, quiet
  <2>10. CASE PanelRestarts BY <2>10 DEF PanelRestarts
  <2>11. CASE UNCHANGED vars BY <2>1, <2>11 DEF vars
  <2> QED BY <2>2, <2>3, <2>4, <2>5, <2>6, <2>7, <2>8, <2>9, <2>10, <2>11 DEF Next
<1> QED BY <1>1, <1>2, PTL DEF Spec

------------------------------------------------------------------------------
(* The far ends                                                             *)

(* A node whose ends, intent and requests a step leaves alone is known as it *)
(* was.                                                                      *)
LEMMA Elsewhere ==
    ASSUME NEW n \in Nodes, Known(n), far'[n] = far[n], intent'[n] = intent[n],
           \A r \in Requests : call'[r] = call[r] \/ (call[r].node # n /\ call'[r].node # n),
           TypeOK, TypeOK'
    PROVE  Known(n)'
<1>1. busyWith(n)' = busyWith(n) BY DEF busyWith
<1>2. \A r \in busyWith(n) : call'[r] = call[r] BY DEF busyWith
<1>3. \A o, e : record(o, n, e)'[n] = record(o, n, e)[n]
  <2> TAKE o, e
  <2>1. intent \in [Nodes -> {"none", "running", "stopped"}] /\ intent' \in [Nodes -> {"none", "running", "stopped"}]
    BY DEF TypeOK
  <2> QED BY <2>1 DEF record
<1>4. ASSUME NEW r \in busyWith(n) PROVE Underway(r, n)'
  BY <1>2, <1>3, <1>4 DEF Underway, Known
<1> QED BY <1>1, <1>4 DEF Known

(* What a command leaves behind, and what is then written down.              *)
LEMMA ExecuteDoes ==
    ASSUME NEW o \in Ops, NEW e \in Ends, NEW x \in Execute(o, e)
    PROVE  /\ o \in {"create", "edit"} => x \in {"active", "stopped"}
           /\ o = "delete" => x = "absent"
           /\ o = "stop" => e # "absent" /\ x = "stopped"
           /\ o \in {"start", "restart"} => e # "absent" /\ x = "active"
<1>1. CASE o \in {"create", "edit"} BY <1>1 DEF Execute
<1>2. CASE o = "delete" BY <1>2 DEF Execute
<1>3. CASE o = "stop" BY <1>3 DEF Execute
<1>4. CASE o \in {"start", "restart"} BY <1>4 DEF Execute
<1> QED BY <1>1, <1>2, <1>3, <1>4 DEF Ops

LEMMA RecordDoes ==
    ASSUME intent \in [Nodes -> {"none", "running", "stopped"}], NEW o \in Ops, NEW n \in Nodes, NEW e \in Ends
    PROVE  /\ o \in {"create", "edit"} /\ e = "active" => record(o, n, e)[n] = "running"
           /\ o \in {"create", "edit"} /\ e # "active" => record(o, n, e)[n] = "stopped"
           /\ o = "delete" => record(o, n, e)[n] = "none"
           /\ o = "start" /\ intent[n] # "none" => record(o, n, e)[n] = "running"
           /\ o = "stop" /\ intent[n] # "none" => record(o, n, e)[n] = "stopped"
           /\ o = "restart" => record(o, n, e)[n] = intent[n]
<1>1. CASE o \in {"create", "edit"} BY <1>1 DEF record
<1>2. CASE o = "delete" BY <1>2 DEF record
<1>3. CASE o = "stop" BY <1>3 DEF record
<1>4. CASE o = "start" BY <1>4 DEF record
<1>5. CASE o = "restart" BY <1>5 DEF record
<1> QED BY <1>1, <1>2, <1>3, <1>4, <1>5 DEF Ops

LEMMA FarInit == Init => FarEndsInv
BY FleetAssumption DEF Init, FarEndsInv, Known, busyWith, NoCall, Agreed

(* A request of an operator.                                                 *)
LEMMA FarRequests ==
    ASSUME TypeOK, TypeOK', FarEndsInv, NEW r \in Requests, NEW n \in Tunnels,
           \/ CreatePair(r, n) \/ EditTunnel(r, n) \/ DeleteTunnel(r, n)
           \/ \E o \in Ops : StartStop(r, n, o)
    PROVE  FarEndsInv'
<1>0. /\ call[r] = NoCall /\ UNCHANGED <<far, intent>> /\ n \in Nodes
      /\ (\E o \in Ops : asks(r, o, n)) \/ UNCHANGED <<call, touched>>
  BY RequestFrame, FleetAssumption DEF free
<1>1. CASE UNCHANGED <<call, touched>> BY <1>0, <1>1, Elsewhere DEF FarEndsInv
<1>2. ASSUME NEW o \in Ops, asks(r, o, n), NEW m \in Nodes \ touched' PROVE Known(m)'
  <2>0. m \notin touched /\ Known(m) BY <1>2 DEF asks, FarEndsInv
  <2>1. call' = [call EXCEPT ![r] = [op |-> o, node |-> n, at |-> "first", got |-> "absent"]]
    BY <1>2 DEF asks
  <2>2. call \in [Requests -> CallRecs] BY DEF TypeOK
  <2>3. CASE m # n
    <3>1. call[r].node # m BY <1>0, FleetAssumption DEF NoCall
    <3> QED BY <1>0, <2>0, <2>1, <2>2, <2>3, <3>1, Elsewhere
  <2>4. CASE m = n
    <3>1. busyWith(n) = {} BY <1>2, <2>4 DEF asks
    <3>2. busyWith(n)' = {r} BY <2>1, <2>2, <3>1 DEF busyWith
    <3>3. Agreed(intent[n], far[n]) BY <2>0, <2>4, <3>1 DEF Known
    <3>4. call'[r].at = "first" BY <2>1, <2>2
    <3>5. Underway(r, n)' BY <1>0, <3>3, <3>4 DEF Underway
    <3> QED BY <2>4, <3>2, <3>5 DEF Known
  <2> QED BY <2>3, <2>4
<1> QED BY <1>0, <1>1, <1>2 DEF FarEndsInv

(* An attempt of a command, and the note of its answer.                      *)
LEMMA FarCalls ==
    ASSUME TypeOK, TypeOK', FarEndsInv, NEW r \in Requests,
           AttemptFails(r) \/ Refused(r) \/ AttemptRuns(r) \/ Recorded(r)
    PROVE  FarEndsInv'
<1>a. call[r].at \in Steps
  BY DEF AttemptFails, Refused, AttemptRuns, Recorded, Steps
<1>0. PICK c \in [op : Ops, node : Nodes, at : Steps, got : Ends], n \in Nodes : c = call[r] /\ n = c.node
  BY <1>a, Sent
<1>1. /\ call \in [Requests -> CallRecs] /\ far \in [Nodes -> Ends] /\ n \in Nodes
      /\ intent \in [Nodes -> {"none", "running", "stopped"}]
  BY <1>0 DEF TypeOK
<1>2. ASSUME NEW m \in Nodes \ touched', m # n PROVE Known(m)'
  <2>1. m \notin touched BY <1>0, <1>2 DEF AttemptFails, Refused, AttemptRuns, Recorded
  <2>2. far'[m] = far[m] /\ intent'[m] = intent[m]
    BY <1>0, <1>1, <1>2 DEF AttemptFails, Refused, AttemptRuns, Recorded, record
  <2>3. \A q \in Requests \ {r} : call'[q] = call[q]
    BY <1>1 DEF AttemptFails, Refused, AttemptRuns, Recorded
  <2>4. call'[r].node \in {n, 0}
    <3>1. call[r] \in [op : Ops, node : Nodes, at : Steps, got : Ends] BY <1>0
    <3> QED BY <1>0, <1>1, <3>1 DEF AttemptFails, Refused, AttemptRuns, Recorded, NoCall
  <2> QED BY <1>0, <1>2, <2>1, <2>2, <2>3, <2>4, Elsewhere, FleetAssumption DEF FarEndsInv
<1>3. r \in busyWith(n) BY <1>0 DEF busyWith
<1>4. n \notin touched => busyWith(n) = {r} /\ Underway(r, n)
  BY <1>0, <1>3 DEF FarEndsInv, Known
<1>5. ASSUME n \notin touched', call' = [call EXCEPT ![r] = NoCall], busyWith(n) = {r}, Agreed(intent[n], far[n])'
      PROVE  Known(n)'
  <2>1. busyWith(n)' = {} BY <1>1, <1>5, FleetAssumption DEF busyWith, NoCall
  <2> QED BY <1>5, <2>1 DEF Known
<1>6. ASSUME n \notin touched' PROVE Known(n)'
  <2>1. CASE Refused(r)
    <3>1. n \notin touched /\ c.at = "first" BY <1>0, <1>6, <2>1 DEF Refused
    <3>2. Agreed(intent[n], far[n])' BY <1>0, <1>4, <2>1, <3>1 DEF Refused, Underway
    <3> QED BY <1>4, <1>5, <1>6, <2>1, <3>1, <3>2 DEF Refused
  <2>2. CASE Recorded(r)
    <3>1. n \notin touched /\ c.at = "ran" BY <1>0, <1>6, <2>2 DEF Recorded
    <3>2. Agreed(intent[n], far[n])' BY <1>0, <1>4, <2>2, <3>1 DEF Recorded, Underway
    <3> QED BY <1>4, <1>5, <1>6, <2>2, <3>1, <3>2 DEF Recorded
  <2>3. CASE AttemptFails(r)
    <3>1. /\ n \notin touched /\ c.at = "first" /\ call' = [call EXCEPT ![r].at = "second"]
          /\ UNCHANGED intent /\ (far'[n] = far[n] \/ far'[n] \in Execute(c.op, far[n]))
      BY <1>0, <1>1, <1>6, <2>3 DEF AttemptFails
    <3>2. call' = [call EXCEPT ![r] = [c EXCEPT !.at = "second"]] BY <1>0, <3>1
    <3>3. busyWith(n)' = {r} BY <1>0, <1>1, <1>4, <3>1, <3>2 DEF busyWith
    <3>4. call'[r].at = "second" /\ call'[r].op = c.op BY <1>0, <1>1, <3>2
    <3>5. Agreed(intent[n], far[n]) BY <1>0, <1>4, <3>1 DEF Underway
    <3>6. c.op \in {"start", "stop", "restart"} => (intent'[n] = "none" <=> far'[n] = "absent")
      BY <1>0, <1>1, <3>1, <3>5, ExecuteDoes DEF Agreed
    <3>7. Underway(r, n)' BY <3>4, <3>6 DEF Underway
    <3> QED BY <3>3, <3>7 DEF Known
  <2>4. CASE AttemptRuns(r)
    <3>1. PICK e \in Execute(c.op, far[n]) :
             /\ far' = [far EXCEPT ![n] = e]
             /\ call' = [call EXCEPT ![r].at = "ran", ![r].got = e]
      BY <1>0, <2>4 DEF AttemptRuns
    <3>2. call' = [call EXCEPT ![r] = [c EXCEPT !.at = "ran", !.got = e]] BY <1>0, <1>1, <3>1
    <3>3. UNCHANGED intent /\ c.at \in {"first", "second"} /\ far'[n] = e
      BY <1>0, <1>1, <2>4, <3>1 DEF AttemptRuns
    <3>4. call'[r].at = "ran" /\ call'[r].op = c.op /\ call'[r].got = e /\ call'[r].node = n
      BY <1>0, <1>1, <3>2
    <3>5. busyWith(n) = {r} => busyWith(n)' = {r} BY <1>0, <1>1, <3>2, <3>4 DEF busyWith
    <3>6. \/ c.op \in {"create", "edit", "delete"} /\ busyWith(n) = {r}
          \/ n \notin touched /\ ~(c.op = "restart" /\ intent[n] = "stopped")
      BY <1>0, <1>6, <2>4 DEF AttemptRuns
    <3>7. busyWith(n) = {r} BY <1>4, <3>6
    <3>8. Agreed(record(c.op, n, e)[n], e)
      <4>0. /\ c.op \in Ops /\ far[n] \in Ends /\ e \in Ends
            /\ intent[n] \in {"none", "running", "stopped"}
        BY <1>0, <1>1, <3>1 DEF Execute, Ends
      <4>1. CASE c.op \in {"create", "edit", "delete"}
        BY <1>1, <3>1, <4>0, <4>1, ExecuteDoes, RecordDoes DEF Agreed
      <4>2. CASE c.op \in {"start", "stop", "restart"}
        <5>1. n \notin touched /\ ~(c.op = "restart" /\ intent[n] = "stopped") BY <3>6, <4>2
        <5>2. intent[n] = "none" <=> far[n] = "absent"
          BY <1>0, <1>4, <3>3, <4>2, <5>1 DEF Underway, Agreed
        <5> QED BY <1>1, <3>1, <4>0, <4>2, <5>1, <5>2, ExecuteDoes, RecordDoes DEF Agreed
      <4> QED BY <1>0, <4>1, <4>2 DEF Ops
    <3>9. record(c.op, n, e)'[n] = record(c.op, n, e)[n] BY <3>3 DEF record
    <3>10. Underway(r, n)' BY <3>3, <3>4, <3>8, <3>9 DEF Underway
    <3> QED BY <3>5, <3>7, <3>10 DEF Known
  <2> QED BY <2>1, <2>2, <2>3, <2>4
<1> QED BY <1>2, <1>6 DEF FarEndsInv

LEMMA FarStep == TypeOK /\ TypeOK' /\ FarEndsInv /\ [Next]_vars => FarEndsInv'
<1> SUFFICES ASSUME TypeOK, TypeOK', FarEndsInv, [Next]_vars PROVE FarEndsInv'
  OBVIOUS
<1>0. far \in [Nodes -> Ends] /\ intent \in [Nodes -> {"none", "running", "stopped"}] BY DEF TypeOK
<1>1. CASE UNCHANGED <<tunnels, call>> BY <1>1, Elsewhere DEF tunnels, FarEndsInv
<1>2. ASSUME NEW n \in Nodes, RemoveNode(n) PROVE FarEndsInv'
  BY <1>0, <1>2, Elsewhere DEF RemoveNode, FarEndsInv
<1>3. ASSUME NEW n \in Nodes, ByHand(n) PROVE FarEndsInv'
  BY <1>0, <1>3, Elsewhere DEF ByHand, FarEndsInv
<1>4. ASSUME NEW n \in Nodes, JoinBegins(n) \/ JoinEnds(n) \/ Pin(n) \/ Unpin(n) PROVE FarEndsInv'
  BY <1>1, <1>4 DEF JoinBegins, JoinEnds, Pin, Unpin
<1>5. CASE StartRollout \/ Rollout \/ Cancel
  BY <1>1, <1>5 DEF StartRollout, Rollout, Upgrade, Soak, Verify, StageEnds, Cancel, quiet
<1>6. CASE PanelRestarts
  <2> SUFFICES ASSUME NEW n \in Nodes \ touched' PROVE Known(n)'
    BY DEF FarEndsInv
  <2>1. n \notin touched /\ busyWith(n) = {} /\ UNCHANGED <<far, intent>>
    BY <1>6, FleetAssumption DEF PanelRestarts, busyWith, NoCall
  <2>2. busyWith(n)' = {} BY <1>6, FleetAssumption DEF PanelRestarts, busyWith, NoCall
  <2> QED BY <2>1, <2>2 DEF FarEndsInv, Known
<1>7. CASE UNCHANGED vars BY <1>1, <1>7 DEF vars
<1> QED BY <1>2, <1>3, <1>4, <1>5, <1>6, <1>7, FarRequests, FarCalls DEF Next

(* A report of drift has a cause, for any number of requests at one time.    *)
THEOREM DriftHasACause == Spec => []DriftIsReal
<1>1. Init => TypeOK /\ FarEndsInv BY TypeInit, FarInit
<1>2. (TypeOK /\ FarEndsInv) /\ [Next]_vars => (TypeOK /\ FarEndsInv)' BY TypeStep, FarStep
<1>3. TypeOK /\ FarEndsInv => DriftIsReal
  <2> SUFFICES ASSUME TypeOK, FarEndsInv, NEW n \in members \ touched, busyWith(n) = {}
               PROVE  Reconcile(n) = {}
    BY DEF DriftIsReal
  <2>1. Agreed(intent[n], far[n]) BY DEF FarEndsInv, Known, TypeOK
  <2> QED BY <2>1 DEF Reconcile, Agreed
<1> QED BY <1>1, <1>2, <1>3, PTL DEF Spec

------------------------------------------------------------------------------
(* The rollout                                                              *)

(* The canary is alone in its stage, and stages follow one another.          *)
LEMMA StageOrder ==
    /\ \A i \in Nat \ {0} : stage(i) \in Nat
    /\ \A i, j \in Nat \ {0} : i <= j => stage(i) <= stage(j)
    /\ \A i \in Nat \ {0} : stage(i + 1) <= stage(i) + 1
    /\ stage(1) = 0 /\ stage(2) = 1
<1> USE FleetAssumption DEF stage
<1>1. \A a \in Nat : a \div Wave \in Nat /\ (a + 1) \div Wave <= (a \div Wave) + 1
  OBVIOUS
<1>2. \A a, b \in Nat : a <= b => a \div Wave <= b \div Wave
  OBVIOUS
<1>3. (Wave - 1) \div Wave = 0 /\ Wave \div Wave = 1
  OBVIOUS
<1>4. \A i \in Nat \ {0} : stage(i) \in Nat
  <2> TAKE i \in Nat \ {0}
  <2>1. i + Wave - 2 \in Nat OBVIOUS
  <2> QED BY <1>1, <2>1
<1>5. \A i, j \in Nat \ {0} : i <= j => stage(i) <= stage(j)
  <2> SUFFICES ASSUME NEW i \in Nat \ {0}, NEW j \in Nat \ {0}, i <= j PROVE stage(i) <= stage(j)
    OBVIOUS
  <2>1. i + Wave - 2 \in Nat /\ j + Wave - 2 \in Nat /\ i + Wave - 2 <= j + Wave - 2 OBVIOUS
  <2> QED BY <1>2, <2>1
<1>6. \A i \in Nat \ {0} : stage(i + 1) <= stage(i) + 1
  <2> TAKE i \in Nat \ {0}
  <2>1. i + Wave - 2 \in Nat /\ (i + 1) + Wave - 2 = (i + Wave - 2) + 1 OBVIOUS
  <2> QED BY <1>1, <2>1
<1>7. stage(1) = 0 /\ stage(2) = 1
  <2>1. 1 + Wave - 2 = Wave - 1 /\ 2 + Wave - 2 = Wave OBVIOUS
  <2> QED BY <1>3, <2>1
<1> QED BY <1>4, <1>5, <1>6, <1>7

(* Nobody comes after the last of a stage in the same stage.                 *)
LEMMA AfterTheLast ==
    ASSUME TypeOK, job.phase # "none", LastOfStage(job.at)
    PROVE  rest(job.at) = {job.plan[i] : i \in {k \in 1..Len(job.plan) : k > job.at}}
<1>1. job.at \in 1..Len(job.plan) /\ Len(job.plan) \in Nat
  BY JobFields, TypeParts DEF JobTypes
<1>2. ASSUME NEW k \in 1..Len(job.plan) PROVE stage(k) > stage(job.at) <=> k > job.at
  <2>0. k \in Nat \ {0} /\ job.at \in Nat \ {0} BY <1>1
  <2>1. stage(k) \in Nat /\ stage(job.at) \in Nat BY <2>0, StageOrder
  <2>2. CASE k <= job.at
    <3>1. stage(k) <= stage(job.at) BY <2>0, <2>2, StageOrder
    <3> QED BY <1>1, <2>1, <2>2, <3>1
  <2>3. CASE k > job.at
    <3>1. stage(job.at + 1) # stage(job.at) BY <1>1, <2>3 DEF LastOfStage
    <3>2. job.at + 1 \in Nat \ {0} /\ job.at \in Nat \ {0} /\ k \in Nat \ {0} /\ job.at + 1 <= k /\ job.at <= job.at + 1
      BY <1>1, <2>3
    <3>3. stage(job.at + 1) \in Nat /\ stage(job.at) <= stage(job.at + 1) /\ stage(job.at + 1) <= stage(k)
      BY <3>2, StageOrder
    <3> QED BY <2>1, <2>3, <3>1, <3>3
  <2> QED BY <1>1, <2>2, <2>3
<1> QED BY <1>2 DEF rest

(* The failures of a stage are a number, and a node that fails counts in its *)
(* own stage only.                                                           *)
LEMMA FailuresCount ==
    ASSUME TypeOK
    PROVE  /\ \A s : failures(s) \in Nat
           /\ \A i \in 1..Len(job.plan) : job.plan[i] \in job.failed => failures(stage(i)) > 0
<1>0. Len(job.plan) \in Nat BY JobFields, TypeParts
<1> DEFINE F(s) == {i \in 1..Len(job.plan) : stage(i) = s /\ job.plan[i] \in job.failed}
<1>1. \A s : IsFiniteSet(F(s))
  <2>1. IsFiniteSet(1..Len(job.plan)) BY <1>0, FS_Interval
  <2>2. \A s : F(s) \subseteq 1..Len(job.plan) OBVIOUS
  <2> HIDE DEF F
  <2> QED BY <2>1, <2>2, FS_Subset
<1>2. \A s : failures(s) = Cardinality(F(s)) BY DEF failures
<1>3. \A i \in 1..Len(job.plan) : job.plan[i] \in job.failed => i \in F(stage(i)) OBVIOUS
<1> HIDE DEF F
<1>4. \A s : failures(s) \in Nat BY <1>1, <1>2, FS_CardinalityType
<1>5. ASSUME NEW i \in 1..Len(job.plan), job.plan[i] \in job.failed PROVE failures(stage(i)) > 0
  <2>1. Cardinality(F(stage(i))) # 0 BY <1>1, <1>3, <1>5, FS_EmptySet
  <2> QED BY <1>2, <1>4, <2>1
<1> QED BY <1>4, <1>5

LEMMA RolloutInit == Init => RolloutInv
BY DEF Init, NoJob, RolloutInv, PlanInv, LinesInv, ReleaseInv, StagesInv

(* A rollout begins.                                                         *)
LEMMA RolloutStarts == TypeOK /\ TypeOK' /\ StartRollout => RolloutInv'
<1> SUFFICES ASSUME TypeOK, TypeOK', StartRollout PROVE RolloutInv'
  OBVIOUS
<1>1. PICK p \in PlanRollout(members \ pinned) :
          job' = [NoJob EXCEPT !.phase = "upgrade", !.at = 1, !.plan = p]
  BY DEF StartRollout
<1>2. p \in Seq(Nodes) /\ Len(p) \in Nat \ {0} /\ \A i, j \in 1..Len(p) : p[i] = p[j] => i = j
  BY PlanIsSequence DEF StartRollout, TypeOK
<1>3. /\ job'.phase = "upgrade" /\ job'.plan = p /\ job'.at = 1
      /\ job'.upgraded = {} /\ job'.failed = {} /\ job'.untouched = {} /\ released' = {}
  BY <1>1 DEF NoJob, StartRollout
<1>4. PlanInv' BY <1>2, <1>3 DEF PlanInv
<1>5. LinesInv' BY <1>2, <1>3 DEF LinesInv, Behind
<1>6. ReleaseInv' BY <1>3 DEF ReleaseInv
<1>7. StagesInv' BY <1>3, StageOrder DEF StagesInv
<1> QED BY <1>4, <1>5, <1>6, <1>7 DEF RolloutInv

(* What a step of the rollout does, field by field.                          *)
LEMMA JobMoves ==
    ASSUME TypeOK, Rollout, job.untouched = {}
    PROVE  LET n == job.plan[job.at] IN
           /\ job.phase \in {"upgrade", "soak", "verify", "next"} /\ job'.plan = job.plan /\ faulty' = faulty
           /\ \/ /\ job.phase \in {"upgrade", "soak", "verify"} /\ job'.phase = "next" /\ job'.at = job.at
                 /\ job'.failed = job.failed \cup {n} /\ UNCHANGED <<job.upgraded, job.untouched>>
                 /\ released' \in {released, released \cup {n}}
              \/ /\ job.phase = "upgrade" /\ job'.phase \in {"soak", "verify"} /\ job'.at = job.at
                 /\ UNCHANGED <<job.failed, job.upgraded, job.untouched>> /\ released' = released \cup {n}
              \/ /\ job.phase = "soak" /\ job'.phase = "verify" /\ job'.at = job.at
                 /\ UNCHANGED <<job.failed, job.upgraded, job.untouched, released>>
              \/ /\ job.phase = "verify" /\ job'.phase = "next" /\ job'.at = job.at /\ n \notin faulty
                 /\ job'.upgraded = job.upgraded \cup {n} /\ UNCHANGED <<job.failed, job.untouched, released>>
              \/ /\ job.phase = "next" /\ job'.phase = "over" /\ job'.at = job.at
                 /\ UNCHANGED <<job.failed, job.upgraded, released>>
                 /\ job'.untouched = {job.plan[i] : i \in {k \in 1..Len(job.plan) : k > job.at}}
              \/ /\ job.phase = "next" /\ job'.phase = "upgrade" /\ job'.at = job.at + 1 /\ job.at < Len(job.plan)
                 /\ UNCHANGED <<job.failed, job.upgraded, job.untouched, released>>
                 /\ \/ stage(job.at + 1) = stage(job.at)
                    \/ failures(stage(job.at)) <= (IF job.at = 1 THEN 0 ELSE Tolerance)
<1> USE JobFields, TypeParts DEF JobTypes, JobRecs
<1>1. CASE Upgrade BY <1>1 DEF Upgrade, GivenUp, quiet
<1>2. CASE Soak BY <1>2 DEF Soak, GivenUp, quiet
<1>3. CASE Verify BY <1>3 DEF Verify, GivenUp, quiet
<1>4. CASE StageEnds
  <2>1. job.at \in 1..Len(job.plan) /\ Len(job.plan) \in Nat BY <1>4 DEF StageEnds
  <2>2. LastOfStage(job.at) => rest(job.at) = {job.plan[i] : i \in {k \in 1..Len(job.plan) : k > job.at}}
    BY <1>4, AfterTheLast DEF StageEnds
  <2>3. CASE ~LastOfStage(job.at)
    <3>1. job.at < Len(job.plan) /\ stage(job.at + 1) = stage(job.at) BY <2>1, <2>3 DEF LastOfStage
    <3>2. /\ job' = [job EXCEPT !.at = job.at + 1, !.phase = "upgrade"] /\ job.phase = "next"
          /\ UNCHANGED <<released, faulty>>
      BY <1>4, <2>3 DEF StageEnds, quiet
    <3> QED BY <3>1, <3>2
  <2>4. CASE LastOfStage(job.at) /\ halt BY <1>4, <2>1, <2>2, <2>4 DEF StageEnds, halt, quiet
  <2>5. CASE LastOfStage(job.at) /\ job.at = Len(job.plan) /\ job' = [job EXCEPT !.phase = "over"]
    <3>1. {k \in 1..Len(job.plan) : k > job.at} = {} BY <2>1, <2>5
    <3>2. {job.plan[i] : i \in {k \in 1..Len(job.plan) : k > job.at}} = {} BY <3>1
    <3> QED BY <1>4, <2>1, <2>5, <3>2 DEF StageEnds, quiet
  <2>6. CASE job.at # Len(job.plan) /\ failures(stage(job.at)) <= (IF job.at = 1 THEN 0 ELSE Tolerance)
             /\ job' = [job EXCEPT !.at = job.at + 1, !.phase = "upgrade"]
    BY <1>4, <2>1, <2>6 DEF StageEnds, quiet
  <2> QED BY <1>4, <2>3, <2>4, <2>5, <2>6 DEF StageEnds
<1> QED BY <1>1, <1>2, <1>3, <1>4 DEF Rollout

(* A step of the rollout.                                                    *)
LEMMA RolloutMoves == TypeOK /\ TypeOK' /\ RolloutInv /\ Rollout => RolloutInv'
<1> SUFFICES ASSUME TypeOK, TypeOK', RolloutInv, Rollout PROVE RolloutInv'
  OBVIOUS
<1>1. job.phase \in {"upgrade", "soak", "verify", "next"}
  BY DEF Rollout, Upgrade, Soak, Verify, StageEnds
<1>2. job.untouched = {} BY <1>1 DEF RolloutInv, LinesInv
<1>3. PICK p, n, i, L : p = job.plan /\ i = job.at /\ n = p[i] /\ L = Len(p)
  OBVIOUS
<1>4. /\ p \in Seq(Nodes) /\ L \in Nat /\ i \in 1..L /\ i \in Nat \ {0}
      /\ \A j, k \in 1..L : p[j] = p[k] => j = k
  BY <1>1, <1>3, JobFields, TypeParts DEF JobTypes, RolloutInv, PlanInv
<1> DEFINE
      Fails == /\ job.phase \in {"upgrade", "soak", "verify"} /\ job'.phase = "next" /\ job'.at = i
               /\ job'.failed = job.failed \cup {n} /\ job'.upgraded = job.upgraded /\ job'.untouched = {}
               /\ released' \in {released, released \cup {n}}
      Passes == /\ job.phase = "upgrade" /\ job'.phase \in {"soak", "verify"} /\ job'.at = i
                /\ job'.failed = job.failed /\ job'.upgraded = job.upgraded /\ job'.untouched = {}
                /\ released' = released \cup {n}
      Soaked == /\ job.phase = "soak" /\ job'.phase = "verify" /\ job'.at = i
                /\ job'.failed = job.failed /\ job'.upgraded = job.upgraded /\ job'.untouched = {}
                /\ released' = released
      Verified == /\ job.phase = "verify" /\ job'.phase = "next" /\ job'.at = i /\ n \notin faulty
                  /\ job'.failed = job.failed /\ job'.upgraded = job.upgraded \cup {n} /\ job'.untouched = {}
                  /\ released' = released
      Stops == /\ job.phase = "next" /\ job'.phase = "over" /\ job'.at = i
               /\ job'.failed = job.failed /\ job'.upgraded = job.upgraded /\ released' = released
               /\ job'.untouched = {p[j] : j \in {k \in 1..L : k > i}}
      Goes == /\ job.phase = "next" /\ job'.phase = "upgrade" /\ job'.at = i + 1 /\ i < L
              /\ job'.failed = job.failed /\ job'.upgraded = job.upgraded /\ job'.untouched = {}
              /\ released' = released
              /\ \/ stage(i + 1) = stage(i)
                 \/ failures(stage(i)) <= (IF i = 1 THEN 0 ELSE Tolerance)
<1>5. job'.plan = p /\ faulty' = faulty /\ (Fails \/ Passes \/ Soaked \/ Verified \/ Stops \/ Goes)
  BY <1>2, <1>3, JobMoves
<1>6. PlanInv' BY <1>1, <1>3, <1>4, <1>5 DEF PlanInv
<1>7. LinesInv'
  <2>0. /\ \A j \in 1..L : p[j] \in job.upgraded \cup job.failed <=> Behind(j)
        /\ job.upgraded \cup job.failed \subseteq {p[j] : j \in 1..L}
        /\ job.upgraded \cap job.failed = {}
    BY <1>1, <1>3 DEF RolloutInv, LinesInv, planned
  <2>1. \A j \in 1..L : Behind(j) <=> j < i \/ (j = i /\ job.phase = "next")
    BY <1>1, <1>3 DEF Behind
  <2>2. \A j \in 1..L : Behind(j)' <=> j < job'.at \/ (j = job'.at /\ job'.phase \in {"next", "over"})
    BY DEF Behind
  <2>3. planned' = {p[j] : j \in 1..L} BY <1>3, <1>5 DEF planned
  <2>4. job'.phase # "over" => job'.untouched = {} BY <1>5
  <2>5. job'.phase = "over" => job'.untouched = {p[j] : j \in {k \in 1..L : k > job'.at}} BY <1>5
  <2>6. n \in {p[j] : j \in 1..L} BY <1>3, <1>4
  <2>7. job.phase # "next" => n \notin job.upgraded \cup job.failed BY <1>3, <1>4, <2>0, <2>1
  <2>8. /\ job'.upgraded \cup job'.failed \subseteq {p[j] : j \in 1..L}
        /\ job'.upgraded \cap job'.failed = {}
    BY <1>5, <2>0, <2>6, <2>7
  <2>9. ASSUME NEW j \in 1..L PROVE p[j] \in job'.upgraded \cup job'.failed <=> Behind(j)'
    <3>1. p[j] = n <=> j = i BY <1>3, <1>4
    <3>2. CASE Fails BY <1>4, <2>0, <2>1, <2>2, <3>1, <3>2
    <3>3. CASE Verified BY <1>4, <2>0, <2>1, <2>2, <3>1, <3>3
    <3>4. CASE Passes \/ Soaked \/ Stops BY <1>4, <2>0, <2>1, <2>2, <3>4
    <3>5. CASE Goes
      <4>1. Behind(j)' <=> j < i + 1 BY <2>2, <3>5
      <4>2. Behind(j) <=> j <= i BY <1>4, <2>1, <3>5
      <4> QED BY <1>4, <2>0, <3>5, <4>1, <4>2
    <3> QED BY <1>5, <3>2, <3>3, <3>4, <3>5
  <2>10. job'.plan = p /\ Len(job'.plan) = L BY <1>3, <1>5
  <2>11. \A j \in 1..Len(job'.plan) : job'.plan[j] \in job'.upgraded \cup job'.failed <=> Behind(j)'
    BY <2>9, <2>10
  <2>12. job'.untouched = IF job'.phase = "over"
                          THEN {job'.plan[j] : j \in {k \in 1..Len(job'.plan) : k > job'.at}}
                          ELSE {}
    BY <2>4, <2>5, <2>10
  <2> HIDE DEF Fails, Passes, Soaked, Verified, Stops, Goes
  <2> QED BY <2>3, <2>8, <2>11, <2>12 DEF LinesInv
<1>8. ReleaseInv'
  <2>0. /\ \A j \in 1..L : p[j] \in released => j <= i
        /\ job.phase \in {"soak", "verify"} => n \in released
        /\ job.upgraded \subseteq released /\ job.upgraded \cap faulty = {}
    BY <1>1, <1>3 DEF RolloutInv, ReleaseInv
  <2>1. \A j \in 1..L : p[j] = n <=> j = i BY <1>3, <1>4
  <2>2. released' \in {released, released \cup {n}} BY <1>5
  <2>3. ASSUME NEW j \in 1..L, p[j] \in released' PROVE j <= job'.at
    <3>1. j <= i BY <1>4, <2>0, <2>1, <2>2, <2>3
    <3> QED BY <1>4, <1>5, <3>1
  <2>4. job'.phase \in {"soak", "verify"} => job'.at = i /\ n \in released' BY <1>5, <2>0
  <2>5. job'.upgraded \subseteq released' /\ job'.upgraded \cap faulty' = {} BY <1>5, <2>0
  <2> QED BY <1>3, <1>5, <2>3, <2>4, <2>5 DEF ReleaseInv
<1>9. StagesInv'
  <2> DEFINE F(s) == {j \in 1..L : stage(j) = s /\ p[j] \in job.failed}
             G(s) == {j \in 1..L : stage(j) = s /\ p[j] \in job'.failed}
  <2>0. \A s : failures(s) = Cardinality(F(s)) /\ failures(s)' = Cardinality(G(s))
    BY <1>3, <1>5 DEF failures
  <2>a. /\ i > 1 => p[1] \notin job.failed
        /\ \A s \in 1..(stage(i) - 1) : failures(s) <= Tolerance
    BY <1>1, <1>3 DEF RolloutInv, StagesInv
  <2>b. stage(i) \in Nat /\ stage(1) = 0 /\ stage(i + 1) \in Nat /\ stage(i + 1) <= stage(i) + 1
    <3>1. i + 1 \in Nat \ {0} BY <1>4
    <3> QED BY <1>4, <3>1, StageOrder
  <2>1. CASE job'.at = i
    <3>1. \A s \in 1..(stage(i) - 1) : F(s) = G(s)
      <4>1. \A j \in 1..L : p[j] = n <=> j = i BY <1>3, <1>4
      <4>2. job'.failed \in {job.failed, job.failed \cup {n}} BY <1>5
      <4>3. \A s \in 1..(stage(i) - 1) : s # stage(i) BY <2>b
      <4> QED BY <4>1, <4>2, <4>3
    <3>2. \A s \in 1..(stage(i) - 1) : failures(s)' <= Tolerance
      <4> HIDE DEF F, G
      <4> QED BY <2>0, <2>a, <3>1
    <3>3. i > 1 => p[1] \notin job'.failed
      <4>1. i > 1 => p[1] # n BY <1>3, <1>4
      <4> QED BY <1>5, <2>a, <4>1
    <3> QED BY <1>3, <1>5, <2>1, <3>2, <3>3 DEF StagesInv
  <2>2. CASE Goes
    <3>1. \A s : failures(s)' = failures(s)
      <4>1. \A s : F(s) = G(s) BY <2>2
      <4> HIDE DEF F, G
      <4> QED BY <2>0, <4>1
    <3>2. p[1] \notin job.failed
      <4>1. CASE i > 1 BY <2>a, <4>1
      <4>2. CASE i = 1
        <5>1. stage(2) = 1 BY StageOrder
        <5>2. failures(stage(1)) <= 0 BY <2>2, <2>b, <4>2, <5>1
        <5>3. failures(stage(1)) \in Nat BY FailuresCount
        <5>4. ~(failures(stage(1)) > 0) BY <5>2, <5>3
        <5> QED BY <1>3, <1>4, <4>2, <5>4, FailuresCount
      <4> QED BY <1>4, <4>1, <4>2
    <3>3. ASSUME NEW s \in 1..(stage(i + 1) - 1) PROVE failures(s) <= Tolerance
      <4>1. CASE s <= stage(i) - 1 BY <2>a, <2>b, <4>1
      <4>2. CASE s > stage(i) - 1
        <5>1. s = stage(i) /\ stage(i + 1) # stage(i) /\ s # 0 BY <2>b, <4>2
        <5>2. i # 1 BY <2>b, <5>1
        <5> QED BY <2>2, <5>1, <5>2
      <4> QED BY <2>b, <4>1, <4>2
    <3> QED BY <1>3, <1>5, <2>2, <3>1, <3>2, <3>3 DEF StagesInv
  <2> QED BY <1>5, <2>1, <2>2
<1> QED BY <1>6, <1>7, <1>8, <1>9 DEF RolloutInv

LEMMA RolloutStep == TypeOK /\ TypeOK' /\ RolloutInv /\ [Next]_vars => RolloutInv'
<1> SUFFICES ASSUME TypeOK, TypeOK', RolloutInv, [Next]_vars PROVE RolloutInv'
  OBVIOUS
<1>1. CASE UNCHANGED <<job, released, faulty>>
  BY <1>1 DEF RolloutInv, PlanInv, LinesInv, ReleaseInv, StagesInv, Behind, planned, failures
<1>2. ASSUME NEW n \in Nodes,
             JoinBegins(n) \/ JoinEnds(n) \/ RemoveNode(n) \/ Pin(n) \/ Unpin(n) \/ ByHand(n)
      PROVE  RolloutInv'
  BY <1>1, <1>2 DEF JoinBegins, JoinEnds, RemoveNode, Pin, Unpin, ByHand, fleetJob
<1>3. ASSUME NEW r \in Requests, NEW n \in Tunnels,
             \/ CreatePair(r, n) \/ EditTunnel(r, n) \/ DeleteTunnel(r, n)
             \/ \E o \in Ops : StartStop(r, n, o)
      PROVE  RolloutInv'
  BY <1>1, <1>3, RequestFrame DEF fleetJob
<1>4. ASSUME NEW r \in Requests, AttemptFails(r) \/ Refused(r) \/ AttemptRuns(r) \/ Recorded(r)
      PROVE  RolloutInv'
  BY <1>1, <1>4 DEF AttemptFails, Refused, AttemptRuns, Recorded, fleetJob
<1>5. CASE Cancel BY <1>1, <1>5 DEF Cancel
<1>6. CASE PanelRestarts
  <2>1. CASE ~running BY <1>1, <1>6, <2>1 DEF PanelRestarts
  <2>2. CASE running BY <1>6, <2>2 DEF PanelRestarts, NoJob, RolloutInv, PlanInv, LinesInv, ReleaseInv, StagesInv
  <2> QED BY <2>1, <2>2
<1>7. CASE UNCHANGED vars BY <1>1, <1>7 DEF vars, fleetJob
<1> QED BY <1>2, <1>3, <1>4, <1>5, <1>6, <1>7, RolloutStarts, RolloutMoves DEF Next

LEMMA RolloutAlways == Spec => [](TypeOK /\ RolloutInv)
<1>1. Init => TypeOK /\ RolloutInv BY TypeInit, RolloutInit
<1>2. (TypeOK /\ RolloutInv) /\ [Next]_vars => (TypeOK /\ RolloutInv)' BY TypeStep, RolloutStep
<1> QED BY <1>1, <1>2, PTL DEF Spec

(* A release that does not come back costs the stage it was noticed in, for  *)
(* any plan, size of a wave and tolerance.                                   *)
THEOREM FaultStopsRollout == Spec => []StopsAtTheFault
<1>1. TypeOK /\ RolloutInv => StopsAtTheFault
  <2> SUFFICES ASSUME TypeOK, RolloutInv, NEW j \in 2..Len(job.plan), job.plan[j] \in released
               PROVE  /\ job.plan[1] \notin faulty \cup job.failed
                      /\ \A s \in 1..(stage(j) - 1) : failures(s) <= Tolerance
    BY DEF StopsAtTheFault
  <2>1. Len(job.plan) \in Nat /\ job.at \in Nat BY JobFields, TypeParts
  <2>2. job.phase # "none"
    <3>1. job.phase = "none" => Len(job.plan) = 0 BY DEF RolloutInv, PlanInv
    <3> QED BY <2>1, <3>1
  <2>3. j <= job.at /\ 1 \in 1..Len(job.plan) /\ job.at \in Nat \ {0} /\ j \in Nat \ {0} /\ 1 < job.at
    BY <2>1, <2>2 DEF RolloutInv, ReleaseInv
  <2>4. job.plan[1] \in job.upgraded /\ job.plan[1] \notin job.failed
    BY <2>2, <2>3 DEF RolloutInv, StagesInv, LinesInv, Behind
  <2>5. job.plan[1] \notin faulty BY <2>2, <2>4 DEF RolloutInv, ReleaseInv
  <2>6. stage(j) <= stage(job.at) /\ stage(j) \in Nat /\ stage(job.at) \in Nat BY <2>3, StageOrder
  <2>7. \A s \in 1..(stage(job.at) - 1) : failures(s) <= Tolerance BY <2>2 DEF RolloutInv, StagesInv
  <2> QED BY <2>4, <2>5, <2>6, <2>7
<1> QED BY <1>1, RolloutAlways, PTL

(* The report of a rollout that is over accounts for every server once.      *)
THEOREM ReportAddsUp == Spec => []ReportIsTrue
<1>1. TypeOK /\ RolloutInv => ReportIsTrue
  <2> SUFFICES ASSUME TypeOK, RolloutInv, job.phase = "over"
               PROVE  /\ job.upgraded \cup job.failed \cup job.untouched = planned
                      /\ job.upgraded \cap job.failed = {} /\ job.untouched \cap released = {}
                      /\ job.upgraded \subseteq released
    BY DEF ReportIsTrue
  <2>1. Len(job.plan) \in Nat /\ job.at \in Nat BY JobFields, TypeParts
  <2>2. /\ \A i \in 1..Len(job.plan) : job.plan[i] \in job.upgraded \cup job.failed <=> i <= job.at
        /\ job.upgraded \cup job.failed \subseteq planned /\ job.upgraded \cap job.failed = {}
        /\ job.untouched = {job.plan[i] : i \in {k \in 1..Len(job.plan) : k > job.at}}
    BY <2>1 DEF RolloutInv, LinesInv, Behind
  <2>3. /\ \A i \in 1..Len(job.plan) : job.plan[i] \in released => i <= job.at
        /\ job.upgraded \subseteq released
    BY DEF RolloutInv, ReleaseInv
  <2>4. job.untouched \cap released = {} BY <2>1, <2>2, <2>3
  <2>5. job.upgraded \cup job.failed \cup job.untouched = planned BY <2>1, <2>2 DEF planned
  <2> QED BY <2>2, <2>3, <2>4, <2>5
<1> QED BY <1>1, RolloutAlways, PTL
=============================================================================
