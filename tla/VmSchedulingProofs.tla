------------------------- MODULE VmSchedulingProofs -------------------------
EXTENDS VmScheduling, TLAPS

(***************************************************************************)
(* The proof that scheduling is exclusive, for any set of VMs and nodes,   *)
(* any anti-affinity groups and any budget of the environment.             *)
(*                                                                         *)
(* Anti-affinity of the stored objects alone is not inductive: between     *)
(* schedule() and the status write, the chosen node is in the pass only.   *)
(* The invariant IInv adds what excludes two such choices: MutexInv, the   *)
(* mutex belongs to the one pass in the locked stages; ChoiceInv, a chosen *)
(* node has no peer on it; and CopyInv, by which an accepted write is a    *)
(* write on top of what is stored.  One lemma per conjunct shows that each *)
(* step preserves it, with one proof step per action; AffinityStep, the    *)
(* last, uses all of them.                                                 *)
(***************************************************************************)

\* A pass that is not running, and a node with no eviction under way, are typed.
LEMMA IdleType == Idle \in Pass /\ NoEviction \in Eviction
BY DEF Idle, Pass, Stage, NoEviction, Eviction

\* Ending a pass keeps the types of what it resets and of the mutex it releases.
LEMMA EndPassType ==
  ASSUME TypeOK, NEW v \in Vm, EndPass(v)
  PROVE  pass' \in [Vm -> Pass] /\ mutex' \in Vm \cup {None}
BY IdleType DEF TypeOK, EndPass

\* Marking a node's listed copy of a VM as outdated keeps the eviction's type.
LEMMA OutdatedType ==
  ASSUME TypeOK, NEW v \in Vm
  PROVE  Outdated(v) \in [Node -> Eviction]
BY DEF TypeOK, Outdated, Eviction

\* A write of an object and a stage, accepted or refused as a conflict, keeps
\* every type.
LEMMA WriteType ==
  ASSUME TypeOK, NEW v \in Vm, NEW STATE new, NEW STATE next,
         new \in Object, next \in Stage,
         Write(v, new, next)
  PROVE  /\ vmObj' \in [Vm -> Object]
         /\ pass' \in [Vm -> Pass]
         /\ mutex' \in Vm \cup {None}
         /\ eviction' \in [Node -> Eviction]
<1>1. CASE pass[v].fresh
  <2>1. [pass[v] EXCEPT !.at = next, !.fresh = (new = vmObj[v])] \in Pass
    BY DEF TypeOK, Pass
  <2>2. QED
    BY <1>1, <2>1, IdleType, OutdatedType DEF TypeOK, Write, EndPass
<1>2. CASE ~pass[v].fresh
  BY <1>2, EndPassType DEF TypeOK, Write
<1>3. QED
  BY <1>1, <1>2

\* A write by somebody else only makes copies stale: the types stay.
LEMMA DisturbType ==
  ASSUME TypeOK, NEW v \in Vm, Disturb(v)
  PROVE  pass' \in [Vm -> Pass] /\ eviction' \in [Node -> Eviction]
BY OutdatedType DEF TypeOK, Disturb, Pass

\* Choosing a node changes the choosing pass only, to a candidate that is a node.
LEMMA PickEffect ==
  ASSUME TypeOK, NEW v \in Vm, NEW b \in BOOLEAN, Pick(v, b)
  PROVE  /\ \A w \in Vm \ {v} : pass'[w] = pass[w]
         /\ pass'[v] \in Pass
         /\ pass'[v].at = "place"
         /\ pass'[v].copy = pass[v].copy
         /\ pass'[v].fresh = pass[v].fresh
         /\ pass'[v].choice \in Candidates(v, pass[v].copy, b) \cap Node
         /\ pass'[v].bypassed = b
         /\ pass' \in [Vm -> Pass]
         /\ mutex' = mutex
<1>1. PICK n \in Candidates(v, pass[v].copy, b) :
        /\ pass' = [pass EXCEPT ![v] =
                      [@ EXCEPT !.at = "place", !.choice = n, !.bypassed = b]]
        /\ UNCHANGED mutex
  BY DEF Pick
<1>2. n \in Node
  BY PinnedAssumption DEF Candidates
<1>3. [pass[v] EXCEPT !.at = "place", !.choice = n, !.bypassed = b] \in Pass
  BY <1>2 DEF TypeOK, Pass, Stage
<1>4. pass'[v] = [pass[v] EXCEPT !.at = "place", !.choice = n, !.bypassed = b]
  BY <1>1 DEF TypeOK
<1>5. QED
  BY <1>1, <1>2, <1>3, <1>4 DEF TypeOK, Pass

\* Every pass action but the two that take and use the mutex is typed by one
\* of the lemmas above; the values it writes are objects.
LEMMA PassStepType ==
  ASSUME TypeOK, CopyInv, NEW v \in Vm, PassStep(v) \/ AcquireMutex(v)
  PROVE  TypeOK'
<1> USE DEF TypeOK
<1>1. pass[v].at # "idle" => pass[v].copy \in Object
  BY DEF CopyInv, Pass
<1>2. pass[v].at \notin {"idle", "status"} => pass[v].copy.status \in Status
  BY <1>1 DEF CopyInv, Object
<1>3. vmObj[v] \in Object
  OBVIOUS
<1>4. ASSUME Begin(v) PROVE TypeOK'
  <2>1. [Idle EXCEPT !.at = FirstCall(vmObj[v]), !.copy = vmObj[v], !.fresh = TRUE] \in Pass
    BY <1>3, IdleType DEF Pass, Stage, FirstCall
  <2>2. QED
    BY <1>4, <2>1 DEF Begin
<1>5. ASSUME InitializeStatus(v) PROVE TypeOK'
  <2>1. [vmObj[v] EXCEPT !.status = BlankStatus] \in Object
    BY <1>3 DEF Object, BlankStatus, Status
  <2>2. QED
    BY <1>5, <2>1, WriteType DEF InitializeStatus, WriteStatus, Stage
<1>6. ASSUME FillNics(v) PROVE TypeOK'
  <2>1. [pass[v].copy.status EXCEPT !.nics = TRUE] \in Status
    BY <1>2, <1>6 DEF FillNics, At, Status
  <2>2. [vmObj[v] EXCEPT !.status = [pass[v].copy.status EXCEPT !.nics = TRUE]] \in Object
    BY <1>3, <2>1 DEF Object
  <2>3. QED
    BY <1>6, <2>2, WriteType DEF FillNics, WriteStatus, Stage
<1>7. ASSUME CommitNics(v) PROVE TypeOK'
  <2>1. [pass[v].copy EXCEPT !.status = vmObj[v].status] \in Object
    BY <1>1, <1>3, <1>7 DEF CommitNics, At, Object
  <2>2. QED
    BY <1>7, <2>1, WriteType DEF CommitNics, Commit, Stage
<1>8. ASSUME FillUuid(v) PROVE TypeOK'
  <2>1. [[pass[v].copy EXCEPT !.uuid = TRUE] EXCEPT !.status = vmObj[v].status] \in Object
    BY <1>1, <1>3, <1>8 DEF FillUuid, At, Object
  <2>2. QED
    BY <1>8, <2>1, WriteType DEF FillUuid, Commit, Stage
<1>9. ASSUME CheckPlacement(v) PROVE TypeOK'
  <2>1. \A s \in Stage : [pass[v] EXCEPT !.at = s] \in Pass
    BY DEF Pass
  <2>2. QED
    BY <1>9, <2>1, IdleType DEF CheckPlacement, LastCall, Stage
<1>10. ASSUME AcquireMutex(v) PROVE TypeOK'
  BY <1>10 DEF AcquireMutex, Continue, Pass, Stage
<1>12. ASSUME Schedule(v) PROVE TypeOK'
  <2>1. CASE Pick(v, FALSE)
    BY <1>12, <2>1, PickEffect DEF Schedule
  <2>2. CASE ScheduleFailed(v)
    BY <1>12, <2>2, EndPassType DEF Schedule, ScheduleFailed, Continue, Pass, Stage
  <2>3. QED
    BY <1>12, <2>1, <2>2 DEF Schedule
<1>13. ASSUME ScheduleIgnoringAffinity(v) PROVE TypeOK'
  <2>1. CASE Pick(v, TRUE)
    BY <1>13, <2>1, PickEffect DEF ScheduleIgnoringAffinity
  <2>2. CASE EndPass(v)
    BY <1>13, <2>2, EndPassType DEF ScheduleIgnoringAffinity
  <2>3. QED
    BY <1>13, <2>1, <2>2 DEF ScheduleIgnoringAffinity
<1>14. ASSUME Place(v) PROVE TypeOK'
  <2>1. PlacedStatus(pass[v]) \in Status
    BY <1>2, <1>14 DEF Place, At, PlacedStatus, Status, Pass
  <2>2. [vmObj[v] EXCEPT !.status = PlacedStatus(pass[v])] \in Object
    BY <1>3, <2>1 DEF Object
  <2>3. LastCall(pass[v].copy) \in Stage
    BY DEF LastCall, Stage
  <2>4. overridden' \subseteq Vm
    BY <1>14 DEF Place
  <2>5. QED
    BY <1>14, <2>2, <2>3, <2>4, WriteType DEF Place, WriteStatus
<1>15. ASSUME ClearRequest(v) PROVE TypeOK'
  <2>1. [[pass[v].copy EXCEPT !.request = None] EXCEPT !.status = vmObj[v].status] \in Object
    BY <1>1, <1>3, <1>15 DEF ClearRequest, At, Object
  <2>2. QED
    BY <1>15, <2>1, WriteType DEF ClearRequest, Commit, Stage
<1>16. QED
  BY <1>4, <1>5, <1>6, <1>7, <1>8, <1>9, <1>10, <1>12, <1>13, <1>14, <1>15 DEF PassStep

\* The node controller's reconciliation, listing and eviction keep the types.
LEMMA NodeStepType ==
  ASSUME TypeOK, NEW n \in Node, NodeStep(n)
  PROVE  TypeOK'
<1> USE DEF TypeOK
<1>1. ASSUME ReconcileNode(n) PROVE TypeOK'
  BY <1>1 DEF ReconcileNode, Eviction
<1>2. ASSUME ListVms(n) PROVE TypeOK'
  <2>1. \A todo \in SUBSET Vm : [at |-> "request", todo |-> todo, fresh |-> todo] \in Eviction
    BY DEF Eviction
  <2>2. QED
    BY <1>2, <2>1, IdleType DEF ListVms
<1>3. ASSUME RequestMigration(n) PROVE TypeOK'
  <2>1. PICK v \in eviction[n].todo : Ask(n, v)
    BY <1>3 DEF RequestMigration
  <2>2. v \in Vm /\ eviction[n] \in Eviction
    BY DEF Eviction
  <2>3. [vmObj[v] EXCEPT !.request = n] \in Object
    BY <2>2 DEF Object
  <2>4. Remaining(eviction[n], v) \in Eviction
    BY <2>2, IdleType DEF Remaining, Eviction
  <2>5. CASE v \in eviction[n].fresh
    <3>1. vmObj' \in [Vm -> Object]
      BY <2>1, <2>3, <2>5 DEF Ask
    <3>2. pass' \in [Vm -> Pass]
      <4>1. \A b \in BOOLEAN : [pass[v] EXCEPT !.fresh = b] \in Pass
        BY <2>2 DEF Pass
      <4>2. PICK b \in BOOLEAN : pass' = [pass EXCEPT ![v] = [pass[v] EXCEPT !.fresh = b]]
        BY <2>1, <2>5 DEF Ask
      <4>3. QED
        BY <4>1, <4>2
    <3>3. eviction' \in [Node -> Eviction]
      BY <2>1, <2>2, <2>4, <2>5, OutdatedType DEF Ask
    <3>4. QED
      BY <1>3, <3>1, <3>2, <3>3 DEF RequestMigration
  <2>6. CASE v \notin eviction[n].fresh
    BY <1>3, <2>1, <2>6, IdleType DEF RequestMigration, Ask
  <2>7. QED
    BY <2>5, <2>6
<1>4. QED
  BY <1>1, <1>2, <1>3 DEF NodeStep

\* Users, operators, faults and host agents keep the types.
LEMMA EnvironmentType ==
  ASSUME TypeOK, Environment
  PROVE  TypeOK'
<1> USE DEF TypeOK
<1>1. ASSUME NEW e \in EnvEvent, Spend(e) PROVE budget' \in [EnvEvent -> Nat]
  BY <1>1 DEF Spend
<1>2. "toggle" \in EnvEvent /\ "fault" \in EnvEvent /\ "foreign" \in EnvEvent
  BY DEF EnvEvent
<1>3. ASSUME NEW n \in Node, ToggleMaintenance(n) PROVE TypeOK'
  BY <1>1, <1>2, <1>3 DEF ToggleMaintenance
<1>4. ASSUME NEW n \in Node, EvictionFault(n) PROVE TypeOK'
  BY <1>1, <1>2, <1>4, IdleType DEF EvictionFault
<1>5. ASSUME NEW v \in Vm, CompleteMigration(v) PROVE TypeOK'
  <2>1. vmObj[v] \in Object /\ vmObj[v].status \in Status
    BY <1>5 DEF CompleteMigration, Object
  <2>2. [vmObj EXCEPT ![v].status.pending = FALSE] \in [Vm -> Object]
    BY <2>1 DEF Object, Status
  <2>3. QED
    BY <1>5, <2>2, DisturbType DEF CompleteMigration
<1>6. ASSUME NEW v \in Vm, ForeignWrite(v) PROVE TypeOK'
  BY <1>1, <1>2, <1>6, DisturbType DEF ForeignWrite
<1>7. ASSUME NEW v \in Vm, Fault(v) PROVE TypeOK'
  <2>1. CASE EndPass(v)
    BY <1>1, <1>2, <1>7, <2>1, EndPassType DEF Fault
  <2>2. CASE Continue(v, "bypass") /\ UNCHANGED mutex
    BY <1>1, <1>2, <1>7, <2>2 DEF Fault, Continue, Pass, Stage
  <2>3. QED
    BY <1>7, <2>1, <2>2 DEF Fault, ScheduleFailed
<1>8. ASSUME Restart PROVE TypeOK'
  BY <1>1, <1>2, <1>8, IdleType DEF Restart
<1>9. QED
  BY <1>3, <1>4, <1>5, <1>6, <1>7, <1>8 DEF Environment

\* The cluster starts, with no pass running, in the invariant.
LEMMA InitInv == Init => IInv
<1> SUFFICES ASSUME Init PROVE IInv
  OBVIOUS
<1>1. BlankStatus \in Status /\ [BlankStatus EXCEPT !.nics = TRUE] \in Status
  BY DEF BlankStatus, Status
<1>2. vmObj \in [Vm -> Object]
  BY <1>1 DEF Init, Object
<1>3. TypeOK
  BY <1>2, IdleType, BudgetAssumption DEF Init, TypeOK
<1>4. CopyInv /\ MutexInv /\ ChoiceInv
  BY NoneAssumption DEF Init, CopyInv, MutexInv, ChoiceInv, Idle, Locked
<1>5. AffinityInv
  <2>1. \A v \in Vm : NodeOf(vmObj[v]) = None
    BY <1>1 DEF Init, NodeOf, BlankStatus
  <2>2. QED
    BY <2>1 DEF AffinityInv
<1>6. QED
  BY <1>3, <1>4, <1>5 DEF IInv

\* Every step keeps the types, given that a running pass's copy is a VM object.
LEMMA TypeStep == TypeOK /\ CopyInv /\ [Next]_vars => TypeOK'
<1> SUFFICES ASSUME TypeOK, CopyInv, [Next]_vars PROVE TypeOK'
  OBVIOUS
<1>1. CASE UNCHANGED vars
  BY <1>1 DEF vars, TypeOK
<1>2. CASE Next
  BY <1>2, PassStepType, NodeStepType, EnvironmentType DEF Next
<1>3. QED
  BY <1>1, <1>2

-----------------------------------------------------------------------------
(* Copies: a fresh copy is the stored object.                              *)

\* A pass that ends has no copy left that could differ from the stored object.
LEMMA EndPassCopy ==
  ASSUME TypeOK, CopyInv, NEW v \in Vm, EndPass(v), UNCHANGED vmObj
  PROVE  CopyInv'
BY DEF TypeOK, CopyInv, EndPass, Idle

\* After its own accepted write a pass holds what it wrote; a refused write ends it.
LEMMA WriteCopy ==
  ASSUME TypeOK, CopyInv, NEW v \in Vm, NEW STATE new, NEW STATE next, Write(v, new, next),
         pass[v].at # "idle",
         next # "status",
         next = "idle" \/ pass[v].at # "status"
  PROVE  CopyInv'
<1>1. CASE pass[v].fresh
  <2>1. \A w \in Vm \ {v} : pass'[w] = pass[w] /\ vmObj'[w] = vmObj[w]
    BY <1>1 DEF TypeOK, Write, EndPass
  <2>2. vmObj'[v] = new
    BY <1>1 DEF TypeOK, Write
  <2>3. CASE next = "idle"
    <3>1. pass'[v] = Idle
      BY <1>1, <2>3 DEF TypeOK, Write
    <3>2. QED
      BY <2>1, <3>1 DEF CopyInv, Idle
  <2>4. CASE next # "idle"
    <3>1. pass'[v] = [pass[v] EXCEPT !.at = next, !.fresh = (new = vmObj[v])]
      BY <1>1, <2>4 DEF TypeOK, Write
    <3>2. /\ pass'[v].at = next
          /\ pass'[v].copy = pass[v].copy
          /\ pass'[v].fresh = (new = vmObj[v])
      BY <3>1 DEF TypeOK, Pass
    <3>3. /\ pass'[v].at \notin {"idle", "status"}
          /\ pass[v].at \notin {"idle", "status"}
      BY <2>4, <3>2
    <3>4. pass[v].copy \in Object /\ pass[v].copy.status # None
      BY <3>3 DEF CopyInv
    <3>5. pass'[v].fresh => pass'[v].copy = vmObj'[v]
      BY <1>1, <2>2, <3>2 DEF CopyInv
    <3>6. QED
      BY <2>1, <3>2, <3>3, <3>4, <3>5 DEF CopyInv
  <2>5. QED
    BY <2>3, <2>4
<1>2. CASE ~pass[v].fresh
  BY <1>2, EndPassCopy DEF Write
<1>3. QED
  BY <1>1, <1>2

\* A foreign write to a VM takes the freshness from the copy of its pass only.
LEMMA DisturbCopy ==
  ASSUME TypeOK, CopyInv, NEW v \in Vm, Disturb(v),
         \A w \in Vm \ {v} : vmObj'[w] = vmObj[w]
  PROVE  CopyInv'
BY DEF TypeOK, CopyInv, Disturb, Pass

\* Every step keeps a fresh copy equal to the stored object (optimistic
\* concurrency on resourceVersion).
LEMMA CopyStep == TypeOK /\ CopyInv /\ [Next]_vars => CopyInv'
<1> SUFFICES ASSUME TypeOK, CopyInv, [Next]_vars PROVE CopyInv'
  OBVIOUS
<1>1. CASE UNCHANGED vars
  BY <1>1 DEF vars, CopyInv
<1>2. ASSUME NEW v \in Vm, PassStep(v) \/ AcquireMutex(v) PROVE CopyInv'
  <2>1. CASE Begin(v)
    <3>1. pass' = [pass EXCEPT ![v] = [Idle EXCEPT !.at = FirstCall(vmObj[v]),
                                         !.copy = vmObj[v], !.fresh = TRUE]]
          /\ vmObj' = vmObj
      BY <2>1 DEF Begin
    <3>2. pass'[v].at = FirstCall(vmObj[v]) /\ pass'[v].copy = vmObj[v]
      BY <3>1 DEF TypeOK, Idle
    <3>3. vmObj[v] \in Object
      BY DEF TypeOK
    <3>4. \A w \in Vm \ {v} : pass'[w] = pass[w]
      BY <3>1 DEF TypeOK
    <3>5. QED
      BY <3>1, <3>2, <3>3, <3>4 DEF CopyInv, FirstCall
  <2>2. CASE InitializeStatus(v)
    BY <2>2, WriteCopy DEF InitializeStatus, At, WriteStatus
  <2>3. CASE FillNics(v)
    BY <2>3, WriteCopy DEF FillNics, At, WriteStatus
  <2>4. CASE CommitNics(v)
    BY <2>4, WriteCopy DEF CommitNics, At, Commit
  <2>5. CASE FillUuid(v)
    BY <2>5, WriteCopy DEF FillUuid, At, Commit
  <2>6. CASE CheckPlacement(v)
    BY <2>6 DEF CheckPlacement, At, LastCall, TypeOK, CopyInv, Pass, Idle
  <2>7. CASE AcquireMutex(v)
    BY <2>7 DEF AcquireMutex, At, Continue, TypeOK, CopyInv, Pass
  <2>8. CASE Schedule(v)
    <3>1. CASE Pick(v, FALSE)
      <4>1. /\ \A w \in Vm \ {v} : pass'[w] = pass[w]
            /\ pass'[v].at = "place"
            /\ pass'[v].copy = pass[v].copy
            /\ pass'[v].fresh = pass[v].fresh
        BY <3>1, PickEffect
      <4>2. vmObj' = vmObj /\ pass[v].at \notin {"idle", "status"}
        BY <2>8 DEF Schedule, At
      <4>3. QED
        BY <4>1, <4>2 DEF CopyInv
    <3>2. CASE EndPass(v)
      BY <2>8, <3>2, EndPassCopy DEF Schedule
    <3>3. CASE Continue(v, "bypass")
      BY <2>8, <3>3 DEF Schedule, Continue, At, TypeOK, CopyInv, Pass
    <3>4. QED
      BY <2>8, <3>1, <3>2, <3>3 DEF Schedule, ScheduleFailed
  <2>9. CASE ScheduleIgnoringAffinity(v)
    <3>1. CASE Pick(v, TRUE)
      <4>1. /\ \A w \in Vm \ {v} : pass'[w] = pass[w]
            /\ pass'[v].at = "place"
            /\ pass'[v].copy = pass[v].copy
            /\ pass'[v].fresh = pass[v].fresh
        BY <3>1, PickEffect
      <4>2. vmObj' = vmObj /\ pass[v].at \notin {"idle", "status"}
        BY <2>9 DEF ScheduleIgnoringAffinity, At
      <4>3. QED
        BY <4>1, <4>2 DEF CopyInv
    <3>2. CASE EndPass(v)
      BY <2>9, <3>2, EndPassCopy DEF ScheduleIgnoringAffinity
    <3>3. QED
      BY <2>9, <3>1, <3>2 DEF ScheduleIgnoringAffinity
  <2>10. CASE Place(v)
    BY <2>10, WriteCopy DEF Place, At, WriteStatus, LastCall
  <2>11. CASE ClearRequest(v)
    BY <2>11, WriteCopy DEF ClearRequest, At, Commit
  <2>12. QED
    BY <1>2, <2>1, <2>2, <2>3, <2>4, <2>5, <2>6, <2>7, <2>8, <2>9, <2>10, <2>11
       DEF PassStep
<1>3. ASSUME NEW n \in Node, NodeStep(n) PROVE CopyInv'
  <2>1. CASE UNCHANGED <<vmObj, pass>>
    BY <2>1 DEF CopyInv
  <2>2. ASSUME RequestMigration(n) PROVE CopyInv'
    <3>1. PICK v \in eviction[n].todo : Ask(n, v)
      BY <2>2 DEF RequestMigration
    <3>2. v \in Vm
      BY DEF TypeOK, Eviction
    <3>3. CASE v \in eviction[n].fresh
      <4>1. \A w \in Vm \ {v} : pass'[w] = pass[w] /\ vmObj'[w] = vmObj[w]
        BY <3>1, <3>3 DEF Ask, TypeOK
      <4>2. /\ pass'[v].at = pass[v].at /\ pass'[v].copy = pass[v].copy
            /\ pass'[v].fresh => pass[v].fresh /\ vmObj'[v] = vmObj[v]
        <5>1. PICK b \in BOOLEAN : /\ pass' = [pass EXCEPT ![v].fresh = @ /\ b]
                                   /\ b => vmObj'[v] = vmObj[v]
          BY <3>1, <3>2, <3>3 DEF Ask, TypeOK
        <5>2. pass'[v] = [pass[v] EXCEPT !.fresh = @ /\ b]
          BY <3>2, <5>1 DEF TypeOK
        <5>3. QED
          BY <3>2, <5>1, <5>2 DEF TypeOK, Pass
      <4>3. QED
        BY <4>1, <4>2 DEF CopyInv
    <3>4. CASE v \notin eviction[n].fresh
      BY <2>1, <3>1, <3>4 DEF Ask
    <3>5. QED
      BY <3>3, <3>4
  <2>3. QED
    BY <1>3, <2>1, <2>2 DEF NodeStep, ReconcileNode, ListVms
<1>4. ASSUME Environment PROVE CopyInv'
  <2>1. CASE UNCHANGED <<vmObj, pass>>
    BY <2>1 DEF CopyInv
  <2>2. ASSUME NEW v \in Vm, CompleteMigration(v) PROVE CopyInv'
    BY <2>2, DisturbCopy DEF CompleteMigration, TypeOK
  <2>3. ASSUME NEW v \in Vm, ForeignWrite(v) PROVE CopyInv'
    BY <2>3, DisturbCopy DEF ForeignWrite
  <2>4. ASSUME NEW v \in Vm, Fault(v) PROVE CopyInv'
    <3>1. CASE EndPass(v)
      BY <2>4, <3>1, EndPassCopy DEF Fault
    <3>2. CASE At(v, "schedule") /\ Continue(v, "bypass")
      BY <2>4, <3>2 DEF Fault, Continue, At, TypeOK, CopyInv, Pass
    <3>3. QED
      BY <2>4, <3>1, <3>2 DEF Fault, ScheduleFailed
  <2>5. ASSUME Restart PROVE CopyInv'
    BY <2>5 DEF Restart, CopyInv, Idle
  <2>6. QED
    BY <1>4, <2>1, <2>2, <2>3, <2>4, <2>5
       DEF Environment, ToggleMaintenance, EvictionFault
<1>5. QED
  BY <1>1, <1>2, <1>3, <1>4 DEF Next

-----------------------------------------------------------------------------
(* The mutex: held by the pass that is between schedule and its write.     *)

\* A pass that ends gives the scheduling mutex back if it holds it.
LEMMA EndPassMutex ==
  ASSUME TypeOK, MutexInv, NEW v \in Vm, EndPass(v)
  PROVE  MutexInv'
BY NoneAssumption DEF TypeOK, MutexInv, EndPass, Idle, Locked

\* A write that leaves the locked stages releases the mutex with them.
LEMMA WriteMutex ==
  ASSUME TypeOK, MutexInv, NEW v \in Vm, NEW STATE new, NEW STATE next, Write(v, new, next),
         next \notin Locked
  PROVE  MutexInv'
<1>1. CASE pass[v].fresh
  <2>1. \A w \in Vm \ {v} : pass'[w] = pass[w]
    BY <1>1 DEF TypeOK, Write, EndPass
  <2>2. pass'[v].at \notin Locked
    <3>1. CASE next = "idle"
      BY <1>1, <3>1 DEF TypeOK, Write, Idle, Locked
    <3>2. CASE next # "idle"
      <4>1. pass'[v] = [pass[v] EXCEPT !.at = next, !.fresh = (new = vmObj[v])]
        BY <1>1, <3>2 DEF TypeOK, Write
      <4>2. QED
        BY <4>1 DEF TypeOK, Pass
    <3>3. QED
      BY <3>1, <3>2
  <2>3. mutex' = IF mutex = v THEN None ELSE mutex
    BY <1>1 DEF Write
  <2>4. QED
    BY <2>1, <2>2, <2>3, NoneAssumption DEF MutexInv
<1>2. CASE ~pass[v].fresh
  BY <1>2, EndPassMutex DEF Write
<1>3. QED
  BY <1>1, <1>2

\* A step that takes no mutex and moves no pass into or out of its scope.
LEMMA SameMutex ==
  ASSUME MutexInv, mutex' = mutex,
         \A w \in Vm : pass'[w].at \in Locked <=> pass[w].at \in Locked
  PROVE  MutexInv'
BY DEF MutexInv

\* Every step keeps the mutex with exactly the pass between lock and status write.
LEMMA MutexStep == TypeOK /\ MutexInv /\ [Next]_vars => MutexInv'
<1> SUFFICES ASSUME TypeOK, MutexInv, [Next]_vars PROVE MutexInv'
  OBVIOUS
<1>1. CASE UNCHANGED vars
  BY <1>1 DEF vars, MutexInv
<1>2. ASSUME NEW v \in Vm, PassStep(v) \/ AcquireMutex(v) PROVE MutexInv'
  <2>1. CASE Begin(v)
    <3>1. pass' = [pass EXCEPT ![v] = [Idle EXCEPT !.at = FirstCall(vmObj[v]),
                                         !.copy = vmObj[v], !.fresh = TRUE]]
          /\ mutex' = mutex /\ pass[v].at = "idle"
      BY <2>1 DEF Begin, At
    <3>2. pass'[v].at = FirstCall(vmObj[v])
      BY <3>1 DEF TypeOK, Idle
    <3>3. \A w \in Vm \ {v} : pass'[w] = pass[w]
      BY <3>1 DEF TypeOK
    <3>4. QED
      BY <3>1, <3>2, <3>3, SameMutex DEF FirstCall, Locked
  <2>2. CASE InitializeStatus(v)
    BY <2>2, WriteMutex DEF InitializeStatus, WriteStatus, Locked
  <2>3. CASE FillNics(v)
    BY <2>3, WriteMutex DEF FillNics, WriteStatus, Locked
  <2>4. CASE CommitNics(v)
    BY <2>4, WriteMutex DEF CommitNics, Commit, Locked
  <2>5. CASE FillUuid(v)
    BY <2>5, WriteMutex DEF FillUuid, Commit, Locked
  <2>6. CASE CheckPlacement(v)
    BY <2>6 DEF CheckPlacement, At, LastCall, TypeOK, MutexInv, Pass, Idle, Locked
  <2>7. CASE AcquireMutex(v)
    BY <2>7, NoneAssumption
       DEF AcquireMutex, At, Continue, TypeOK, MutexInv, Pass, Locked
  <2>8. CASE Schedule(v)
    <3>1. CASE Pick(v, FALSE)
      <4>1. /\ \A w \in Vm \ {v} : pass'[w] = pass[w]
            /\ pass'[v].at = "place"
            /\ mutex' = mutex
        BY <3>1, PickEffect
      <4>2. pass[v].at = "schedule"
        BY <2>8 DEF Schedule, At
      <4>3. QED
        BY <4>1, <4>2, SameMutex DEF Locked
    <3>2. CASE EndPass(v)
      BY <3>2, EndPassMutex
    <3>3. CASE Continue(v, "bypass") /\ UNCHANGED mutex
      BY <2>8, <3>3 DEF Schedule, Continue, At, TypeOK, MutexInv, Pass, Locked
    <3>4. QED
      BY <2>8, <3>1, <3>2, <3>3 DEF Schedule, ScheduleFailed
  <2>9. CASE ScheduleIgnoringAffinity(v)
    <3>1. CASE Pick(v, TRUE)
      <4>1. /\ \A w \in Vm \ {v} : pass'[w] = pass[w]
            /\ pass'[v].at = "place"
            /\ mutex' = mutex
        BY <3>1, PickEffect
      <4>2. pass[v].at = "bypass"
        BY <2>9 DEF ScheduleIgnoringAffinity, At
      <4>3. QED
        BY <4>1, <4>2, SameMutex DEF Locked
    <3>2. CASE EndPass(v)
      BY <3>2, EndPassMutex
    <3>3. QED
      BY <2>9, <3>1, <3>2 DEF ScheduleIgnoringAffinity
  <2>10. CASE Place(v)
    BY <2>10, WriteMutex DEF Place, WriteStatus, LastCall, Locked
  <2>11. CASE ClearRequest(v)
    BY <2>11, WriteMutex DEF ClearRequest, Commit, Locked
  <2>12. QED
    BY <1>2, <2>1, <2>2, <2>3, <2>4, <2>5, <2>6, <2>7, <2>8, <2>9, <2>10, <2>11
       DEF PassStep
<1>3. ASSUME NEW n \in Node, NodeStep(n) PROVE MutexInv'
  <2>1. CASE UNCHANGED <<pass, mutex>>
    BY <2>1 DEF MutexInv
  <2>2. ASSUME RequestMigration(n) PROVE MutexInv'
    <3>1. PICK v \in eviction[n].todo : Ask(n, v)
      BY <2>2 DEF RequestMigration
    <3>2. v \in Vm
      BY DEF TypeOK, Eviction
    <3>3. \A w \in Vm : pass'[w].at = pass[w].at
      BY <3>1, <3>2 DEF Ask, TypeOK, Pass
    <3>4. QED
      BY <2>2, <3>3, SameMutex DEF RequestMigration
  <2>3. QED
    BY <1>3, <2>1, <2>2 DEF NodeStep, ReconcileNode, ListVms
<1>4. ASSUME Environment PROVE MutexInv'
  <2>1. CASE UNCHANGED <<pass, mutex>>
    BY <2>1 DEF MutexInv
  <2>2. ASSUME NEW v \in Vm, Disturb(v), UNCHANGED mutex PROVE MutexInv'
    <3>1. \A w \in Vm : pass'[w].at = pass[w].at
      BY <2>2 DEF Disturb, TypeOK, Pass
    <3>2. QED
      BY <2>2, <3>1, SameMutex
  <2>3. ASSUME NEW v \in Vm, Fault(v) PROVE MutexInv'
    <3>1. CASE EndPass(v)
      BY <3>1, EndPassMutex
    <3>2. CASE At(v, "schedule") /\ Continue(v, "bypass") /\ UNCHANGED mutex
      BY <3>2 DEF Continue, At, TypeOK, MutexInv, Pass, Locked
    <3>3. QED
      BY <2>3, <3>1, <3>2 DEF Fault, ScheduleFailed
  <2>4. ASSUME Restart PROVE MutexInv'
    BY <2>4, NoneAssumption DEF Restart, MutexInv, Idle, Locked
  <2>5. QED
    BY <1>4, <2>1, <2>2, <2>3, <2>4
       DEF Environment, ToggleMaintenance, EvictionFault, CompleteMigration, ForeignWrite
<1>5. QED
  BY <1>1, <1>2, <1>3, <1>4 DEF Next

-----------------------------------------------------------------------------
(* Anti-affinity: most steps move no VM and choose no node.                *)

Quiet ==
  /\ \A v \in Vm : NodeOf(vmObj'[v]) = NodeOf(vmObj[v])
  /\ overridden' = overridden
  /\ \A v \in Vm : pass'[v].at = "place" =>
       /\ pass[v].at = "place"
       /\ pass'[v].choice = pass[v].choice
       /\ pass'[v].bypassed = pass[v].bypassed

\* A step that moves no VM and chooses no node keeps anti-affinity.
LEMMA QuietStep ==
  ASSUME ChoiceInv, AffinityInv, Quiet
  PROVE  ChoiceInv' /\ AffinityInv'
<1>1. \A v \in Vm : Peers(v) \subseteq Vm
  BY DEF Peers, Group
<1>2. ChoiceInv'
  BY <1>1 DEF Quiet, ChoiceInv
<1>3. AffinityInv'
  BY <1>1 DEF Quiet, AffinityInv
<1>4. QED
  BY <1>2, <1>3

\* Ending a pass moves no VM.
LEMMA EndPassQuiet ==
  ASSUME TypeOK, NEW v \in Vm, EndPass(v), UNCHANGED <<vmObj, overridden>>
  PROVE  Quiet
BY DEF TypeOK, EndPass, Idle, Quiet

\* A write that keeps the VM's node, and enters no placement, moves no VM.
LEMMA WriteQuiet ==
  ASSUME TypeOK, NEW v \in Vm, NEW STATE new, NEW STATE next, Write(v, new, next),
         next # "place",
         pass[v].fresh => NodeOf(new) = NodeOf(vmObj[v]),
         UNCHANGED overridden
  PROVE  Quiet
<1>1. CASE pass[v].fresh
  <2>1. \A w \in Vm \ {v} : pass'[w] = pass[w] /\ vmObj'[w] = vmObj[w]
    BY <1>1 DEF TypeOK, Write, EndPass
  <2>2. vmObj'[v] = new
    BY <1>1 DEF TypeOK, Write
  <2>3. pass'[v].at # "place"
    <3>1. CASE next = "idle"
      BY <1>1, <3>1 DEF TypeOK, Write, Idle
    <3>2. CASE next # "idle"
      <4>1. pass'[v] = [pass[v] EXCEPT !.at = next, !.fresh = (new = vmObj[v])]
        BY <1>1, <3>2 DEF TypeOK, Write
      <4>2. QED
        BY <4>1 DEF TypeOK, Pass
    <3>3. QED
      BY <3>1, <3>2
  <2>4. QED
    BY <1>1, <2>1, <2>2, <2>3 DEF Quiet
<1>2. CASE ~pass[v].fresh
  BY <1>2, EndPassQuiet DEF Write
<1>3. QED
  BY <1>1, <1>2

\* A pass that leaves its stage for one other than the status write.
LEMMA ContinueQuiet ==
  ASSUME TypeOK, NEW v \in Vm, NEW STATE next, next # "place", Continue(v, next),
         UNCHANGED <<vmObj, overridden>>
  PROVE  Quiet
BY DEF TypeOK, Continue, Pass, Quiet

\* A foreign write that leaves every VM on its node moves no VM.
LEMMA DisturbQuiet ==
  ASSUME TypeOK, NEW v \in Vm, Disturb(v),
         \A w \in Vm : NodeOf(vmObj'[w]) = NodeOf(vmObj[w]),
         UNCHANGED overridden
  PROVE  Quiet
<1>1. \A w \in Vm : /\ pass'[w].at = pass[w].at
                    /\ pass'[w].choice = pass[w].choice
                    /\ pass'[w].bypassed = pass[w].bypassed
  BY DEF TypeOK, Disturb, Pass
<1>2. QED
  BY <1>1 DEF Quiet

\* A node chosen under the mutex is free of peers or exempt, and no other pass
\* has one chosen.
LEMMA PickStep ==
  ASSUME TypeOK, MutexInv, ChoiceInv, AffinityInv, NEW v \in Vm,
         NEW b \in BOOLEAN, Pick(v, b), pass[v].at \in Locked,
         UNCHANGED <<vmObj, overridden>>
  PROVE  ChoiceInv' /\ AffinityInv'
<1>1. /\ \A w \in Vm \ {v} : pass'[w] = pass[w]
      /\ pass'[v].choice \in Candidates(v, pass[v].copy, b) \cap Node
      /\ pass'[v].bypassed = b
  BY PickEffect
<1>2. pass'[v].choice # None
  BY <1>1, NoneAssumption
<1>3. \/ pass'[v].bypassed \/ Pinned[v] # None
      \/ \A w \in Peers(v) : NodeOf(vmObj'[w]) # pass'[v].choice
  BY <1>1 DEF Candidates, Blocked, Peers
<1>4. \A w \in Vm \ {v} : pass'[w].at # "place"
  BY <1>1 DEF MutexInv, Locked
<1>5. ChoiceInv'
  BY <1>2, <1>3, <1>4 DEF ChoiceInv
<1>6. AffinityInv'
  BY DEF AffinityInv
<1>7. QED
  BY <1>5, <1>6

\* The status write: the choice is still free, or the VM counts as overridden.
LEMMA PlaceStep ==
  ASSUME TypeOK, CopyInv, MutexInv, ChoiceInv, AffinityInv, NEW v \in Vm, Place(v)
  PROVE  ChoiceInv' /\ AffinityInv'
<1>1. pass[v].at = "place" /\ mutex = v
  BY DEF Place, At, MutexInv, Locked
<1>2. CASE ~pass[v].fresh
  <2>1. Quiet
    BY <1>2, EndPassQuiet DEF Place, WriteStatus, Write
  <2>2. QED
    BY <2>1, QuietStep
<1>3. CASE pass[v].fresh
  <2> DEFINE n == pass[v].choice
             exempt == pass[v].bypassed \/ Pinned[v] # None
  <2>1. /\ \A w \in Vm \ {v} : pass'[w] = pass[w] /\ vmObj'[w] = vmObj[w]
        /\ vmObj'[v] = [vmObj[v] EXCEPT !.status = PlacedStatus(pass[v])]
    BY <1>3 DEF TypeOK, Place, WriteStatus, Write, EndPass
  <2>2. \A w \in Vm \ {v} : pass'[w].at # "place"
    BY <1>1, <2>1 DEF MutexInv, Locked
  <2>3. pass'[v].at # "place"
    <3>1. CASE LastCall(pass[v].copy) = "idle"
      BY <1>3, <3>1 DEF TypeOK, Place, WriteStatus, Write, Idle
    <3>2. CASE LastCall(pass[v].copy) = "clear"
      <4>1. PICK f \in BOOLEAN :
              pass'[v] = [pass[v] EXCEPT !.at = "clear", !.fresh = f]
        BY <1>3, <3>2 DEF TypeOK, Place, WriteStatus, Write
      <4>2. QED
        BY <4>1 DEF TypeOK, Pass
    <3>3. QED
      BY <3>1, <3>2 DEF LastCall
  <2>4. NodeOf(vmObj'[v]) \in {n, None}
    <3>1. pass[v].copy.status \in Status
      BY <1>1 DEF CopyInv, Object
    <3>2. PlacedStatus(pass[v]).node = n
      BY <3>1 DEF PlacedStatus, Status
    <3>3. vmObj'[v].status = PlacedStatus(pass[v])
      BY <2>1 DEF TypeOK, Object
    <3>4. QED
      BY <3>2, <3>3 DEF NodeOf
  <2>5. /\ exempt => v \in overridden'
        /\ \A w \in Vm \ {v} : w \in overridden => w \in overridden'
    BY <1>3 DEF Place
  <2>6. exempt \/ \A w \in Peers(v) : NodeOf(vmObj[w]) # n
    BY <1>1 DEF ChoiceInv
  <2>7. \A w \in Vm : \A x \in Peers(w) : x \in Vm /\ x # w /\ w \in Peers(x)
    BY DEF Peers, Group
  <2>8. ASSUME NEW w \in Peers(v), NodeOf(vmObj'[v]) # None,
               NodeOf(vmObj'[v]) = NodeOf(vmObj'[w])
        PROVE  v \in overridden'
    BY <2>1, <2>4, <2>5, <2>6, <2>7, <2>8
  <2>9. AffinityInv'
    <3>1. SUFFICES ASSUME NEW w \in Vm, NEW x \in Peers(w),
                          NodeOf(vmObj'[w]) # None,
                          NodeOf(vmObj'[w]) = NodeOf(vmObj'[x])
                   PROVE  w \in overridden' \/ x \in overridden'
      BY DEF AffinityInv
    <3>2. CASE w = v
      BY <2>8, <3>1, <3>2
    <3>3. CASE x = v
      BY <2>7, <2>8, <3>1, <3>3
    <3>4. CASE w # v /\ x # v
      BY <2>1, <2>5, <2>7, <3>1, <3>4 DEF AffinityInv
    <3>5. QED
      BY <3>2, <3>3, <3>4
  <2>10. ChoiceInv'
    BY <2>2, <2>3 DEF ChoiceInv
  <2>11. QED
    BY <2>9, <2>10
<1>4. QED
  BY <1>2, <1>3

\* Every step keeps anti-affinity, of what is stored and of what is chosen.
LEMMA AffinityStep ==
  TypeOK /\ CopyInv /\ MutexInv /\ ChoiceInv /\ AffinityInv /\ [Next]_vars
    => ChoiceInv' /\ AffinityInv'
<1> SUFFICES ASSUME TypeOK, CopyInv, MutexInv, ChoiceInv, AffinityInv, [Next]_vars
             PROVE  ChoiceInv' /\ AffinityInv'
  OBVIOUS
<1>1. CASE UNCHANGED vars
  BY <1>1, QuietStep DEF vars, Quiet
<1>2. ASSUME NEW v \in Vm, PassStep(v) \/ AcquireMutex(v)
      PROVE  ChoiceInv' /\ AffinityInv'
  <2>1. /\ pass[v] \in Pass
        /\ vmObj[v] \in Object
        /\ \A o \in Object : NodeOf([vmObj[v] EXCEPT !.status = o.status]) = NodeOf(o)
        /\ \A o \in Object : NodeOf([o EXCEPT !.status = vmObj[v].status]) = NodeOf(vmObj[v])
    BY DEF TypeOK, Object, NodeOf
  <2>2. pass[v].fresh => pass[v].copy = vmObj[v]
    BY DEF CopyInv
  <2>3. pass[v].at # "idle" => pass[v].copy \in Object
    BY DEF CopyInv
  <2>4. CASE Begin(v)
    <3>1. pass' = [pass EXCEPT ![v] = [Idle EXCEPT !.at = FirstCall(vmObj[v]),
                                         !.copy = vmObj[v], !.fresh = TRUE]]
          /\ vmObj' = vmObj /\ overridden' = overridden
      BY <2>4 DEF Begin
    <3>2. pass'[v].at = FirstCall(vmObj[v])
      BY <3>1 DEF TypeOK, Idle
    <3>3. \A w \in Vm \ {v} : pass'[w] = pass[w]
      BY <3>1 DEF TypeOK
    <3>4. Quiet
      BY <3>1, <3>2, <3>3 DEF FirstCall, Quiet
    <3>5. QED
      BY <3>4, QuietStep
  <2>5. CASE InitializeStatus(v)
    <3>1. pass[v].fresh => vmObj[v].status = None
      BY <2>2, <2>5 DEF InitializeStatus, At, CopyInv
    <3>2. pass[v].fresh =>
            NodeOf([vmObj[v] EXCEPT !.status = BlankStatus]) = NodeOf(vmObj[v])
      BY <2>1, <3>1 DEF NodeOf, BlankStatus, Object
    <3>3. Quiet
      BY <2>5, <3>2, WriteQuiet DEF InitializeStatus, WriteStatus
    <3>4. QED
      BY <3>3, QuietStep
  <2>6. CASE FillNics(v)
    <3>1. pass[v].at = "nics" /\ pass[v].copy.status \in Status /\ pass[v].copy.status # None
      BY <2>3, <2>6 DEF FillNics, At, CopyInv, Object
    <3>2. [pass[v].copy.status EXCEPT !.nics = TRUE].node = pass[v].copy.status.node
      BY <3>1 DEF Status
    <3>3. pass[v].fresh =>
            NodeOf([vmObj[v] EXCEPT !.status = [pass[v].copy.status EXCEPT !.nics = TRUE]])
              = NodeOf(vmObj[v])
      BY <2>1, <2>2, <3>1, <3>2, NoneAssumption DEF NodeOf, Object, Status
    <3>4. Quiet
      BY <2>6, <3>3, WriteQuiet DEF FillNics, WriteStatus
    <3>5. QED
      BY <3>4, QuietStep
  <2>7. CASE CommitNics(v)
    <3>1. Quiet
      BY <2>1, <2>3, <2>7, WriteQuiet DEF CommitNics, At, Commit
    <3>2. QED
      BY <3>1, QuietStep
  <2>8. CASE FillUuid(v)
    <3>1. [pass[v].copy EXCEPT !.uuid = TRUE] \in Object
      BY <2>3, <2>8 DEF FillUuid, At, Object
    <3>2. Quiet
      BY <2>1, <2>8, <3>1, WriteQuiet DEF FillUuid, Commit
    <3>3. QED
      BY <3>2, QuietStep
  <2>9. CASE CheckPlacement(v)
    <3>1. Quiet
      BY <2>9 DEF CheckPlacement, LastCall, TypeOK, Pass, Idle, Quiet
    <3>2. QED
      BY <3>1, QuietStep
  <2>10. CASE AcquireMutex(v)
    <3>1. Quiet
      BY <2>10, ContinueQuiet DEF AcquireMutex
    <3>2. QED
      BY <3>1, QuietStep
  <2>11. CASE Schedule(v)
    <3>1. pass[v].at \in Locked /\ UNCHANGED <<vmObj, overridden>>
      BY <2>11 DEF Schedule, At, Locked
    <3>2. CASE Pick(v, FALSE)
      BY <3>1, <3>2, PickStep
    <3>3. CASE EndPass(v)
      BY <3>1, <3>3, EndPassQuiet, QuietStep
    <3>4. CASE Continue(v, "bypass")
      BY <3>1, <3>4, ContinueQuiet, QuietStep
    <3>5. QED
      BY <2>11, <3>2, <3>3, <3>4 DEF Schedule, ScheduleFailed
  <2>12. CASE ScheduleIgnoringAffinity(v)
    <3>1. pass[v].at \in Locked /\ UNCHANGED <<vmObj, overridden>>
      BY <2>12 DEF ScheduleIgnoringAffinity, At, Locked
    <3>2. CASE Pick(v, TRUE)
      BY <3>1, <3>2, PickStep
    <3>3. CASE EndPass(v)
      BY <3>1, <3>3, EndPassQuiet, QuietStep
    <3>4. QED
      BY <2>12, <3>2, <3>3 DEF ScheduleIgnoringAffinity
  <2>13. CASE Place(v)
    BY <2>13, PlaceStep
  <2>14. CASE ClearRequest(v)
    <3>1. [pass[v].copy EXCEPT !.request = None] \in Object
      BY <2>3, <2>14 DEF ClearRequest, At, Object
    <3>2. Quiet
      BY <2>1, <2>14, <3>1, WriteQuiet DEF ClearRequest, Commit
    <3>3. QED
      BY <3>2, QuietStep
  <2>15. QED
    BY <1>2, <2>4, <2>5, <2>6, <2>7, <2>8, <2>9, <2>10, <2>11, <2>12, <2>13, <2>14
       DEF PassStep
<1>3. ASSUME NEW n \in Node, NodeStep(n) PROVE ChoiceInv' /\ AffinityInv'
  <2>1. ASSUME RequestMigration(n) PROVE Quiet
    <3>1. PICK v \in eviction[n].todo : Ask(n, v)
      BY <2>1 DEF RequestMigration
    <3>2. v \in Vm
      BY DEF TypeOK, Eviction
    <3>3. \A w \in Vm : /\ pass'[w].at = pass[w].at
                        /\ pass'[w].choice = pass[w].choice
                        /\ pass'[w].bypassed = pass[w].bypassed
      BY <3>1, <3>2 DEF Ask, TypeOK, Pass
    <3>4. \A w \in Vm : NodeOf(vmObj'[w]) = NodeOf(vmObj[w])
      BY <3>1, <3>2 DEF Ask, TypeOK, Object, NodeOf
    <3>5. QED
      BY <2>1, <3>3, <3>4 DEF RequestMigration, Quiet
  <2>2. CASE UNCHANGED <<vmObj, pass, overridden>>
    BY <2>2, QuietStep DEF Quiet
  <2>3. QED
    BY <1>3, <2>1, <2>2, QuietStep DEF NodeStep, ReconcileNode, ListVms
<1>4. ASSUME Environment PROVE ChoiceInv' /\ AffinityInv'
  <2>1. CASE UNCHANGED <<vmObj, pass, overridden>>
    BY <2>1, QuietStep DEF Quiet
  <2>2. ASSUME NEW v \in Vm, CompleteMigration(v) PROVE Quiet
    <3>1. vmObj[v] \in Object /\ vmObj[v].status \in Status
      BY <2>2 DEF CompleteMigration, TypeOK, Object
    <3>2. [vmObj[v] EXCEPT !.status.pending = FALSE].status
            = [vmObj[v].status EXCEPT !.pending = FALSE]
      BY <3>1 DEF Object
    <3>3. \A w \in Vm : NodeOf(vmObj'[w]) = NodeOf(vmObj[w])
      BY <2>2, <3>1, <3>2, NoneAssumption DEF CompleteMigration, TypeOK, Status, NodeOf
    <3>4. QED
      BY <2>2, <3>3, DisturbQuiet DEF CompleteMigration
  <2>3. ASSUME NEW v \in Vm, ForeignWrite(v) PROVE Quiet
    BY <2>3, DisturbQuiet DEF ForeignWrite
  <2>4. ASSUME NEW v \in Vm, Fault(v) PROVE Quiet
    BY <2>4, EndPassQuiet, ContinueQuiet DEF Fault, ScheduleFailed
  <2>5. ASSUME Restart PROVE Quiet
    BY <2>5 DEF Restart, Idle, Quiet
  <2>6. QED
    BY <1>4, <2>1, <2>2, <2>3, <2>4, <2>5, QuietStep
       DEF Environment, ToggleMaintenance, EvictionFault
<1>5. QED
  BY <1>1, <1>2, <1>3, <1>4 DEF Next

-----------------------------------------------------------------------------
(* The theorems                                                            *)

\* The invariant is inductive: every action of the controllers and of their
\* environment preserves the types, the copies' relation to the store, the
\* mutex discipline and anti-affinity, for any number of VMs and nodes.
THEOREM Inductive == Spec => []IInv
<1>1. IInv /\ [Next]_vars => IInv'
  BY TypeStep, CopyStep, MutexStep, AffinityStep DEF IInv
<1>2. QED
  BY InitInv, <1>1, PTL DEF Spec

\* Every variable keeps its type.
THEOREM TypeCorrect == Spec => []TypeOK
BY Inductive, PTL DEF IInv

\* Scheduling is exclusive: two VMs of one anti-affinity group are on one node
\* only if spec.node or a requested migration put one of them there, whatever
\* fails, conflicts or restarts (vm.rs 89-113).
THEOREM AffinityKept == Spec => []AffinityInv
BY Inductive, PTL DEF IInv

=============================================================================
